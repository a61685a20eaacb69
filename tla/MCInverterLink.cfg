\* Two inverters; the timeouts are shorter than the code's, in the same order.
CONSTANTS
  i1 = i1  i2 = i2
  Order <- TwoInverters
  TimerPeriod = 2
  RequestPeriod = 3
  HeartbeatAfter = 4
  InverterTimeout = 5
  ReadTimeout <- LongAndShort
  Horizon = 6
  MaxFailures = 1
  MaxCommands = 1
SPECIFICATION FairSpec
INVARIANTS TypeOK SilenceIsNoticed
PROPERTIES SilenceEndsReader
CHECK_DEADLOCK TRUE
