\* One inverter, the code's own periods, and a read_timeout of 90 seconds.
CONSTANTS
  i1 = i1  i2 = i2
  Order <- OneInverter
  TimerPeriod = 2
  RequestPeriod = 3
  HeartbeatAfter = 8
  InverterTimeout = 20
  ReadTimeout <- Short
  Horizon = 21
  MaxFailures = 0
  MaxCommands = 0
SPECIFICATION Spec
INVARIANT ReadTimeoutEndsSilence
CHECK_DEADLOCK TRUE
