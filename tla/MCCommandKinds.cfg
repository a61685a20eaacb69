\* Commands of every way, changes and writes of somebody else, tasks that end,
\* and channels small enough to be overrun.
CONSTANTS
  i1 = i1  i2 = i2  r1 = r1  r2 = r2  b1 = b1  b2 = b2
  ConfigOrder <- OneInverter
  ReadOnly = {}
  Registers = {r1}
  Bits = {b1}
  Commands <- EveryWay
  Capacity = 1
  MaxMessages = 2
  MaxEvents = 0
  MaxChanges = 1
  MaxFailures = 1
  Prompt = FALSE
SPECIFICATION FairSpec
INVARIANTS TypeOK ExitsHaveAReason OkMeansWritten
PROPERTIES MessagesAreProcessed RequestsAreForwarded
CHECK_DEADLOCK FALSE
