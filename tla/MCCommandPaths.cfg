\* Two inverters, one of them read-only, and writes of every path.
CONSTANTS
  i1 = i1  i2 = i2  r1 = r1  r2 = r2  b1 = b1  b2 = b2
  ConfigOrder <- TwoInverters
  ReadOnly <- SecondReadOnly
  Registers = {r1}
  Bits = {b1}
  Commands <- Writes
  Capacity = 3
  MaxMessages = 2
  MaxEvents = 0
  MaxChanges = 0
  MaxFailures = 0
  Prompt = FALSE
SPECIFICATION Spec
INVARIANTS OwnReplyCannotArrive OnlyParamWritesStray OrderWithinPath
CHECK_DEADLOCK FALSE
