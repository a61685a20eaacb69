\* A read command that answers FAIL before its request has left the bridge.
CONSTANTS
  i1 = i1  i2 = i2  r1 = r1  r2 = r2  b1 = b1  b2 = b2
  ConfigOrder <- OneInverter
  ReadOnly = {}
  Registers = {r1}
  Bits = {b1}
  Commands <- OneRead
  Capacity = 2
  MaxMessages = 1
  MaxEvents = 0
  MaxChanges = 0
  MaxFailures = 0
  Prompt = TRUE
SPECIFICATION Spec
INVARIANTS ReadReachesInverterFirst
CHECK_DEADLOCK FALSE
