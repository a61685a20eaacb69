\* UpdateHold commands alone: timeouts, late replies, a foreign read, one device, no other writer.
CONSTANTS
  i1 = i1  i2 = i2  r1 = r1  r2 = r2  b1 = b1  b2 = b2
  ConfigOrder <- OneInverter
  ReadOnly = {}
  Registers = {r1}
  Bits = {b1, b2}
  Commands <- Switches
  Capacity = 4
  MaxMessages = 3
  MaxEvents = 1
  MaxChanges = 0
  MaxFailures = 0
  Prompt = FALSE
SPECIFICATION Spec
INVARIANTS AcknowledgedUpdatesStick
CHECK_DEADLOCK FALSE
