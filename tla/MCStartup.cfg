SPECIFICATION Spec
CONSTANTS
  InverterCount = 2
  Capacity = 2
  Setups <- MCSetups
  MaxCommands = 3
  MaxPackets = 2
  MaxDrops = 2
INVARIANTS TypeOK CommandsWait LoopEndHasAReason
PROPERTIES StaysDeaf EndIsNoticed WaitingCommandsAreTaken
CHECK_DEADLOCK FALSE
