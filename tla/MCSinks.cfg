\* One packet of every kind, one optional sink at a time, channels that overrun.
CONSTANTS
  Packets <- OneOfEach
  RegisterCount = 3
  PublishIndividual = TRUE
  Setups <- OneSinkEach
  Attempts = 2
  Capacity = 2
  MaxPackets = 4
  MaxFailures = 1
SPECIFICATION FairSpec
INVARIANTS TypeOK CacheIsCurrent LogHasNoGaps
PROPERTIES InfluxDelivers MqttDelivers PointsAreDone
CHECK_DEADLOCK FALSE
