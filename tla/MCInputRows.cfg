\* One inverter, three polls of two blocks with two disturbances, and one database.
CONSTANTS
  i1 = i1  i2 = i2  d1 = d1  d2 = d2  b1 = b1  b2 = b2  b3 = b3
  Inverters = {i1}
  BlockOrder <- TwoBlocks
  Databases = {d1}
  Attempts = 2
  Capacity = 2
  MaxPackets = 6
  MaxUpsets = 2
  MaxFailures = 1
SPECIFICATION FairSpec
INVARIANTS TypeOK RowsSpanFewPolls NoBlockTwice
PROPERTIES DatabasesDeliver RowsAreDone
CHECK_DEADLOCK FALSE
