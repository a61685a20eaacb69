\* Wrong values, strict_data_check or not, readers and loop at any pace.
CONSTANTS
  Count = 3
  Enabled = {1, 2}
  Truth <- TwoInverters
  Configs <- Wrong
  Capacity = 2
SPECIFICATION FairSpec
INVARIANTS TypeOK OwnValues StrictKeepsDatalogs
PROPERTIES Learned
CHECK_DEADLOCK TRUE
