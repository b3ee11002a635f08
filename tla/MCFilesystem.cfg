SPECIFICATION Spec
CONSTANTS
  is_dynamic = TRUE
  has_element_crc = TRUE
  element_len = 0
  Lens = {1, 2}
  partition_size = 15
  UnitSize = 1
  MaxId = 4
  MaxStores = 5
  MaxCrashes = 2
  MaxFails = 1
  MaxFaults = 2
  MaxClears = 1
CHECK_DEADLOCK FALSE
INVARIANTS
  TypeOK
  NothingLost
  NothingResurrected
  PartitionSurvives
