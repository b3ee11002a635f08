SPECIFICATION Spec
CONSTANTS
  is_dynamic = FALSE
  has_element_crc = TRUE
  element_len = 1
  Lens = {1}
  partition_size = 12
  UnitSize = 12
  MaxId = 5
  MaxStores = 5
  MaxCrashes = 2
  MaxFails = 0
  MaxFaults = 2
  MaxClears = 0
CHECK_DEADLOCK FALSE
INVARIANT PartitionSurvives
