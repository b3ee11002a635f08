SPECIFICATION StorerSpec
CONSTANTS
  is_dynamic = TRUE
  has_element_crc = TRUE
  element_len = 0
  Lens = {1}
  partition_size = 20
  UnitSize = 10
  MaxId = 5
  MaxStores = 6
  MaxCrashes = 1
  MaxFails = 1
  MaxFaults = 1
  MaxClears = 1
  Stamp <- MCStamp
  Requested = {2}
CHECK_DEADLOCK FALSE
INVARIANTS
  DeliveredInOrder
  ReadingGoesOn
  PartitionSurvives
PROPERTIES
  IteratorStable
  NoneSkipped
