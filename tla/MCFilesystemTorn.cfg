SPECIFICATION Spec
CONSTANTS
  is_dynamic = TRUE
  has_element_crc = TRUE
  element_len = 0
  Lens = {1, 2}
  partition_size = 20
  UnitSize = 1
  MaxId = 5
  MaxStores = 5
  MaxCrashes = 2
  MaxFails = 0
  MaxFaults = 2
  MaxClears = 0
CHECK_DEADLOCK FALSE
INVARIANT CorruptionDetected
