SPECIFICATION Spec
CONSTANTS
  Badges = {d1, d2}
  Beacons = {b1, b2, b3}
  Rssi <- MCRssi
  SCAN_SAMPLING_CHUNK_DATA_SIZE = 3
  SCAN_CHUNK_DATA_SIZE = 2
  SCAN_PRIORITIZED_BEACONS = 1
  MaxCount = 2
  MaxEvents = 7
SYMMETRY MCSymmetry
CHECK_DEADLOCK FALSE
INVARIANTS
  TypeOK
  OwnChunk
  RssiInRange
  ScannerFollows
  ChunkOnItsWay
  ImportantKept
