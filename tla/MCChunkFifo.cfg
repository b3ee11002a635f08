SPECIFICATION FairSpec
CONSTANTS
  chunk_num = 2
  MaxSamples = 7
INVARIANTS
  TypeOK
  RingInvariant
PROPERTIES
  UnreadNeverOverwritten
  ImplementsQueue
  EventuallyDelivered
