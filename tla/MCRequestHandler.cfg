SPECIFICATION FairSpec
CONSTANTS
  Kinds <- MCKinds
  Requests <- MCRequests
  SchedSize = 10
  NotificationSize = 2
  RxSize = 3
  TxSize = 1
  MaxRetries = 1
  MaxChunks = 1
  MaxRequests = 2
  MaxConnections = 2
  StorageBusy = FALSE
CHECK_DEADLOCK FALSE
INVARIANTS TypeOK NoWedge IteratorsOwned
PROPERTIES ResponseKept HandlersDoNotMultiply RequestsServed ResponseFinished
