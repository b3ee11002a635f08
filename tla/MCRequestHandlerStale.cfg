SPECIFICATION Spec
CONSTANTS
  Kinds <- MCKinds
  Requests <- StatusRequests
  SchedSize = 20
  NotificationSize = 2
  RxSize = 3
  TxSize = 1
  MaxRetries = 1
  MaxChunks = 1
  MaxRequests = 3
  MaxConnections = 2
  StorageBusy = FALSE
CHECK_DEADLOCK FALSE
INVARIANT OwnTimepoint
