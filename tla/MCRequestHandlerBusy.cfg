SPECIFICATION FairSpec
CONSTANTS
  Kinds <- MCKinds
  Requests <- DataRequests
  SchedSize = 20
  NotificationSize = 2
  RxSize = 3
  TxSize = 1
  MaxRetries = 1
  MaxChunks = 1
  MaxRequests = 2
  MaxConnections = 1
  StorageBusy = TRUE
CHECK_DEADLOCK FALSE
PROPERTY ResponseFinished
