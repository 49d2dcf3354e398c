\* The closer racing receiveFromDataSocket.
CONSTANTS
  MaxLines = 2
  MaxAnnouncements = 1
  MaxTransfers = 1
  UploadChunks = 1
  FileChunks = 1
  SoTimeoutMayFail = FALSE
SPECIFICATION Spec
INVARIANTS ReceiveReturns
CHECK_DEADLOCK FALSE
