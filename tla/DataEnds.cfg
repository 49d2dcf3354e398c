\* A termination racing two transfers, with a client that answers.
CONSTANTS
  MaxLines = 3
  MaxAnnouncements = 2
  MaxTransfers = 2
  UploadChunks = 1
  FileChunks = 1
  SoTimeoutMayFail = TRUE
SPECIFICATION AnsweredSpec
PROPERTIES TerminatedSessionEnds
CHECK_DEADLOCK FALSE
