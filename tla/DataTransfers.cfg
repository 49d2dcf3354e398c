\* Sequences of PASV, PORT and transfers, with a termination at any step.
CONSTANTS
  MaxLines = 3
  MaxAnnouncements = 2
  MaxTransfers = 2
  UploadChunks = 2
  FileChunks = 2
  SoTimeoutMayFail = FALSE
SPECIFICATION Spec
INVARIANTS OneListener ConfirmedTransferIsComplete TransferReleasesSocket TerminateClosesWhatItFinds
PROPERTIES LastAnnouncementUsed
CHECK_DEADLOCK FALSE
