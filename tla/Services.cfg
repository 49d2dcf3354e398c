\* Deletions by two sessions; starts and stops of the advertisement; every file of up to
\* six bytes, cut into every sequence of buffers of up to three.
CONSTANTS
  Callers <- TwoCallers
  Delay = 2
  MaxRequests = 3
  MaxTime = 7
  MaxInstances = 3
  MaxLength = 6
  MaxBuffer = 3
SPECIFICATION ServicesSpec
INVARIANTS CancelledTimerUnused DownloadConverts RoundTripKeepsFile
PROPERTIES BroadcastAfterQuiet DeletionAnnounced HungThreadBailsOut StopTakesRegistrationBack
CHECK_DEADLOCK FALSE
