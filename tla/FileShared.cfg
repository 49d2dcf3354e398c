\* A user and a guest at work on the same names.
CONSTANTS
  user = user
  guest = guest
  a = a
  b = b
  Sessions <- UserAndGuest
  Users <- UserAlone
  Names <- TwoNames
  MaxCommands = 3
  MaxLength = 2
  MaxKills = 1
SPECIFICATION Spec
INVARIANTS DownloadIsOneVersion RenameKeepsFile
PROPERTIES UploadIsStored
CHECK_DEADLOCK FALSE
