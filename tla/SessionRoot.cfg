\* One session, a directory beside the storage, and two changes under it.
CONSTANTS
  s1 = s1
  s2 = s2
  Sessions <- MCOne
  Paths <- MCSibling
  Continued <- MCContinued
  Length <- MCLength
  ExternalStorage <- MCStorage
  Roots <- MCRoots
  MAX_AUTH_FAILS = 1
  MaxLines = 4
  MaxAhead = 1
  MaxChanges = 2
SPECIFICATION FairSpec
INVARIANTS WorkingDirStartsWithRoot
PROPERTIES ClosedSessionEnds
CHECK_DEADLOCK FALSE
