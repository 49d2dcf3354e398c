\* One session and a directory beside the storage.
CONSTANTS
  s1 = s1
  s2 = s2
  Sessions <- MCOne
  Paths <- MCSibling
  Continued <- MCContinued
  Length <- MCLength
  ExternalStorage <- MCStorage
  Roots <- MCRoots
  MAX_AUTH_FAILS = 1
  MaxLines = 3
  MaxAhead = 0
  MaxChanges = 0
SPECIFICATION Spec
INVARIANTS WorkingDirWithinRoot
CHECK_DEADLOCK FALSE
