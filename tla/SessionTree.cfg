\* Two sessions on one tree.
CONSTANTS
  s1 = s1
  s2 = s2
  Sessions <- MCTwo
  Paths <- MCTree
  Continued <- MCContinued
  Length <- MCLength
  ExternalStorage <- MCStorage
  Roots <- MCRoots
  MAX_AUTH_FAILS = 1
  MaxLines = 3
  MaxAhead = 0
  MaxChanges = 1
SPECIFICATION Spec
SYMMETRY MCSymmetry
PROPERTIES OnlyUsersChangeTheTree RemovalReplyIsTrue UndisturbedRemovalSucceeds 
CHECK_DEADLOCK FALSE
