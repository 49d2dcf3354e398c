\* Lifecycle, with a join in onDestroy that always succeeds.
CONSTANTS
  MaxInstances = 3
  s1 = s1
  s2 = s2
  Sessions <- TwoSessions
  MaxRequests = 4
  MaxKills = 1
  JoinMayTimeOut = FALSE
SPECIFICATION FairSpec
INVARIANTS TypeOK DestroyedHoldsNothing RunningSessionsAreKnown
PROPERTIES ServiceServes
CHECK_DEADLOCK FALSE
