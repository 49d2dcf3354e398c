\* Lifecycle, with a join in onDestroy that may expire.
CONSTANTS
  MaxInstances = 3
  s1 = s1
  s2 = s2
  Sessions <- OneSession
  MaxRequests = 4
  MaxKills = 1
  JoinMayTimeOut = TRUE
SPECIFICATION FairSpec
INVARIANT LiveThreadIsTracked
PROPERTIES DestroyedThreadExits ImplementsOnOffServer
CHECK_DEADLOCK FALSE
