CONSTANTS
  MaxLinks = 2  MaxCalls = 2  MaxFaults = 2
SPECIFICATION FairSpec
INVARIANTS OneCamera StoppedIsOffline
PROPERTIES StaleHeartsEnd StopReturnsUnlessCommanded
CHECK_DEADLOCK FALSE
