CONSTANTS
  s1 = s1  s2 = s2
  b1 = b1  b2 = b2
  r1 = r1  l1 = l1  v1 = v1
  NoThread = NoThread
  Svc = {s1}
  RunMayFail = TRUE
  Borrowers = {b1, b2}
  Restarters = {}
  Reloaders = {}
  Replacers = {}
  Persistent = {}
  ReadyArgs = {TRUE}
SPECIFICATION BorrowingSpec
INVARIANTS RefsCounted HeldMeansWanted
PROPERTIES GetReturns HeldRecovers UnheldStopsUnlessStopLost
