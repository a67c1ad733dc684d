CONSTANTS
  s1 = s1  s2 = s2
  b1 = b1  b2 = b2
  r1 = r1  l1 = l1  v1 = v1
  NoThread = NoThread
  Svc = {s1, s2}
  RunMayFail = TRUE
  Borrowers = {b1}
  Restarters = {r1}
  Reloaders = {l1}
  Replacers = {v1}
  Persistent = {s2}
  ReadyArgs = {TRUE, FALSE}
SPECIFICATION FirstSpec
CHECK_DEADLOCK FALSE
INVARIANTS TypeOK StoppedMeansReleased
