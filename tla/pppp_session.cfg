CONSTANTS
  s1 = s1  b1 = b1  b2 = b2  u1 = u1  u2 = u2
  NoThread = NoThread
  Svc = {s1}
  RunMayFail = TRUE
  Borrowers = {b1}
  Restarters = {}
  Reloaders = {}
  Replacers = {}
  Persistent = {}
  ReadyArgs = {TRUE}
  Uploads = {u1, u2}
  StopTimesOut = FALSE
  MaxDrops = 1
SPECIFICATION FairSessionSpec
INVARIANTS SessionTypeOK StoppedMeansClosed
PROPERTIES UploadsFinish HeldIsServedUnlessSwallowed
