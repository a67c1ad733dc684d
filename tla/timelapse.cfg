CONSTANTS
  f1 = f1  f2 = f2
  File = {f1, f2}  NoFile = NoFile
  Sources = {"printer"}  SessionLight = FALSE
  MaxVideos = 1
  Thread = {1, 2}  NoThread = NoThread
  Worker = {1, 2}
  MaxDirs = 2  MaxFrames = 2  MaxCalls = 1  MaxCrashes = 1
  JoinMayTimeOut = TRUE
SPECIFICATION FairSpec
INVARIANT OneOwner
PROPERTIES FramesKept CapturesEnd
CHECK_DEADLOCK FALSE
