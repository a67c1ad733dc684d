CONSTANTS
  v1 = v1  v2 = v2  s1 = s1  s2 = s2
  Viewer = {v1}  Session = {s1}
  MaxFaults = 2  MaxCalls = 3
SPECIFICATION FairSpec
INVARIANT CameraOff
PROPERTY RecoversUnlessStopLost
CHECK_DEADLOCK FALSE
