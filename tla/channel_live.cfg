CONSTANTS
  M = 12  Wrap = 4  Lag = 2  Ahead = 2
  First = 11  MaxChunks = 2
  MaxQueued = 2  Realtime = FALSE
  MaxInFlight = 2
  Sizes = {1, 2}
  Blocking = {TRUE}  MaxResets = 0
SPECIFICATION FairSpec
PROPERTIES AllRead WriteComesBack
CHECK_DEADLOCK FALSE
