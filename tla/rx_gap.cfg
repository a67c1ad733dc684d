CONSTANTS
  M = 16  Wrap = 4  Lag = 1  Ahead = 3
  First = 11  MaxChunks = 7
  MaxQueued = 2  Realtime = TRUE
SPECIFICATION FairRxSpec
INVARIANT NothingStranded
PROPERTY StallEnds
CHECK_DEADLOCK FALSE
