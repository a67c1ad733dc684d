CONSTANTS
  M = 16  Wrap = 4  Lag = 1  Ahead = 4
  First = 14  MaxChunks = 4
  MaxQueued = 2  Realtime = FALSE
  MaxInFlight = 2
  Sizes = {1, 2}
  Blocking = {TRUE, FALSE}  MaxResets = 1
SPECIFICATION Spec
PROPERTIES ImplementsStream ReturnedReached
CHECK_DEADLOCK FALSE
