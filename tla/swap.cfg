CONSTANTS
  r1 = r1  r2 = r2  w1 = w1  w2 = w2  w3 = w3  none = none
  Request = {r1}  Worker = {w1, w2}  NoWorker = none
  MaxSwaps = 3  MaxFaults = 2
SPECIFICATION FairSpec
INVARIANTS NoHeatLeftUnlessLate OneDriver
PROPERTIES CancelStopsUnlessLate  SwapComesToRest
CHECK_DEADLOCK FALSE
