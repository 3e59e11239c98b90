CONSTANTS
  Worker = {w1, w2}
  Client = {c1}
  NoThread = nobody
  NoReport = none
  Background = {TRUE}
  LastId = 2
  LastMade = 2
  MaxRequests = 4
  MaxQueue = 2
  MaxCrashes = 0
SPECIFICATION Spec
INVARIANT JobNotStuck
CHECK_DEADLOCK FALSE
