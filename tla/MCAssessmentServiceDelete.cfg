CONSTANTS
  Worker = {w1}
  Client = {c1, c2}
  NoThread = nobody
  NoReport = none
  Background = {FALSE}
  LastId = 1
  LastMade = 1
  MaxRequests = 3
  MaxQueue = 1
  MaxCrashes = 0
SPECIFICATION Spec
PROPERTY DeletionWaitsForRun
CHECK_DEADLOCK FALSE
