CONSTANTS
  Assessment = {a1, a2}
  Worker = {w1}
  Client = {c1}
  Boot = boot
  NoAssessment = none
  HeartbeatEvery = 1
  BeatBy = 1
  FinishWithin = 1
  StaleAfter = 2
  Tolerated = 0
  MaxQueue = 2
  MaxCrashes = 1
  MaxDbErrors = 0
SPECIFICATION FairSpec
PROPERTIES
  QueuedJobStarts
  ActiveJobEnds
  StaleJobRecovered
