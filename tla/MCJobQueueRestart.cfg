CONSTANTS
  Assessment = {a1}
  Worker = {w1}
  Client = {c1}
  Boot = boot
  NoAssessment = none
  HeartbeatEvery = 1
  BeatBy = 1
  FinishWithin = 1
  StaleAfter = 3
  Tolerated = 1
  MaxQueue = 1
  MaxCrashes = 1
  MaxDbErrors = 0
SPECIFICATION FairSpec
PROPERTY RunningJobRecovered
