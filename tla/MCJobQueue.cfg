CONSTANTS
  Assessment = {a1}
  Worker = {w1, w2}
  Client = {c1, c2}
  Boot = boot
  NoAssessment = none
  HeartbeatEvery = 1
  BeatBy = 1
  FinishWithin = 1
  StaleAfter = 3
  Tolerated = 1
  MaxQueue = 2
  MaxCrashes = 1
  MaxDbErrors = 1
SPECIFICATION Spec
SYMMETRY Symmetry
INVARIANTS
  TypeOK
  StaleOnlyIfMissed
  RunningHasWorker
  NoLostJob
