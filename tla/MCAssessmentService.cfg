CONSTANTS
  Worker = {w1}
  Client = {c1, c2}
  NoThread = nobody
  NoReport = none
  Background = {TRUE, FALSE}
  LastId = 2
  LastMade = 3
  MaxRequests = 6
  MaxQueue = 2
  MaxCrashes = 1
SPECIFICATION Spec
SYMMETRY Symmetry
INVARIANTS
  TypeOK
  OwnFindings
  CompletedWasScanned
  ReportOfItsOwner
  FinalReport
  FinalHoldsAll
  ActiveJobServed
PROPERTY BookKept
CHECK_DEADLOCK FALSE
