CONSTANTS
  Portable = {nuclei}
  Launched = {nmap}
  Request = {q1}
  NoTool = none
  TTL = 1
  MaxInstalls = 2
SPECIFICATION FairSpec
INVARIANTS
  TypeOK
  StatusIsOwn
  OutputCaptured
  OutcomeShown
  MissesExpire
PROPERTY InstallSettles
