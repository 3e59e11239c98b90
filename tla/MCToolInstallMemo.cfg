CONSTANTS
  Portable = {nuclei}
  Launched = {}
  Request = {q1}
  NoTool = none
  TTL = 1
  MaxInstalls = 2
SPECIFICATION Spec
INVARIANT ClearedMemoTrue
