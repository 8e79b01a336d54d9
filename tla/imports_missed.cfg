SPECIFICATION ImportSpec
CONSTANTS
  imp = imp
  u = u
  v = v
  Job <- MCJob
  ImportJob = imp
  Locking = {}
  Handler = {w1, w2}
  Shell = {}
  Command = {}
  Faults = {}
  MaxRows = 3
  None = None
  Url <- MCUrl
  BatchSize = 2
  MaxImports = 3
INVARIANT PromiseKept
CHECK_DEADLOCK FALSE
