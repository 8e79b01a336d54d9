SPECIFICATION ImportFairSpec
CONSTANTS
  imp = imp
  u = u
  v = v
  Job <- MCJob
  ImportJob = imp
  Locking = {}
  Handler = {w1, w2}
  Shell = {}
  Command = {}
  Faults = {"kill", "drop", "reboot"}
  MaxRows = 3
  None = None
  Url = {u}
  BatchSize = 2
  MaxImports = 3
INVARIANTS ImportTypeOK LaterRequestWins
PROPERTIES OnlyTornRatedAgain NothingLostSilently
CHECK_DEADLOCK FALSE
