SPECIFICATION FairSpec
CONSTANTS
  gen = gen
  imp = imp
  Job <- MCJob
  Locking <- MCLocking
  Handler = {w1}
  Shell = {}
  Command = {timer}
  Faults = {"kill", "runner", "drop"}
  MaxRows = 3
  None = None
INVARIANT OneActiveRowPerUnit
PROPERTIES
  ImplementsLifecycle
  RequestsResolve
  StartableAgain
