SPECIFICATION Spec
CONSTANTS
  gen = gen
  imp = imp
  Job <- MCJob
  Locking <- MCLocking
  Handler = {w1, w2}
  Shell = {}
  Command = {timer}
  Faults = {}
  MaxRows = 2
  None = None
INVARIANT OneActiveRowPerUnit
