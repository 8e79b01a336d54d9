SPECIFICATION Spec
CONSTANTS
  gen = gen
  imp = imp
  Job <- MCJob
  Locking <- MCLocking
  Handler = {w1}
  Shell = {}
  Command = {timer}
  Faults = {"kill"}
  MaxRows = 2
  None = None
INVARIANT RunningRowIsLive
