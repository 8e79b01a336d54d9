SPECIFICATION Spec
CONSTANTS
  gen = gen
  imp = imp
  Job <- MCJob
  Locking <- MCLocking
  Handler = {w1}
  Shell = {sh}
  Command = {timer}
  Faults = {"kill", "reboot", "drop", "dropPage", "runner", "timeout"}
  MaxRows = 2
  None = None
INVARIANTS
  TypeOK
  OneWriter
  LockedRowOwnedOnce
