SPECIFICATION Spec
CONSTANTS
  N = 2
  BatchSize = 1
  Limit = 2
  MaxInFlight = 2
  Costs = {1}
  MaxFaults = 1
  MaxEdits = 1
  MaxRuns = 2
INVARIANTS InheritsSpend

