SPECIFICATION Spec
CONSTANTS
  f1 = f1
  f2 = f2
  MaxJobs = 2
  Firers = {f1, f2}
  MaxIterations = 1
  MaxConcurrent = 1
  MaxTokens = 1
  LoadLimit = 1
  MaxCrashes = 1
  MaxCancels = 1
  MaxFaults = 0
  MaxDays = 0
CHECK_DEADLOCK FALSE
INVARIANTS TypeOK RunningHasWorker SpendingBounded
SYMMETRY FirerSymmetry
