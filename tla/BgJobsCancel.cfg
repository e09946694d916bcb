SPECIFICATION Spec
CONSTANTS
  f1 = f1
  f2 = f2
  MaxJobs = 1
  Firers = {f1}
  MaxIterations = 1
  MaxConcurrent = 1
  MaxTokens = 0
  LoadLimit = 1
  MaxCrashes = 0
  MaxCancels = 1
  MaxFaults = 0
  MaxDays = 0
CHECK_DEADLOCK FALSE
PROPERTIES CancelSticks
