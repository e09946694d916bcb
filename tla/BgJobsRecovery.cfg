SPECIFICATION FairSpec
CONSTANTS
  f1 = f1
  f2 = f2
  MaxJobs = 1
  Firers = {f1}
  MaxIterations = 2
  MaxConcurrent = 1
  MaxTokens = 2
  LoadLimit = 1
  MaxCrashes = 2
  MaxCancels = 1
  MaxFaults = 1
  MaxDays = 1
CHECK_DEADLOCK FALSE
INVARIANTS ToldNeverRerun CancelSurvivesRestart IterationsPerLife
 
