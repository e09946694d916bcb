SPECIFICATION Spec
CONSTANTS
  Entries = {"run_turn"}
  Brains = {FALSE}
  MaxIterations = 3
  MaxCalls = 1
  MaxTurns = 2
  MaxFaults = 0
CHECK_DEADLOCK FALSE
INVARIANTS RequestKept
