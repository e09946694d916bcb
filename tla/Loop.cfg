SPECIFICATION MCSpec
CONSTANTS
  Sides = {"loop", "daemon"}
  Entries = {"run_turn", "run_task"}
  Brains = {TRUE, FALSE}
  MaxIterations = 3
  MaxCalls = 2
  MaxTurns = 2
  MaxFaults = 1
  Processes = {1, 2}
  Requests = {1, 2}
  PromptSizes = {2, 3}
  ContextSize = 3
  MaxTokens = 2
  Threads = 2
  MaxUpsets = 1
CHECK_DEADLOCK FALSE
INVARIANTS MCTypeOK SessionIsRecord CallsAnswered TaskKept
  
