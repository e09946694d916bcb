SPECIFICATION Spec
CONSTANTS
  MaxTasks = 2
  QueueSize = 1
  MaxGone = 0
  StreamCap = 1
  MaxEvents = 1
  Modes = {TRUE}
  MaxPerHour = 1
  MaxPerDay = 1
  TokenCap = 0
  Approvers = {a1, a2}
  MaxProposals = 1
CHECK_DEADLOCK FALSE
INVARIANTS ProposalRunsOnce
