SPECIFICATION MCSpec
CONSTANTS
  MaxTasks = 3
  QueueSize = 1
  MaxGone = 1
  StreamCap = 1
  MaxEvents = 0
  Modes = {TRUE, FALSE}
  MaxPerHour = 1
  MaxPerDay = 2
  TokenCap = 1
  Approvers = {a1}
  MaxProposals = 1
  Approvals = {"proposals", "plans", "config"}
  Slugs = {s1}
  MaxUpdates = 3
  MaxDrafts = 2
  MaxDeaths = 1
  KeepTurns = 1
  Savers = {1, 2}
  Fresh = {"new"}
  MaxSaves = 3
  MaxAccidents = 1
CHECK_DEADLOCK FALSE
INVARIANTS ApprovalsTypeOK ApprovalHonoured ConfigSaved WithinWindows ProposalRunsOnce OneAutonomousTask
