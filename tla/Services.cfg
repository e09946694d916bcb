SPECIFICATION Spec
CONSTANTS
  Services = {"scheduler", "calls", "line", "streams", "knowledge", "reply", "texts", "dials", "mcp", "apps", "logs"}
  Crons <- MCCrons
  Enabled = {1, 2, 3, 4}
  ToLog = {2}
  Results <- MCResults
  LogCut = 2
  MinuteLen = 12
  MinSleep = 11
  MinutesPerHour = 4
  MaxTime = 50
  MaxTroubles = 1
  MaxCalls = 2
  MaxRecords = 2
  MaxMishaps = 1
  Waiting = TRUE
  Devices = {"camera", "mic", "gps"}
  MaxRequests = 2
  MaxFrames = 1
  MaxRows = 3
  LastSecond = 3
  Retention = 2
  Recent = 1
  PollLimit = 2
  Skills = {"wake up", "wake_up", "note"}
  FileOf <- MCFileOf
  Dashed = {"note"}
  Notes = {"n1", "n2"}
  MaxWrites = 3
  MaxDisturbances = 2
  Styles = {"anthropic", "openai", "socket", "embedded"}
  MaxToolCalls = 3
  MaxSms = 2
  MaxTexts = 3
  PerHour = 1
  PerDay = 2
  Hour = 1
  Day = 4
  MaxClock = 5
  MaxMisses = 1
  Transports = {"stdio", "http"}
  Offered = {"t1", "t2"}
  MaxFailures = 2
  MaxAsks = 3
  MaxNuisances = 1
  AppFilters = {"user", "all"}
  AppAsks = {1, 2, 3}
  Ttl = 2
  MaxListing = 1
  MaxTicks = 4
  EventSources = {1, 2, 3}
  MaxBreaks = 2
INVARIANTS
  TypeOK 
  CollectedOnce Accounted 
       AnswersMatched 
CHECK_DEADLOCK FALSE
