SPECIFICATION Spec
CONSTANTS
  Services = {"scheduler"}
  Crons <- MCCrons
  Enabled = {1, 2, 3, 4}
  ToLog = {2}
  Results <- MCResults
  LogCut = 2
  MinuteLen = 12
  MinSleep = 11
  MinutesPerHour = 4
  MaxTime = 50
  MaxTroubles = 1
  MaxCalls = 0
  MaxRecords = 0
  MaxMishaps = 0
  Waiting = FALSE
  Devices = {"gps"}
  MaxRequests = 0
  MaxFrames = 1
  MaxRows = 0
  LastSecond = 0
  Retention = 0
  Recent = 0
  PollLimit = 1
  Skills = {"wake up", "wake_up", "note"}
  FileOf <- MCFileOf
  Dashed = {}
  Notes = {"n1"}
  MaxWrites = 0
  MaxDisturbances = 0
  Styles = {"openai"}
  MaxToolCalls = 0
  MaxSms = 0
  MaxTexts = 1
  PerHour = 0
  PerDay = 0
  Hour = 0
  Day = 0
  MaxClock = 0
  MaxMisses = 0
  Transports = {"http"}
  Offered = {"t1"}
  MaxFailures = 1
  MaxAsks = 1
  MaxNuisances = 0
  AppFilters = {"user"}
  AppAsks = {1}
  Ttl = 0
  MaxListing = 0
  MaxTicks = 0
  EventSources = {1}
  MaxBreaks = 0
INVARIANT RunsForever
CHECK_DEADLOCK FALSE
