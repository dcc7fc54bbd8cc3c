SPECIFICATION Spec_App
CHECK_DEADLOCK FALSE
CONSTANTS
  j1 = j1
  j2 = j2
  c1 = c1
  t1 = t1
  t2 = t2
  BpIo = {j1}
  BpCpu = {c1}
  BpTrading = {t1,t2}
  IO_WORKERS = 1
  CPU_WORKERS = 1
  TRADING_WORKERS = 1
  BpRestarts = 1
  AuNone = AuNone
  AuJob = {j1}
  AuSpeakers = {1,2}
  AuEdits = 1
  AuRetries = 1
  AuRestarts = 1
  MnTranscripts <- MnTalks
  MnNouns = {"n1","v"}
  MnVague = {"v"}
  MnExact = {"d"}
  SUMMARY_CHUNK_CHARS = 2
  CONTEXT_BEFORE = 0
  CONTEXT_AFTER = 1
  REFINE_CONTEXT_BEFORE = 1
  REFINE_CONTEXT_AFTER = 0
  CUE_REPLY_UTTS = 2
  MnItems = 1
  MnTopics = 3
  MnClaims = {0,10,30,90}
  SmItems <- SmLists3
  SmLimit <- SmAtMost
  SmStarts <- SmBegin
  SmSpellings <- SmTermOrder
  SmInside <- SmWithin
  SmAcronyms = {"API"}
  SmTalks <- SmConversations
  KW_FREQ_QUOTA = 1
  KW_LLM_QUOTA = 2
  KW_MIN = 2
  SmGiven = 2
  CdNothing = CdNothing
  CdCases <- CdSomeCases
  CdFees = 9
  STOP_LOSS_RATE = 60
  ARMED_GIVEBACK_STOP = 60
  TRAIL_ACTIVATE_RATE = 70
  CdTop = 3
  CdCeiling = 1000
  DcThread = {t1,t2}
  DASH_CACHE_TTL = 1
  DcOrders = 1
  DcFaults = 1
  p1 = p1
  p2 = p2
  FlPage = {p1,p2}
  FlPanel = {1,2}
  FlPresses = 3
  FlFaults = 1
  CrFiles = 1
  CrParts = 2
  CrReplies <- CrAnswers
  CrRuns = 2
  CrFaults = 1
INVARIANTS TimetableRight AudioRight MinutesRight CallsRight
PROPERTIES ScriptsRight DashRight StocksShown
