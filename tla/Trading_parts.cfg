SPECIFICATION Spec_Trading
CHECK_DEADLOCK FALSE
CONSTANTS
  buy = buy
  exit = exit
  ordered = ordered
  sold = sold
  v0 = v0
  v1 = v1
  Job = {buy, exit}
  Key = {ordered, sold}
  Value = {v0, v1}
  Torn = Torn
  Absent = Absent
  Nobody = Nobody
  Blank = Blank
  Restarts = 1
  a = a
  b = b
  ThCode = {a}
  ThMaxOrders = 2
  ThMaxQty = 2
  ThFaults = 1
  t1 = t1
  t2 = t2
  BcThread = {t1, t2}
  BcNobody = BcNobody
  BcMaxToken = 3
  BcMaxRetries = 1
  i1 = i1
  i2 = i2
  FcCode = {a, b}
  FcInstance = {i1, i2}
  BUY_SLOTS = 2
  MAX_TOTAL_HOLDINGS = 1
  COOLDOWN_DAYS = 2
  FcPercent = 90
  FcCash = {6}
  FcPrice = {1, 2}
  FcDays = 2
  FcFaults = 1
  QtThread = {t1, t2}
  QtNobody = QtNobody
  QtTtl = 2
  QtSleep = 1
  QtEnd = 3
  TsThread = {t1, t2}
  TsProcess = {t1, t2}
  TsNobody = TsNobody
  TsTokens = 3
  TsFaults = 1
  HdFirst = 2026
  HdLast = 2029
  HdBlank = FALSE
  AbQuery = {t1, t2}
  AbAmount = {1}
  AbTop = 3
  AbMoves = 1
  AbDays = 2
  RpWeekday <- RpWeekdays
  RpMonthday <- RpMonthdays
  RpPrices = {800, 1600}
  RP_BUY = 1
  RP_SELL = 2
  RpLimit = 2
  RpNone = RpNone
  RpOrders = 4
  RpShares = 2
  ScCode = {a}
  ScClose = {2505, 6010}
  ScDepths = {2, 4}
  VALID_DAYS = 1
  ORDER_LEDGER_TTL = 1
  ScBack = 2
  ScDays = 3
  ScReruns = 1
  EsDays = 6
  EsHold = 4
  EsAtr = 5
  CLUSTER_GAP = 2
  Short = 2
  Long = 3
  Box = 2
  MIN_CLOSE = 150
  TRADING_VALUE = 190
  REL_LO = 0
  REL_HI = 120
  Look = 4
  Base = 2
  SgHold = 2
  SgSplit = 12
  SgWeek = 3
  PfCapital = 100
  PfRatio = 7
  PfSlots = 2
  PfCaps = {0,2}
  PfUnit = 40
  PfDays = 4
  c1 = c1
  ItCode = {c1}
  ItDays = 2
  ItIds = 2
  PkNone = PkNone
  PRESCREEN_N = 2
  MAX_N = 1
  PkDays = 2
  PkCycles = 2
  PkDeaths = 1
  TsHome <- Homes
  EsBar <- EsBars
  SgPeers <- SgRecords
  PfRows <- PfLists
  ItTargets = {"low_v1","interest"}
  ItGiven = {"interest_v2"}
  PkLists <- PkRowsets
  PkAnswers <- PkReplies
INVARIANTS PartsTypeOK ReportsRight BrokerRight ScreenRight SignalsRight
PROPERTIES FileIsWhole FireRules
