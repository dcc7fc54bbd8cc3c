SPECIFICATION Spec_Pages
CHECK_DEADLOCK FALSE
CONSTANTS
  j1 = j1
  j2 = j2
  t1 = t1
  t2 = t2
  ApNone = ApNone
  ApJob = {j1,j2}
  ApRuns = 1
  ApCalls = 2
  ApLost = TRUE
  ChStored = 4
  MAX_FETCH_MESSAGE_SIZE = 2
  AROUND = 1
  LOAD = 1
  MAX_ROWS = 3
  ChHits = {1}
  ChMessages = 5
  ChCalls = 2
  u1 = u1
  CsUser = {u1}
  CsThread = {t1}
  CsMessages = 1
  CsFaults = 1
  p1 = p1
  p2 = p2
  VcPeer = {p1,p2}
  MAX_NEGOTIATION_RETRY = 1
  VcOffers = 2
  VcFaults = 1
  PlNone = PlNone
  a = a
  b = b
  PlVideo = {a,b}
  PlVertical = {b}
  PlPresses = 3
  CuNone = CuNone
  i1 = i1
  CuPicture = {a}
  CuFound = {i1}
  CuClock = 2
  CuChanges = 1
  CuScreens = 1
  IvNone = IvNone
  IvPicture = {1,2,3}
  IvVideo = {2}
  IvPresses = 3
  IvSlides = 4
  w1 = w1
  ThActor = {w1}
  ThNone = ThNone
  ThPictures = 2
  ThRuns = 2
  ThDeaths = 1
  BdPerPage = 2
  MAX_PAGES = 2
  BdPrefix <- BdPrefixes
  BdPosts = 4
  BdFaults = 1
  BdDays = 2
  v = v
  u = u
  m = m
  q1 = q1
  q2 = q2
  OdVideo = {v,u}
  OdMotion = {m}
  OdUploaded = {u}
  OdRequest = {q1,q2}
  OdNone = OdNone
  OdSeats = 1
  OdChanges = 1
  OdDeaths = 1
  LkVideo = {"v1","v2"}
  LkFirst <- LkFolders
  LkOldLikes = {"v1"}
  LkNone = LkNone
  LkCalls = 3
  LkDeaths = 1
  LsThread = {t1,t2}
  LsFirst = 2
  LsMax = 3
  LsRequests = 3
  LsLimit = 1
  ALREADY_COLLECTED_COUNT = 1
  ScPosts = 5
  ScFaults = 2
  GlNone = GlNone
  GlPicture = {a,b}
  GlCrops = 3
INVARIANTS KeepsLooking ChatRight TryingComesToAnEnd WhatPlaysIsCurrent PicturesRight GalleriesRight BoardsRight CollectedRight
