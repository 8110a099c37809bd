SPECIFICATION FairSpec
CONSTANTS
  Local = local
  NoSock = nosock
  NoItem = noitem
  NoRow = norow
  a = a
  b = b
  c = c
  t1 = t1
  t2 = t2
  d1 = d1
  d2 = d2
  Hubs = {a, b}
  Dials <- OneDial
  Msgs = {t1}
  Dms = {}
  Targeted = {}
  Enveloped = {}
  Origins <- OriginsA
  SignedAt <- SignedAtOnce
  RequireDataB64 = FALSE
  MaxBatch = 1
  MaxPages = 2
  MaxAge = 9
  DenyTicks = 1
  DayTicks = 5
  HaveWindow = 2
  MsTicks = 1
  WalkFrom = {0}
  Timers = {a, b}
  Punctual = TRUE
  MaxClock = 3
  MaxDrops = 0
  MaxErrors = 1
  MaxWalks = 0
CHECK_DEADLOCK FALSE
PROPERTIES
  
  HandshakeSettles
