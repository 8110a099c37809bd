SPECIFICATION Spec
CONSTANTS
  Local = local
  NoSock = nosock
  NoItem = noitem
  NoRow = norow
  a = a
  b = b
  c = c
  t1 = t1
  t2 = t2
  d1 = d1
  d2 = d2
  Hubs = {a, b}
  Dials <- OneDial
  Msgs = {d1, d2}
  Dms = {d1, d2}
  Targeted = {}
  Enveloped = {d1, d2}
  Origins <- OriginsA
  SignedAt <- SignedAtOnce
  RequireDataB64 = TRUE
  MaxBatch = 1
  MaxPages = 2
  MaxAge = 9
  DenyTicks = 1
  DayTicks = 5
  HaveWindow = 1
  MsTicks = 2
  WalkFrom = {0}
  Timers = {}
  Punctual = TRUE
  MaxClock = 2
  MaxDrops = 0
  MaxErrors = 1
  MaxWalks = 1
CHECK_DEADLOCK FALSE
INVARIANTS
  TypeOK
  RequiredEnvelopes
  WalkGapWithinOneMs
