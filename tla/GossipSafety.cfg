SPECIFICATION Spec
CONSTANTS
  Local = local
  NoSock = nosock
  NoItem = noitem
  NoRow = norow
  a = a
  b = b
  c = c
  t1 = t1
  t2 = t2
  d1 = d1
  d2 = d2
  Hubs = {a, b}
  Dials <- OneDial
  Msgs = {t1, t2}
  Dms = {}
  Targeted = {t2}
  Enveloped = {t1, t2}
  Origins <- OriginsSplit
  SignedAt <- SignedApart
  RequireDataB64 = TRUE
  MaxBatch = 2
  MaxPages = 2
  MaxAge = 1
  DenyTicks = 1
  DayTicks = 5
  HaveWindow = 1
  MsTicks = 1
  WalkFrom = {0}
  Timers = {}
  Punctual = FALSE
  MaxClock = 2
  MaxDrops = 1
  MaxErrors = 0
  MaxWalks = 0
CHECK_DEADLOCK FALSE
INVARIANTS
  MapHoldsOpenSockets
  OffersBacked
  ProvenanceOrdered
  SyncMarkEarned
  QuietPairExchanged
PROPERTIES
  RowsAreFinal
  ImplementsReplicas
