SPECIFICATION DmSpec
CONSTANTS
  a = a
  b = b
  grp = grp
  c1 = c1
  c2 = c2
  m1 = m1
  m2 = m2
  add3 = add3
  rem2 = rem2
  lv2 = lv2
  lv1 = lv1
  bad3 = bad3
  del = del
  d1 = d1
  d2 = d2
  d3 = d3
  d4 = d4
  r1 = r1
  r2 = r2
  k1 = k1
  k2 = k2
  Hubs = {a, b}
  Tids = {1, 2, 3}
  Groups = {grp}
  Creates = {c1, c2}
  Texts = {m1, m2}
  Ops = {add3, rem2, lv2, lv1, bad3, del}
  GroupOf <- OneGroup
  SignerOf <- Signers
  Named <- Lists
  KindOf <- OpKinds
  Form <- Forms
  Homes <- Relays
  Scenarios <- Stories
  Strict = {b}
  Mails = {d1, d2, d3, d4}
  Reads = {r1, r2}
  Regs = {k1, k2}
  AuthorOf <- Authors
  RecipientOf <- Recipients
  ReadIn <- InPair
  SentAt <- Seconds
  DmHomes <- DmRelays
  DmStories <- DmTales
  NoKey = nokey
  NoGroup = nogroup
  NoItem = noitem
INVARIANTS
  MembersVouched
  CiphersWhole
  
  DmTypeOK
  RelayInboxExact
  ReceiptIsNewest
  PagesMissOnlyTies
PROPERTIES
  RemovalsByRight
CHECK_DEADLOCK FALSE
