SPECIFICATION Spec
CONSTANTS
  Tids = {"ann", "bob"}
  Pdas = {"k"}
  Names = {"n"}
  Amounts = {1}
  Suites <- Alone
  Reachable = {FALSE}
  Outcomes = {TRUE}
  SubscribesFirst = TRUE
  Limit = 3
  BatchSize = 2
  MaxTx = 3
  MaxPerTx = 1
  MaxDials = 2
  MaxCrashes = 1
  MaxErrors = 1
CHECK_DEADLOCK FALSE
INVARIANTS
  ReplayExact
PROPERTIES
  TasksFollowChain
