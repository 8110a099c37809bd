SPECIFICATION Spec
CONSTANTS
  Tids = {"ann"}
  Pdas = {"k"}
  Names = {"n"}
  Amounts = {1}
  Suites <- Tasks
  Reachable = {TRUE}
  Outcomes = {TRUE}
  SubscribesFirst = TRUE
  Limit = 3
  BatchSize = 2
  MaxTx = 3
  MaxPerTx = 1
  MaxDials = 2
  MaxCrashes = 1
  MaxErrors = 0
CHECK_DEADLOCK FALSE
INVARIANTS
  NothingSkipped
