SPECIFICATION FairSpec
CONSTANTS
  Tids = {"ann"}
  Pdas = {"k"}
  Names = {"n"}
  Amounts = {1}
  Suites <- Polls
  Reachable = {TRUE}
  Outcomes = {TRUE, FALSE}
  SubscribesFirst = TRUE
  Limit = 2
  BatchSize = 1
  MaxTx = 2
  MaxPerTx = 2
  MaxDials = 2
  MaxCrashes = 1
  MaxErrors = 1
CHECK_DEADLOCK FALSE
INVARIANTS
  TypeOK
  
  OnceTablesExact

  
  
