SPECIFICATION HubSpec
CONSTANTS
  Tales <- Stories4
  MaxAge = 2
  StoryTtl = 2
  MaxOpen = 2
  LastTick = 4
  Tids = {1, 2}
  Edges <- Follows
  Keys = {"k", "l"}
  Callers = {"c", "d"}
  Ttl = 2
  NegTtl = 1
  MaxCache = 1
  RpcDelay = 1
  HubAt <- Places
  Malformed = {"bad"}
  Self = "me"
  Files = {"photo"}
  Types = {"jpeg", "png"}
INVARIANTS
  
  TaskOutcome
  ProfileIsNewest
  StoriesKept
  RemovedTweetsHidden
  AcceptedShown
  
  
  KeysFresh
  SeedsTended
  MediaServed
PROPERTIES
  VotesInTime
CHECK_DEADLOCK FALSE
