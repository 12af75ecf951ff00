\* A task of a scope is joined by its handle before the scope ends.
SPECIFICATION FairSpec
CONSTANTS
  NumWorkers = 2
  MaxTasks = 2
  MaxDepth = 1
  MaxScopes = 1
  Programs <- MCJoiners
CHECK_DEADLOCK FALSE
PROPERTY JoinAllEnds
