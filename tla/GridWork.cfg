\* Two items for a block of two workers, with three tasks in two scopes that may nest.
SPECIFICATION FairGridSpec
CONSTANTS
  NumWorkers = 2
  MaxTasks = 3
  MaxDepth = 2
  MaxScopes = 2
  MaxItems = 2
  Programs <- MCPrograms
CONSTRAINT JoinedBeforeCoop
INVARIANTS
  GridTypeOK
  CompletedIsWhole
PROPERTIES
  SlotsAreQuietWhenFilled
  JoinAllTells
  ImplementsForkJoin
  ImplementsDispatch
  BothEnd
