SPECIFICATION FairSpec
CONSTANTS
  K = 2
  CallSites <- Sites
  NoSite = "null"
  Functions <- AllFunctions
  Defined = {"main", "f", "g"}
  HeapAllocs = {"malloc"}
  Intrinsics = {"intrinsic"}
  PthreadCreate = "pthread_create"
  StartFunctions <- Starts
  Entry = "main"
  NoFunction = "none"
  ProgIds <- CallIds
  Program <- CallPrograms
INVARIANTS
  TypeOK
  AssertionsHold
  LinkedOnce
  CallsAreComplete
PROPERTIES
  ContextsAreCallStrings
  Terminates
CHECK_DEADLOCK FALSE
