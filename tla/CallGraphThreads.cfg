SPECIFICATION Spec
CONSTANTS
  K = 2
  CallSites <- Sites
  NoSite = "null"
  Functions <- AllFunctions
  Defined = {"main", "f", "g"}
  HeapAllocs = {"malloc"}
  Intrinsics = {"intrinsic"}
  PthreadCreate = "pthread_create"
  StartFunctions <- Starts
  Entry = "main"
  NoFunction = "none"
  ProgIds <- ExternalIds
  Program <- ExternalPrograms
INVARIANTS
  CalleeIsInitialised
CHECK_DEADLOCK FALSE
