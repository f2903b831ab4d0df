SPECIFICATION FairSpec
CONSTANTS
  PtrNodes <- FourNodes
  ObjNodes <- Nothing
  GepNodes <- Nothing
  IndexObject <- NoFunction
  NoObj = NoObj
  ProgIds <- Nothing
  Program <- NoFunction
  Reference <- NoFunction
  Graphs <- CopyGraphs
  WorkLists <- ListsOf
INVARIANTS
  TypeOK
  StackIsOpen
PROPERTIES
  ImplementsEnumeration
  DeliversAll
CHECK_DEADLOCK FALSE
