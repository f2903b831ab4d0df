SPECIFICATION FairSpec
CONSTANTS
  PtrNodes <- Ptrs
  ObjNodes <- Objs
  GepNodes <- LoopGeps
  IndexObject <- LoopIndex
  NoObj = NoObj
  ProgIds <- CallIds
  Program <- CallPrograms
  Reference <- CallReference
INVARIANTS
  FixedPoint
CHECK_DEADLOCK FALSE
