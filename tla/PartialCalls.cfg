SPECIFICATION FairSpec
CONSTANTS
  PtrNodes <- Ptrs
  ObjNodes <- Objs
  GepNodes <- LoopGeps
  IndexObject <- LoopIndex
  NoObj = NoObj
  ProgIds <- CallIds
  Program <- CallPrograms
  Reference <- CallReference
INVARIANTS
  WithinReference
  CallsAreNotForgotten
PROPERTIES
  Terminates
CHECK_DEADLOCK FALSE
