SPECIFICATION FairSpec
CONSTANTS
  PtrNodes <- Ptrs
  ObjNodes <- MixedObjs
  GepNodes <- FieldGeps
  IndexObject <- MixedIndex
  NoObj = NoObj
  ProgIds <- MixedIds
  Program <- MixedPrograms
  Reference <- MixedReference
INVARIANTS
  WithinReference
  WaveSettles
  AccessesExpanded
  CallsAreNotForgotten
PROPERTIES
  Terminates
CHECK_DEADLOCK FALSE
