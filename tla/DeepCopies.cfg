SPECIFICATION FairSpec
CONSTANTS
  PtrNodes <- Ptrs
  ObjNodes <- MixedObjs
  GepNodes <- FieldGeps
  IndexObject <- MixedIndex
  NoObj = NoObj
  ProgIds <- MixedIds
  Program <- MixedPrograms
  Reference <- MixedReference
INVARIANTS
  CopiesAreSatisfied
CHECK_DEADLOCK FALSE
