SPECIFICATION FairSpec
CONSTANTS
  PtrNodes <- Ptrs
  ObjNodes <- Objs
  GepNodes <- FieldGeps
  IndexObject <- FieldIndex
  NoObj = NoObj
  ProgIds <- FieldIds
  Program <- FieldPrograms
  Reference <- FieldReference
INVARIANTS
  Inv
  GepsStayAlone
PROPERTIES
  ImplementsAnalysis
CHECK_DEADLOCK FALSE
