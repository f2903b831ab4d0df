SPECIFICATION FairSpec
CONSTANTS
  PtrNodes <- Ptrs
  ObjNodes <- Objs
  GepNodes <- FieldGeps
  IndexObject <- FieldIndex
  NoObj = NoObj
  ProgIds <- FieldIds
  Program <- FieldPrograms
  Reference <- FieldReference
INVARIANTS
  TypeOK
  FixedPoint
  UnsentIsRecorded
  AllHandled
PROPERTIES
  ImplementsAnalysis
CHECK_DEADLOCK FALSE
