SPECIFICATION FairSpec
CONSTANTS
  PtrNodes <- Ptrs
  ObjNodes <- Objs
  GepNodes <- LoopGeps
  IndexObject <- LoopIndex
  NoObj = NoObj
  ProgIds <- PlainIds
  Program <- PlainPrograms
  Reference <- PlainReference
INVARIANTS
  TypeOK
  WithinReference
  EdgesAreLive
  SentIsReceived
  EdgeCacheIsBacked
  CallsAreNotForgotten
PROPERTIES
  Terminates
  ImplementsAnalysis
CHECK_DEADLOCK FALSE
