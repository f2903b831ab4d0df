SPECIFICATION Spec
CONSTANTS
  SizeMax <- WordMax
  Type <- SampleTypes
  Allocated = {12}
INVARIANTS
  FieldIsFound
