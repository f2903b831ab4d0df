SPECIFICATION Spec
CONSTANTS
  SizeMax <- WordMax
  Type <- SampleTypes
  Allocated <- AllocatedTypes
INVARIANTS
  TypeOK
  FieldIsFound
  ObjectIsField
  OneObjectPerField
  PointersAreMarked
  InitialisersAreFound
