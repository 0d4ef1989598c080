SPECIFICATION Spec
CONSTANTS
  a = a
  b = b
  c = c
  NoJoint = NoJoint
  Joints <- SomeJoints
  Skeletons <- SomeSkeletons
  MaxInserts = 5
CHECK_DEADLOCK FALSE
INVARIANTS
  TypeOK
  RangesAccounted
  GrowthSuffices
PROPERTY ImplementsTable
