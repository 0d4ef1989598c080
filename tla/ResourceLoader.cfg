SPECIFICATION FairSpec
CONSTANTS
  mesh = mesh
  material = material
  Tasks = {t1, t2}
  Jobs = {j1, j2}
  UUIDs = {mesh, material}
  Incremental = {mesh}
  FinalEpoch = 2
INVARIANTS
  TypeOK
  WaitersHeldOnce
  LoadedOnce
  AssertionsHold
PROPERTIES
  ImplementsCache
  EveryRequestAnswered
