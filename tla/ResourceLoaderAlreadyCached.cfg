SPECIFICATION Spec
CONSTANTS
  mesh = mesh
  material = material
  Tasks = {t1, t2}
  Jobs = {j1, j2}
  UUIDs = {mesh}
  Incremental = {mesh}
  FinalEpoch = 2
INVARIANT NeverAlreadyCached
