SPECIFICATION Spec
CONSTANTS
  Entities = {e1, e2, e3, e4}
  null = null
  MaxNew = 2
  MaxLeft = 2
  MaxJobs = 1
SYMMETRY Symmetry
INVARIANTS
  TypeOK
  LinksWhole
  AttachedAreRoots
PROPERTY ImplementsTree
\* In a cycle no entity is displayed, and nothing happens after a fault.
CHECK_DEADLOCK FALSE
