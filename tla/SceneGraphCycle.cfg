SPECIFICATION Spec
CONSTANTS
  Entities = {e1, e2}
  null = null
  MaxNew = 0
  MaxLeft = 0
  MaxJobs = 0
INVARIANT Hierarchical
