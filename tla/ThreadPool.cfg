SPECIFICATION FairSpec
CONSTANTS
  NoTask = NoTask
  t1 = t1
  t2 = t2
  t3 = t3
  N = 3
  Tasks = {t1, t2, t3}
  Roots = {t1}
INVARIANTS
  TypeOK
  NoTaskLeftBehind
PROPERTIES
  ImplementsExecutor
  EveryWaitEnds
