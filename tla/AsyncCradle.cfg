SPECIFICATION FairSpec
CONSTANTS
  unpack = unpack
  mesh = mesh
  light = light
  port = port
  image = image
  Jobs = {unpack, mesh, light, port, image}
  Steps <- StepsOf
  Children <- ChildrenOf
  Guarded = {unpack, mesh, light}
  Viewed = {unpack}
  PoolSize = 2
  QuitsAnytime = FALSE
INVARIANTS
  TypeOK
  TasksAreCovered
  RunsWhereScheduled
PROPERTIES
  NothingStranded
