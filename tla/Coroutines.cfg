SPECIFICATION FairSpec
CONSTANTS
    shared = shared  v = v  w = w
    N = 2
    MaxJobs = 2
    Shared = {shared}
    Viewers = {v, w}
    Parent = Parent
INVARIANTS TypeOK MemoryIsSafe
PROPERTIES ImplementsJoin EveryWaiterGoesOn
\* It ends when all jobs have ended and are let go of.
CHECK_DEADLOCK FALSE
