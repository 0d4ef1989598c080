SPECIFICATION PoolSpec
CONSTANTS
    p = p  q = q  lit = lit  sky = sky  lib = lib
    Files = {lit, sky, lib}
    Buckets = 2
    Programs = {p, q}
    Primaries <- MCPrimaries
    Texts <- MCTexts
    FirstTexts <- MCFirstTexts
    MaxEdits = 2
    MaxForced = 1
INVARIANTS PoolTypeOK WatchesAreRight
PROPERTIES StaleIsReloaded
