SPECIFICATION Spec
CONSTANTS
    brick = brick  house = house
    Requests = {1, 2, 3}
    Holders = {e}
    Textures = {brick}
    Models = {house}
    TexturesOf <- MCTexturesOf
    MaxThrows = 1
INVARIANTS TypeOK FramesOutliveTheirRuns CacheSound
PROPERTIES EveryLoadEnds ImplementsStore
