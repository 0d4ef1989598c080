SPECIFICATION Spec
CONSTANTS
    u1 = u1  u2 = u2  u3 = u3  u4 = u4  u5 = u5  u6 = u6  u7 = u7  u8 = u8  u9 = u9
    mesh = mesh  skin = skin  scene = scene
    h1 = h1  h2 = h2
    Uuids = {u1, u2, u3, u4, u5, u6, u7, u8, u9}
    Nil = Nil
    Hints = {h1, h2}
    Assets = {mesh, skin, scene}
    Uses <- MCUses
    HintOf <- MCHintOf
    VersionLimit = 3
    Main = Main  Client = Client  Loader = Loader  NoOne = NoOne  NoFile = NoFile
    Found <- MCFound
    MaxRows = 6
    MaxFaults = 1
    MaxCalls = 1
INVARIANTS TypeOK MemoryMirrorsRows RecordsCanBeRead
PROPERTIES ImplementsCatalog RemovalsHappen ContentsKept
