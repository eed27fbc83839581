SPECIFICATION Spec
CONSTANTS
    h1 = h1
    h2 = h2
    a1 = a1
    a2 = a2
    Handles <- TwoHandles
    Servers <- TwoServers
    None = None
    MaxObjects = 4
SYMMETRY Alike
INVARIANT CommandsKnowServer
INVARIANT FreeEnds
PROPERTY FreedTakesEntry
CHECK_DEADLOCK FALSE
