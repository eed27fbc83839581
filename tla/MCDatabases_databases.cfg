SPECIFICATION MCSpec
CONSTANTS
    o1 = o1
    o2 = o2
    o3 = o3
    d1 = d1
    d2 = d2
    Handles <- ThreeHandles
    Dsns <- TwoDsns
    None = None
    MaxObjects = 4
    h1 = h1
    k1 = k1
    k2 = k2
    m1 = m1
    m2 = m2
    Nothing = Nothing
    User = User
    Localhost = Localhost
    Socket = Socket
    Hosts <- MCHosts
    Ports <- MCPorts
    DefaultPort = 3306
    UnknownPeer <- MCUnknownPeer
    Links = {l1}
    Pools = {p1}
    Keys = {k1, k2}
    Home <- MCHome
    Managers = {g1}
    Messages <- TwoMessages
    Tables = {t1}
    MaxSpans = 3
SYMMETRY Alike
INVARIANT SpanNamesOwn
INVARIANT EntriesGoWithObjects
INVARIANT DestructionEnds
INVARIANT PeerIsServer
INVARIANT HeaderOfOwnSpan
CHECK_DEADLOCK FALSE
