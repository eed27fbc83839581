CONSTANTS
    c1 = c1
    c2 = c2
    h1 = h1
    h2 = h2
    s1 = s1
    s2 = s2
    k1 = k1
    k2 = k2
    Coroutines <- TwoCoroutines
    Handles <- TwoHandles
    Servers <- TwoServers
    None = None
    Classes <- TwoClasses
    AbstractLogger = AbstractLogger
    Top = 2

SPECIFICATION MCSpec

SYMMETRY Alike

INVARIANTS
    AskedOnce
    ServersNamed
    NoneBelow
    LoggersReported

\* A coroutine that waits for a lock ends everything.
CHECK_DEADLOCK FALSE
