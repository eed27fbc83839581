CONSTANTS
    c1 = c1
    c2 = c2
    h1 = h1
    h2 = h2
    s1 = s1
    s2 = s2
    Coroutines <- TwoCoroutines
    Handles <- TwoHandles
    Servers <- TwoServers
    None = None

SPECIFICATION Spec

PROPERTY CallsReturn

\* A coroutine that waits for a lock ends everything.
CHECK_DEADLOCK FALSE
