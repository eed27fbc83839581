CONSTANTS
    h1 = h1
    h2 = h2
    Handles <- TwoHandles
    x = x
    y = y
    Headers <- TwoArrays
    None = None
    MaxRequests = 2

SPECIFICATION Spec

SYMMETRY Alike

INVARIANTS
    FirstTransferHasHeaders
    OneTraceHeader
    MultiSpansKept
