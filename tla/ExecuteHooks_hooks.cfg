CONSTANTS
    EnableObserver = TRUE
    ObserverIsGeneral = FALSE
    MaxRequests = 2
    MaxCalls = 4
    MaxDepth = 3

SPECIFICATION Spec

INVARIANTS
    ResultsMatchFrames
    AfterOnceIfBefore
    SpansClosed

PROPERTIES
    SpanWithinRequest
    ImplementsTracing

CHECK_DEADLOCK FALSE
