SPECIFICATION MCSpec
CONSTANTS
    r1 = r1
    r2 = r2
    r3 = r3
    Requests <- ThreeRequests
    Fds = {f1, f2}
    Callbacks = {c1, c2}
    Codes = {ok, failed}
    Ok = ok
    Dropped = Dropped
    None = None
SYMMETRY Alike
INVARIANT NoOrphanContext
INVARIANT SpansOwn
INVARIANT ReportsOwnStatus
INVARIANT ServedByLatest
PROPERTY ReportedOnce
PROPERTY ImplementsTracing
CHECK_DEADLOCK FALSE
