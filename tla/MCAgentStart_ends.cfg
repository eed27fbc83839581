SPECIFICATION FairStartSpec
CONSTANTS
    w1 = w1
    w2 = w2
    w3 = w3
    w4 = w4
    f1 = f1
    f2 = f2
    f3 = f3
    Workers <- AllWorkers
    Standalone <- TwoStandalone
    Paths <- AllPaths
    Path <- Paths4
    Configured = f3
    NoPath = NoPath
    NoWorker = NoWorker
    MaxKills = 2
    MaxTerms = 2
    NoFile = NoFile
INVARIANT NoSocketLeft
INVARIANT OwnWorker
PROPERTY SignalEndsWorker
PROPERTY StandaloneHeals
PROPERTY ReporterMeetsWorker
CHECK_DEADLOCK FALSE
