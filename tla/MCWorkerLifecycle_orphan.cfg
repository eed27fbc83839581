SPECIFICATION FairSpec
CONSTANTS
    w1 = w1
    w2 = w2
    f1 = f1
    f2 = f2
    Workers <- TwoForked
    Standalone = {}
    Paths <- TwoPaths
    Path <- OwnPaths
    MaxKills = 0
    MaxTerms = 0
    NoFile = NoFile
PROPERTY WorkerFollowsMaster
CHECK_DEADLOCK FALSE
