SPECIFICATION Spec
CONSTANTS
    p1 = p1
    p2 = p2
    Procs <- TwoProcs
    HeartBeat = HeartBeat
    Capacity = 1
    SockCap = 3
    MaxItems = 2
    MaxBeats = 1
    MaxStarts = 2
    Undecodable <- Garbled
    NoItem = NoItem
INVARIANT TypeOK
INVARIANT FramesAligned
INVARIANT NoSilentLoss
PROPERTY ImplementsLossy
