SPECIFICATION FairSpec
CONSTANTS
    p1 = p1
    p2 = p2
    Procs <- TwoProcs
    HeartBeat = HeartBeat
    Capacity = 1
    SockCap = 1
    MaxItems = 2
    MaxBeats = 0
    MaxStarts = 1
    Undecodable = {}
    NoItem = NoItem
PROPERTY ReportReturns
PROPERTY Settles
