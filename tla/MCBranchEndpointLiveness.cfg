SPECIFICATION FairSpec
CONSTANTS
    c1 = c1
    c2 = c2
    i1 = i1
    i2 = i2
    Conns = {c1, c2}
    Timers = {i1}
    MaxActive = 2
    MaxTimeline = 1
    MaxBox = 1
    MaxFaults = 0
    None = None
PROPERTIES
    ConnectionSettles
    OperationReturns
