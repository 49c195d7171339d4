SPECIFICATION Spec
CONSTANTS
    c1 = c1
    c2 = c2
    i1 = i1
    i2 = i2
    Conns = {c1, c2}
    Timers = {i1}
    MaxActive = 2
    MaxTimeline = 2
    MaxBox = 1
    MaxFaults = 1
    None = None
SYMMETRY Symmetry
INVARIANTS
    TypeOK
    SingleWriter
    ListenerListed
    NoLeakedSlots
