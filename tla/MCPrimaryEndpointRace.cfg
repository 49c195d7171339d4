SPECIFICATION Spec
CONSTANTS
    main = main
    dev = dev
    t1 = t1
    t2 = t2
    r1 = r1
    Branches = {main, dev}
    Main = main
    Timelines = {t1, t2}
    None = None
    Readers = {r1}
    MaxGen = 1
    MaxFaults = 0
    Unadopted = TRUE
SYMMETRY Symmetry
INVARIANTS
    SelectionPersisted
