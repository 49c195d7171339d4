SPECIFICATION FairSpec
CONSTANTS
    c1 = c1
    c2 = c2
    Callers <- MCCallers
    MaxEntries = 2
    MaxID = 5
INVARIANTS
    TypeOK
    AdmissionExact
    LogFaithful
PROPERTIES
    RowsFinal
    ImplementsLog
    LockReleased
