SPECIFICATION FairSpec
CONSTANTS
    NumDB = 2
    MaxVersion = 3
    MaxRestores = 2
    MaxFaults = 3
INVARIANTS
    TypeOK
    RestoreAtomic
PROPERTIES
    ImplementsAtomic
    JournalResolved
