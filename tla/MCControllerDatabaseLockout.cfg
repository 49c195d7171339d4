SPECIFICATION Spec
CONSTANTS
    NumDB = 2
    MaxVersion = 3
    MaxRestores = 2
    MaxFaults = 2
INVARIANTS
    JournalRecoverable
