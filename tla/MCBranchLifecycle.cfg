SPECIFICATION Spec
CONSTANTS
    main = main
    a = a
    b = b
    Main = main
    Others = {a, b}
    LegacyFiles <- MCLegacyFiles
    MaxTimeline = 3
    MaxOps = 3
    MaxFaults = 2
SYMMETRY Symmetry
INVARIANTS
    TypeOK
    StoreRecoverable
    AttachmentsSound
    PublishedComplete
    LeaksExplained
    AnswersHold
    PrimaryAgrees
CHECK_DEADLOCK FALSE
