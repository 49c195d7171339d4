SPECIFICATION FairSpec
CONSTANTS
    w1 = w1
    r1 = r1
    Writes = {w1}
    Reads = {r1}
    Retention = 1
    MaxFaults = 3
INVARIANTS
    TypeOK
    AnswersTrue
    HistoryNewest
    LossReported
PROPERTIES
    ExecutionAnswered
CHECK_DEADLOCK FALSE
