CONSTANTS
    Workers = {w1, w2}
    Modes <- OtherModes
    MsgsPerConn = 2
    StartedCap = 1
    TestCap = 1
SPECIFICATION FairSpec
INVARIANTS TypeOK Owned StartTogether CompleteReports
PROPERTIES Terminates
CHECK_DEADLOCK FALSE
