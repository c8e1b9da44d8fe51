CONSTANTS
    Workers = {w1, w2}
    Modes <- Unawaited
    MsgsPerConn = 1
    StartedCap = 1
    TestCap = 1
SPECIFICATION FairSpec
PROPERTIES EndsInTime
CHECK_DEADLOCK FALSE
