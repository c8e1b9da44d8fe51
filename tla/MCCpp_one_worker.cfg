CONSTANTS
    Conns = {c1, c2, c3}
    Threads = {t1}
    Talkers = {c1}
    Leavers = {c2}
    Actions = {"chat", "error"}
    MaxChats = 1
    MaxBad = 0
SPECIFICATION FairSpec
INVARIANTS Agreement
PROPERTIES Reclaimed
CHECK_DEADLOCK FALSE
