CONSTANTS
    Conns = {c1, c2}
    Threads = {t1, t2}
    Talkers = {c1}
    Leavers = {c1, c2}
    Actions = {"chat"}
    MaxChats = 1
    MaxBad = 1
SPECIFICATION Spec
SYMMETRY Symmetry
INVARIANTS TypeOK NoDangling OwnConnectFirst SessionOrder OneWrite
CHECK_DEADLOCK FALSE
