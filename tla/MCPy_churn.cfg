CONSTANTS
    Conns = {c1, c2, c3}
    Talkers = {c2}
    Leavers = {c2}
    Garblers = {c2, c3}
    MaxChats = 2
SPECIFICATION FairSpec
INVARIANTS TypeOK OwnConnectFirst SessionOrder Delivered NoGhosts
PROPERTIES DeparturesComplete
CHECK_DEADLOCK FALSE
