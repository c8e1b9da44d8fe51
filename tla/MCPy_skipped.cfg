CONSTANTS
    Conns = {c1, c2}
    Talkers = {c1}
    Leavers = {c2}
    Garblers = {}
    MaxChats = 1
SPECIFICATION Spec
INVARIANTS SeenByAll
CHECK_DEADLOCK FALSE
