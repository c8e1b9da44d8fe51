CONSTANTS
    Conns = {c1, c2}
    Readers = {c1, c2}
    Fallible = {c2}
    Talkers = {c1}
    Leavers = {c2}
    MaxChats = 1
    Cap = 1
    SockCap = 1
    Blanks = {FALSE}
SPECIFICATION FairSpec
INVARIANTS TypeOK NoSendOnClosed OwnConnectFirst SessionOpens
PROPERTIES Quiesces EchoArrives
CHECK_DEADLOCK FALSE
