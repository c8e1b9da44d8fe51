\* c1 talks and never reads; c2 connects and reads.
CONSTANTS
    Conns = {c1, c2}
    Readers = {c2}
    Fallible = {}
    Talkers = {c1}
    Leavers = {}
    MaxChats = 2
    Cap = 1
    SockCap = 1
    Blanks = {FALSE}
SPECIFICATION FairSpec
PROPERTIES NewcomerWelcomed
CHECK_DEADLOCK FALSE
