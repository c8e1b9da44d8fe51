CONSTANTS
    Conns = {c1, c2}
    Threads = {t1, t2}
    Talkers = {}
    Leavers = {c1}
    Actions = {"chat"}
    MaxChats = 0
    MaxBad = 0
SPECIFICATION FairSpec
PROPERTIES NewcomerWelcomed
CHECK_DEADLOCK FALSE
