CONSTANTS
    Conns = {c1, c2}
    Talkers = {c1}
    MaxChats = 2
    MaxBad = 1
SPECIFICATION FairSpec
INVARIANTS TypeOK RoomPromises MailboxSessions NoGhosts SessionOrder
PROPERTIES RoomSpec EchoArrives DeparturesComplete
CHECK_DEADLOCK FALSE
