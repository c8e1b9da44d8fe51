CONSTANTS
    Width = 2
    PortWidth = 2
    Peers = {p1, p2}
    Talkers = {p1}
    Args <- MCArgs
    Asks <- MCAsks
    Texts <- MCTexts
    MaxRequests = 2
    MaxTexts = 2
SPECIFICATION FairSpec
INVARIANTS TypeOK Answers Relays
PROPERTIES Settles
CHECK_DEADLOCK FALSE
