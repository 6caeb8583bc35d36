SPECIFICATION FairSpec
CHECK_DEADLOCK FALSE
CONSTANTS
    Clients = {h1, h2}
    Talkers = {}
    None = None
    MaxLinks = 1
    WriteCap = 1
    DataCap = 1
PROPERTIES
    WaitersWake
    FailureReachesClients
