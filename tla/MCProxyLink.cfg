SPECIFICATION Spec
CHECK_DEADLOCK FALSE
CONSTANTS
    Clients = {h1, h2}
    Talkers = {h1}
    None = None
    MaxLinks = 2
    WriteCap = 1
    DataCap = 1
INVARIANTS
    OneLink
    SessionsSwept
    HangupIsSent
