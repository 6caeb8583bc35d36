SPECIFICATION Spec
CONSTANTS
    c1 = c1
    c2 = c2
    g1 = g1
    Conns = {c1, c2}
    Guids = {g1}
    GuidOf <- OneWorker
    Groups = {ga}
    NoGroup = NoGroup
    Proxies = {}
    Ids = {}
    None = None
    SendCap = 1
    ProxyCap = 1
    MaxEdits = 1
    Events = {"stop", "sync", "dbfail", "crash", "drop"}
SYMMETRY ConnSymmetry
INVARIANTS
    ActiveNotRemoved
    OnlineAccounted
    ActiveIsRoutable
    UpIsRegistered
    ActiveIsOnline
    ListedOnce
