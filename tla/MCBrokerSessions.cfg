SPECIFICATION Spec
CHECK_DEADLOCK FALSE
CONSTANTS
    c1 = c1
    c2 = c2
    g1 = g1
    Conns = {c1, c2}
    Guids = {g1}
    GuidOf <- OneWorker
    Groups = {ga}
    NoGroup = NoGroup
    Proxies = {p1, p2}
    Ids = {i1, i2}
    None = None
    SendCap = 1
    ProxyCap = 1
    MaxEdits = 0
    Events = {"drop"}
SYMMETRY FullSymmetry
CONSTRAINT Small
INVARIANTS
    Isolation
    SweptSessions
    EndIsAnnounced
