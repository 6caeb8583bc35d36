SPECIFICATION FairSpec
CONSTANTS
    c1 = c1
    c2 = c2
    g1 = g1
    Conns = {c1}
    Guids = {g1}
    GuidOf <- OneWorker
    Groups = {ga}
    NoGroup = NoGroup
    Proxies = {p1}
    Ids = {i1}
    None = None
    SendCap = 1
    ProxyCap = 1
    MaxEdits = 0
    Events = {"stop", "drop"}
PROPERTY
    ShutdownCompletes
