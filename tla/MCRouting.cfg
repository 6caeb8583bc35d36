SPECIFICATION FairSpec
CONSTANTS
    id1 = id1
    id2 = id2
    ga = ga
    gb = gb
    exact = exact
    outer = outer
    inner = inner
    GroupIds = {id1, id2}
    Groups = {ga, gb}
    RouteDirect = direct
    None = None
    DomainKeys = {exact, outer, inner}
    PatternOf <- MCPatternOf
    CidrKeys <- MCCidrKeys
    Mapped <- MCMapped
    Hosts <- MCHosts
    AddrOf <- MCAddrOf
    Resolutions <- MCResolutions
    Batches <- MCBatches
    Admins = {a1, a2}
    Start <- MCStart
    MaxEdits = 2
INVARIANTS
    LongestMatch
    RoutesNameGroups
PROPERTY
    RoutesFollowRedis
