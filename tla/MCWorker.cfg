SPECIFICATION FairSpec
CONSTANTS
    Ids = {i1}
    None = None
    MaxConns = 2
    BrokerWriteQueue = 1
    SessionWriteQueue = 1
    BrokerReconnectInitial = 2
    BrokerReconnectMax = 3
INVARIANTS
    TargetHasOwner
    EndIsReported
PROPERTIES
    RequestAnswered
    GoroutinesEnd
    SignalEnds
