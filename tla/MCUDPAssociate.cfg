SPECIFICATION FairSpec
CHECK_DEADLOCK FALSE
CONSTANTS
    d1 = d1
    d2 = d2
    b1 = b1
    DirectKeys = {d1, d2}
    BrokerKeys = {b1}
    Plans <- MCPlans
    Sources = {here, there}
    None = None
    MaxSessions = 2
INVARIANTS
    OpenIsListed
PROPERTIES
    DeadIsForgotten
    AssociationEnds
