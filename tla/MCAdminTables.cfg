SPECIFICATION Spec
CONSTANTS
    a = a
    NoGroup = NoGroup
    Absent = Absent
    All = All
    None = None
    Pending = Pending
    Failed = Failed
    NotFound = NotFound
    Tables <- MCTables
    Keys <- MCKeys
    Super <- MCSuper
    Hits <- MCHits
    Sizes <- MCSizes
    Groups <- MCGroups
    Start <- MCStart
    Batches <- MCBatches
    Budgets <- MCBudgets
    MaxFlight = 2
CHECK_DEADLOCK FALSE
INVARIANTS SettledView PageCorrected NothingLeftBusy SelectedExist
PROPERTIES FailedStaySelected
