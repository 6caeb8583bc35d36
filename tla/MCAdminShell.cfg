SPECIFICATION Spec
CONSTANTS
    Tabs = {t1, t2}
    Accounts = {u1, u2}
    None = None
    MaxClicks = 4
SYMMETRY Symmetry
CHECK_DEADLOCK FALSE
INVARIANTS PairCoherent Guarded InStep SavedOwn
PROPERTIES OneSession
