SPECIFICATION Spec
CONSTANTS
    Calls = {a, b, c}
    Users = {alice}
    Passwords = {x, y}
    None = None
    MaxReloads = 2
    authCacheMaxEntries = 1
    authPBKDF2Concurrency = 1
SYMMETRY CallSymmetry
INVARIANTS
    AnswerCurrent
    SingleFlight
    CountAccurate
