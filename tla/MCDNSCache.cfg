SPECIFICATION DnsSpec
CONSTANTS
    Clients = {a, b, c}
    DnsHosts = {x, y}
    Answers = {ips}
    Nil = Nil
    maxEntries = 1
    MaxQueries = 2
SYMMETRY ClientSymmetry
CHECK_DEADLOCK FALSE
INVARIANTS
    AnswerNotStale
