SPECIFICATION Spec
CONSTANTS
    Fd = {5, 6}
    Listen = 3
    BiggestFD = 8
    Stat = {s1, s2}
    NoStat = null
    AcceptTimeout = 3
    EchoTimeout = 2
    StartTime = 5
    MaxTime = 7
    MaxBacklog = 1
SYMMETRY Symmetry
INVARIANTS
    StatOwned
    TablesExact
    Attended
