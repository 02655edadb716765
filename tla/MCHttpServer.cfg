SPECIFICATION FairSpec
CONSTANTS
    Fd = {f1, f2}
    Listen = listen
    Stat = {s1, s2}
    Name = {n1}
    Blank = blank
    Shared = TRUE
    MaxBacklog = 1
INVARIANTS
    StatOwned
    PagesMatch
PROPERTIES
    Served
