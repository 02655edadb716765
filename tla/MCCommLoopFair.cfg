SPECIFICATION FairSpec
CONSTANTS
    Fd = {5}
    Listen = 3
    BiggestFD = 8
    Stat = {s1}
    NoStat = null
    AcceptTimeout = 3
    EchoTimeout = 2
    StartTime = 5
    MaxTime = 12
    MaxBacklog = 1
PROPERTIES
    
    Served
