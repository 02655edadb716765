SPECIFICATION MCSpec
CONSTANTS
    Process = {p1, p2, p3, p4, p5}
    Reinit = FALSE
    Sender = {s1, s2}
    Receiver = {r1, r2}
    Single = {s2, r2}
    Capacity = 1
    MaxMessage = 2
    MaxLine = 3
    Station = {t1, t2}
    Nobody = nobody
    Stock = 5
    Rounds = 3
    PollFd = {4, 5}
    SelectFd = {4, 5, 6}
    Listen = 3
    Bytes = 2
    MaxInbox = 1
    MaxBacklog = 2
CHECK_DEADLOCK FALSE
INVARIANTS Mutex FreeWhenEmpty DemosSound TableExact SelectReady
PROPERTIES Entered DemosEnd Served
