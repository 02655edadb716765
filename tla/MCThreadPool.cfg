SPECIFICATION FairSpec
CONSTANTS
    Worker = {w1, w2}
    Poster = {p1, p2}
    Main = main
    Task = {t1, t2, t3}
    ExitTask = exit
    NoTask = null
    Nobody = nobody
    MaxQueue = 1
INVARIANTS
    TypeOK
    QueueSound
    NoLostWakeup
    TaskOwnership
    DestroySound
PROPERTIES
    ExitComesLast
    DestroyReturns
    ImplementsTaskPool
