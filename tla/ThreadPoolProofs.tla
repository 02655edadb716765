-------------------------- MODULE ThreadPoolProofs --------------------------
(***************************************************************************)
(* Proofs about ThreadPool, for any number of workers, posters and tasks   *)
(* and any capacity of the queue: the counter of waiting tasks; what       *)
(* thread_pool_destroy has achieved when it returns, and why no task and   *)
(* no wakeup is lost on the way; who owns a task; and that the pool        *)
(* implements TaskPool.                                                    *)
(***************************************************************************)
EXTENDS ThreadPool, FiniteSetTheorems, SequenceTheorems, TLAPS

\* A call of thread_task_post has a task to link, and a worker that runs or
\* frees a task has one.
TaskHeld ==
    /\ \A c \in Caller :
          pc[c] \in {"post", "postTest", "postLink", "postError"}
             => task[c] \in Task \cup {ExitTask}
    /\ \A w \in Worker :
          /\ pc[w] = "run" => task[w] \in Task \cup {ExitTask}
          /\ pc[w] = "free" => task[w] \in Task

TypeInv == TypeOK /\ TaskHeld

USE DEF Thread, Caller, WorkerPC, PostPC, MainPC, Pointer

LEMMA InitTypeInv == Init => TypeInv
  BY ThreadsAssumption DEF Init, TypeInv, TypeOK, TaskHeld

LEMMA NextTypeInv == TypeInv /\ [Next]_vars => TypeInv'
<1> SUFFICES ASSUME TypeInv, [Next]_vars PROVE TypeInv'
  OBVIOUS
<1> USE ThreadsAssumption, TasksAssumption DEF TypeInv, TypeOK, TaskHeld
<1>1. ASSUME NEW w \in Worker, CreateWorker(w) PROVE TypeInv'
  BY <1>1, SMTT(150) DEF CreateWorker
<1>2. CASE CreateFails
  BY <1>2 DEF CreateFails
<1>3. ASSUME NEW p \in Poster, NEW t \in Task, Allocate(p, t) PROVE TypeInv'
  BY <1>3 DEF Allocate
<1>4. ASSUME NEW c \in Caller, PostLock(c) PROVE TypeInv'
  BY <1>4 DEF PostLock
<1>5. ASSUME NEW c \in Caller, PostOverflow(c) PROVE TypeInv'
  BY <1>5 DEF PostOverflow
<1>6. ASSUME NEW c \in Caller, PostSignal(c) PROVE TypeInv'
  <2>1. CASE pc' = [pc EXCEPT ![c] = "postLink"]
    BY <1>6, <2>1 DEF PostSignal
  <2>2. ASSUME NEW w \in Sleeping,
               pc' = [pc EXCEPT ![c] = "postLink", ![w] = "relock"]
        PROVE  TypeInv'
    <3>1. w \in Worker /\ w # c
      BY DEF Sleeping
    <3> QED BY <1>6, <2>2, <3>1 DEF PostSignal
  <2> QED BY <1>6, <2>1, <2>2, ZenonT(60) DEF PostSignal
<1>7. ASSUME NEW c \in Caller, PostLink(c) PROVE TypeInv'
  <2>1. queue' \in Seq(Task \cup {ExitTask})
    BY <1>7, AppendProperties DEF PostLink
  <2> QED BY <1>7, <2>1 DEF PostLink
<1>8. ASSUME NEW p \in Poster, PostReturn(p) PROVE TypeInv'
  BY <1>8 DEF PostReturn
<1>9. ASSUME NEW p \in Poster, PostRetry(p) PROVE TypeInv'
  BY <1>9 DEF PostRetry
<1>10. ASSUME NEW w \in Worker, WorkerLock(w) PROVE TypeInv'
  BY <1>10 DEF WorkerLock
<1>11. ASSUME NEW w \in Worker, WorkerWait(w) PROVE TypeInv'
  BY <1>11 DEF WorkerWait
<1>12. ASSUME NEW w \in Worker, SpuriousWakeup(w) PROVE TypeInv'
  BY <1>12 DEF SpuriousWakeup
<1>13. ASSUME NEW w \in Worker, WorkerRelock(w) PROVE TypeInv'
  BY <1>13 DEF WorkerRelock
<1>14. ASSUME NEW w \in Worker, WorkerTake(w) PROVE TypeInv'
  <2>1. /\ Head(queue) \in Task \cup {ExitTask}
        /\ Tail(queue) \in Seq(Task \cup {ExitTask})
    BY <1>14, HeadTailProperties DEF WorkerTake
  <2> QED BY <1>14, <2>1 DEF WorkerTake
<1>15. ASSUME NEW w \in Worker, WorkerRun(w) PROVE TypeInv'
  BY <1>15 DEF WorkerRun
<1>16. ASSUME NEW w \in Worker, WorkerFree(w) PROVE TypeInv'
  BY <1>16 DEF WorkerFree
<1>17. ASSUME NEW w \in Worker, WorkerExit(w) PROVE TypeInv'
  BY <1>17 DEF WorkerExit
<1>18. CASE DestroyCall
  BY <1>18 DEF DestroyCall
<1>19. CASE DestroyPost
  BY <1>19 DEF DestroyPost
<1>20. CASE DestroySpin
  BY <1>20 DEF DestroySpin
<1>21. CASE DestroySpun
  BY <1>21 DEF DestroySpun
<1>22. CASE DestroyGivesUp
  BY <1>22 DEF DestroyGivesUp
<1>23. CASE DestroyFree
  BY <1>23 DEF DestroyFree
<1>24. CASE Finished \/ UNCHANGED vars
  BY <1>24 DEF Finished, vars
<1> QED
  BY ZenonT(60), <1>1, <1>2, <1>3, <1>4, <1>5, <1>6, <1>7, <1>8, <1>9, <1>10, <1>11,
     <1>12, <1>13, <1>14, <1>15, <1>16, <1>17, <1>18, <1>19, <1>20, <1>21,
     <1>22, <1>23, <1>24
     DEF Next, WorkerStep, PosterStep, Post, MainStep

LEMMA TypeInvariance == Spec => []TypeInv
  BY InitTypeInv, NextTypeInv, PTL DEF Spec

\* Every variable keeps the type the code gives it (thread_pool.h:20-46).
THEOREM TypeCorrect == Spec => []TypeOK
  BY TypeInvariance, PTL DEF TypeInv

-----------------------------------------------------------------------------
(* The counter tp->waiting.  It equals what WaitingCounts says because only *)
(* the owner of the mutex changes it, and it never passes max_queue because *)
(* the test of thread_pool.c:147 still holds when the task is linked.       *)

MutexHeld ==
    \A x \in Thread : pc[x] \in {"test", "postTest", "postLink"} <=> mtx = x

RoomChecked ==
    /\ waiting <= MaxQueue
    /\ \A c \in Caller : pc[c] = "postLink" => waiting < MaxQueue

CountInv == TypeInv /\ MutexHeld /\ RoomChecked /\ WaitingCounts

\* A set of workers is finite, and so has a number of members.
LEMMA ClaimingFinite ==
  ASSUME NEW S \in SUBSET Worker
  PROVE  IsFiniteSet(S) /\ Cardinality(S) \in Nat
                        /\ Cardinality(S) <= Cardinality(Worker)
                        /\ Cardinality(Worker) \in Nat
  BY WorkerAssumption, FS_Subset, FS_CardinalityType

LEMMA InitCountInv == Init => CountInv
<1> SUFFICES ASSUME Init PROVE CountInv
  OBVIOUS
<1>1. TypeInv
  BY InitTypeInv
<1>2. MutexHeld
  BY ThreadsAssumption DEF Init, MutexHeld
<1>3. RoomChecked
  BY MaxQueueAssumption, ThreadsAssumption DEF Init, RoomChecked
<1>4. WaitingCounts
  <2>1. Claiming = {}
    BY DEF Init, Claiming
  <2> QED BY <2>1, FS_EmptySet DEF Init, WaitingCounts
<1> QED BY <1>1, <1>2, <1>3, <1>4 DEF CountInv

\* The mutex: whoever is in a critical section owns it.
LEMMA NextMutexHeld == TypeInv /\ MutexHeld /\ [Next]_vars => MutexHeld'
<1> SUFFICES ASSUME TypeInv, MutexHeld, [Next]_vars PROVE MutexHeld'
  OBVIOUS
<1> USE ThreadsAssumption DEF TypeInv, TypeOK, MutexHeld
<1>1. ASSUME NEW w \in Worker,
             WorkerLock(w) \/ WorkerWait(w) \/ WorkerRelock(w) \/ WorkerTake(w)
      PROVE  MutexHeld'
  BY <1>1 DEF WorkerLock, WorkerWait, WorkerRelock, WorkerTake
<1>2. ASSUME NEW w \in Worker,
             \/ CreateWorker(w) \/ WorkerRun(w) \/ WorkerFree(w)
             \/ WorkerExit(w) \/ SpuriousWakeup(w)
      PROVE  MutexHeld'
  BY <1>2, SMTT(150) DEF CreateWorker, WorkerRun, WorkerFree, WorkerExit, SpuriousWakeup
<1>3. ASSUME NEW c \in Caller, PostLock(c) \/ PostOverflow(c) \/ PostLink(c)
      PROVE  MutexHeld'
  BY <1>3 DEF PostLock, PostOverflow, PostLink
<1>4. ASSUME NEW c \in Caller, PostSignal(c) PROVE MutexHeld'
  <2>1. CASE pc' = [pc EXCEPT ![c] = "postLink"]
    BY <1>4, <2>1 DEF PostSignal
  <2>2. ASSUME NEW w \in Sleeping,
               pc' = [pc EXCEPT ![c] = "postLink", ![w] = "relock"]
        PROVE  MutexHeld'
    <3>1. w \in Worker /\ w # c /\ pc[w] = "wait"
      BY DEF Sleeping
    <3> QED BY <1>4, <2>2, <3>1 DEF PostSignal
  <2> QED BY <1>4, <2>1, <2>2 DEF PostSignal
<1>5. ASSUME NEW p \in Poster, NEW t \in Task, Allocate(p, t)
      PROVE  MutexHeld'
  BY <1>5 DEF Allocate
<1>6. ASSUME NEW p \in Poster, PostReturn(p) \/ PostRetry(p) PROVE MutexHeld'
  BY <1>6 DEF PostReturn, PostRetry
<1>7. CASE \/ CreateFails \/ DestroyCall \/ DestroyPost \/ DestroySpin
           \/ DestroySpun \/ DestroyGivesUp \/ DestroyFree
  BY <1>7 DEF CreateFails, DestroyCall, DestroyPost, DestroySpin, DestroySpun,
     DestroyGivesUp, DestroyFree
<1>8. CASE Finished \/ UNCHANGED vars
  BY <1>8 DEF Finished, vars
<1> QED
  BY <1>1, <1>2, <1>3, <1>4, <1>5, <1>6, <1>7, <1>8
     DEF Next, WorkerStep, PosterStep, Post, MainStep

\* The overflow test still holds when the task is linked: no thread raises
\* tp->waiting between the test and the link.
LEMMA NextRoomChecked ==
  TypeInv /\ MutexHeld /\ RoomChecked /\ [Next]_vars => RoomChecked'
<1> SUFFICES ASSUME TypeInv, MutexHeld, RoomChecked, [Next]_vars
             PROVE  RoomChecked'
  OBVIOUS
<1> USE ThreadsAssumption, MaxQueueAssumption DEF TypeInv, TypeOK, RoomChecked
<1>1. ASSUME NEW w \in Worker, WorkerLock(w) PROVE RoomChecked'
  BY <1>1 DEF WorkerLock
<1>2. ASSUME NEW w \in Worker,
             \/ CreateWorker(w) \/ WorkerWait(w) \/ WorkerRelock(w)
             \/ WorkerTake(w) \/ WorkerRun(w) \/ WorkerFree(w)
             \/ WorkerExit(w) \/ SpuriousWakeup(w)
      PROVE  RoomChecked'
  BY <1>2 DEF CreateWorker, WorkerWait, WorkerRelock, WorkerTake, WorkerRun,
     WorkerFree, WorkerExit, SpuriousWakeup
<1>3. ASSUME NEW c \in Caller, PostLock(c) \/ PostOverflow(c)
      PROVE  RoomChecked'
  BY <1>3 DEF PostLock, PostOverflow
<1>4. ASSUME NEW c \in Caller, PostSignal(c) PROVE RoomChecked'
  <2>1. CASE pc' = [pc EXCEPT ![c] = "postLink"]
    BY <1>4, <2>1 DEF PostSignal
  <2>2. ASSUME NEW w \in Sleeping,
               pc' = [pc EXCEPT ![c] = "postLink", ![w] = "relock"]
        PROVE  RoomChecked'
    <3>1. w \in Worker /\ w # c
      BY DEF Sleeping
    <3> QED BY <1>4, <2>2, <3>1 DEF PostSignal
  <2> QED BY <1>4, <2>1, <2>2 DEF PostSignal
<1>5. ASSUME NEW c \in Caller, PostLink(c) PROVE RoomChecked'
  <2>1. \A d \in Caller \ {c} : pc[d] # "postLink"
    BY <1>5 DEF PostLink, MutexHeld
  <2> QED BY <1>5, <2>1 DEF PostLink
<1>6. ASSUME NEW p \in Poster, NEW t \in Task, Allocate(p, t)
      PROVE  RoomChecked'
  BY <1>6 DEF Allocate
<1>7. ASSUME NEW p \in Poster, PostReturn(p) \/ PostRetry(p) PROVE RoomChecked'
  BY <1>7 DEF PostReturn, PostRetry
<1>8. CASE \/ CreateFails \/ DestroyCall \/ DestroyPost \/ DestroySpin
           \/ DestroySpun \/ DestroyGivesUp \/ DestroyFree
  BY <1>8 DEF CreateFails, DestroyCall, DestroyPost, DestroySpin, DestroySpun,
     DestroyGivesUp, DestroyFree
<1>9. CASE Finished \/ UNCHANGED vars
  BY <1>9 DEF Finished, vars
<1> QED
  BY <1>1, <1>2, <1>3, <1>4, <1>5, <1>6, <1>7, <1>8, <1>9
     DEF Next, WorkerStep, PosterStep, Post, MainStep

\* Each action moves tp->waiting, the queue and the announced workers together.
LEMMA NextWaitingCounts ==
  TypeInv /\ WaitingCounts /\ [Next]_vars => WaitingCounts'
<1> SUFFICES ASSUME TypeInv, WaitingCounts, [Next]_vars PROVE WaitingCounts'
  OBVIOUS
<1> USE ThreadsAssumption DEF TypeInv, TypeOK, WaitingCounts
<1>a. /\ Claiming \in SUBSET Worker
      /\ IsFiniteSet(Claiming)
      /\ Cardinality(Claiming) \in Nat
      /\ Len(queue) \in Nat
  BY ClaimingFinite, LenProperties DEF Claiming
<1>b. ASSUME Claiming' = Claiming, UNCHANGED <<queue, waiting>>
      PROVE  WaitingCounts'
  BY <1>b
<1>1. ASSUME NEW w \in Worker, WorkerLock(w) PROVE WaitingCounts'
  <2>1. Claiming' = Claiming \cup {w} /\ w \notin Claiming
    BY <1>1 DEF WorkerLock, Claiming
  <2>2. Cardinality(Claiming') = Cardinality(Claiming) + 1
    BY <2>1, <1>a, FS_AddElement
  <2> QED BY <1>1, <1>a, <2>2 DEF WorkerLock
<1>2. ASSUME NEW w \in Worker, WorkerTake(w) PROVE WaitingCounts'
  <2>1. Claiming' = Claiming \ {w} /\ w \in Claiming
    BY <1>2 DEF WorkerTake, Claiming
  <2>2. Cardinality(Claiming') = Cardinality(Claiming) - 1
    BY <2>1, <1>a, FS_RemoveElement
  <2>3. Len(queue') = Len(queue) - 1
    BY <1>2, HeadTailProperties DEF WorkerTake
  <2> QED BY <1>2, <1>a, <2>2, <2>3 DEF WorkerTake
<1>3. ASSUME NEW w \in Worker,
             \/ CreateWorker(w) \/ WorkerWait(w) \/ WorkerRelock(w)
             \/ WorkerRun(w) \/ WorkerFree(w) \/ WorkerExit(w)
             \/ SpuriousWakeup(w)
      PROVE  WaitingCounts'
  <2>1. Claiming' = Claiming /\ UNCHANGED <<queue, waiting>>
    BY <1>3 DEF Claiming, CreateWorker, WorkerWait, WorkerRelock, WorkerRun,
       WorkerFree, WorkerExit, SpuriousWakeup
  <2> QED BY <2>1, <1>b
<1>4. ASSUME NEW c \in Caller, PostLock(c) \/ PostOverflow(c)
      PROVE  WaitingCounts'
  <2>1. Claiming' = Claiming /\ UNCHANGED <<queue, waiting>>
    BY <1>4 DEF Claiming, PostLock, PostOverflow
  <2> QED BY <2>1, <1>b
<1>5. ASSUME NEW c \in Caller, PostSignal(c) PROVE WaitingCounts'
  <2>1. CASE pc' = [pc EXCEPT ![c] = "postLink"]
    <3>1. Claiming' = Claiming /\ UNCHANGED <<queue, waiting>>
      BY <1>5, <2>1 DEF Claiming, PostSignal
    <3> QED BY <3>1, <1>b
  <2>2. ASSUME NEW w \in Sleeping,
               pc' = [pc EXCEPT ![c] = "postLink", ![w] = "relock"]
        PROVE  WaitingCounts'
    <3>1. w \in Worker /\ w # c /\ pc[w] = "wait"
      BY DEF Sleeping
    <3>2. Claiming' = Claiming /\ UNCHANGED <<queue, waiting>>
      BY <1>5, <2>2, <3>1 DEF Claiming, PostSignal
    <3> QED BY <3>2, <1>b
  <2> QED BY <1>5, <2>1, <2>2 DEF PostSignal
<1>6. ASSUME NEW c \in Caller, PostLink(c) PROVE WaitingCounts'
  <2>1. Claiming' = Claiming
    BY <1>6 DEF PostLink, Claiming
  <2>2. Len(queue') = Len(queue) + 1
    BY <1>6, AppendProperties DEF PostLink, TaskHeld
  <2> QED BY <1>6, <1>a, <2>1, <2>2 DEF PostLink
<1>7. ASSUME NEW p \in Poster, NEW t \in Task, Allocate(p, t)
      PROVE  WaitingCounts'
  <2>1. Claiming' = Claiming /\ UNCHANGED <<queue, waiting>>
    BY <1>7 DEF Claiming, Allocate
  <2> QED BY <2>1, <1>b
<1>8. ASSUME NEW p \in Poster, PostReturn(p) \/ PostRetry(p)
      PROVE  WaitingCounts'
  <2>1. Claiming' = Claiming /\ UNCHANGED <<queue, waiting>>
    BY <1>8 DEF Claiming, PostReturn, PostRetry
  <2> QED BY <2>1, <1>b
<1>9. CASE \/ CreateFails \/ DestroyCall \/ DestroyPost \/ DestroySpin
           \/ DestroySpun \/ DestroyGivesUp \/ DestroyFree
  <2>1. Claiming' = Claiming /\ UNCHANGED <<queue, waiting>>
    BY <1>9 DEF Claiming, CreateFails, DestroyCall, DestroyPost, DestroySpin,
       DestroySpun, DestroyGivesUp, DestroyFree
  <2> QED BY <2>1, <1>b
<1>10. CASE Finished \/ UNCHANGED vars
  <2>1. Claiming' = Claiming /\ UNCHANGED <<queue, waiting>>
    BY <1>10 DEF Claiming, Finished, vars
  <2> QED BY <2>1, <1>b
<1> QED
  BY <1>1, <1>2, <1>3, <1>4, <1>5, <1>6, <1>7, <1>8, <1>9, <1>10
     DEF Next, WorkerStep, PosterStep, Post, MainStep

LEMMA CountInvariance == Spec => []CountInv
<1>1. CountInv /\ [Next]_vars => CountInv'
  BY NextTypeInv, NextMutexHeld, NextRoomChecked, NextWaitingCounts DEF CountInv
<1> QED BY InitCountInv, <1>1, PTL DEF Spec

\* tp->waiting is the length of the queue less the workers that have announced
\* themselves (thread_pool.c:172 and :202), for any number of threads.
THEOREM WaitingIsExact == Spec => []WaitingCounts
  BY CountInvariance, PTL DEF CountInv

\* The queue never holds more than max_queue tasks and one for each worker
\* (thread_pool.c:147).
THEOREM QueueIsBounded == Spec => []QueueBound
<1>1. CountInv => QueueBound
  <2> SUFFICES ASSUME CountInv PROVE QueueBound
    OBVIOUS
  <2>1. /\ Cardinality(Claiming) \in Nat
        /\ Cardinality(Claiming) <= Cardinality(Worker)
        /\ Cardinality(Worker) \in Nat
    BY ClaimingFinite DEF Claiming
  <2>2. Len(queue) \in Nat
    BY LenProperties DEF CountInv, TypeInv, TypeOK
  <2> QED
    BY <2>1, <2>2, MaxQueueAssumption
       DEF CountInv, TypeInv, TypeOK, RoomChecked, WaitingCounts, QueueBound
<1> QED BY CountInvariance, <1>1, PTL

\* The counter, the queue and the overflow test agree (thread_pool.c:147, :172,
\* :202).
THEOREM QueueIsSound == Spec => []QueueSound
  BY WaitingIsExact, QueueIsBounded, PTL DEF QueueSound

-----------------------------------------------------------------------------
(* The exit protocol of thread_pool_destroy.  Main posts one exit task at a  *)
(* time and spins until a worker has obeyed it, so at most one reference to *)
(* its stack frame exists, and every earlier task has left the queue then.  *)

Exited == {w \in Worker : pc[w] = "exited"}
Awake  == {w \in Worker : pc[w] \notin {"new", "wait", "exited"}}

\* Main is inside thread_pool_destroy.
Destroying == pc[Main] \in PostPC \cup {"destroy", "spin"}

\* The exit task is linked or held, and its handler has not run.
Asked   == pc[Main] \in {"postOk", "spin"} /\ lock = 1
\* Its handler has run, and Main has not counted it yet.
Obeyed  == pc[Main] \in {"postOk", "spin"} /\ lock = 0

\* Who may be where: posters run only while Main is idle, the workers are all
\* created before that, and none runs a task before that.
Phases ==
    /\ pc[Main] # "idle" => \A p \in Poster : pc[p] = "idle"
    /\ pc[Main] \in {"init", "initFailed"} =>
          /\ queue = <<>>
          /\ \A w \in Worker : pc[w] \in {"new", "lock", "test", "wait", "relock"}
    /\ pc[Main] \notin {"init", "initFailed"} => \A w \in Worker : pc[w] # "new"
    /\ pc[Main] = "initFailed" <=> tp = "freed" /\ pc[Main] # "destroyed"
    /\ pc[Main] = "destroyed" => tp = "freed"
    /\ \A p \in Poster : task[p] # ExitTask
    /\ pc[Main] \in {"post", "postTest", "postLink"} =>
          task[Main] = ExitTask /\ lock = 1

\* Where the exit task is.
ExitPlace ==
    /\ \A w \in Worker : task[w] = ExitTask => pc[w] = "run"
    /\ ~Asked => ExitTask \notin Queued /\ ExitTaskHolders = {}
    /\ Asked =>
          \/ /\ ExitTaskHolders = {}
             /\ queue # <<>> /\ queue[Len(queue)] = ExitTask
             /\ \A i \in 1..Len(queue) : queue[i] = ExitTask => i = Len(queue)
          \/ /\ queue = <<>>
             /\ \E w \in Worker : ExitTaskHolders = {w}
    /\ Obeyed => queue = <<>>

\* How many workers have left.
ExitCount ==
    /\ Destroying => Cardinality(Exited) = IF Obeyed THEN n + 1 ELSE n
    /\ pc[Main] \in PostPC \cup {"spin"} => n < Cardinality(Worker)
    /\ Destroying => n <= Cardinality(Worker)
    /\ pc[Main] \in {"init", "initFailed", "idle", "postError"} => Exited = {}
    /\ pc[Main] = "destroyed" => Exited = Worker
    /\ Exited # {} => Queued \subseteq {ExitTask}

\* A queued task, or one about to be linked, finds a worker awake.
WorkerComing ==
    /\ queue # <<>> => Awake # {}
    /\ \A c \in Caller : pc[c] = "postLink" => Awake # {}

ExitInv == CountInv /\ Phases /\ ExitPlace /\ ExitCount /\ WorkerComing

USE DEF Thread, Caller, WorkerPC, PostPC, MainPC, Pointer

LEMMA ExitCountFinite ==
  /\ IsFiniteSet(Exited) /\ Cardinality(Exited) \in Nat
  /\ Cardinality(Worker) \in Nat
  /\ Cardinality(Exited) = Cardinality(Worker) => Exited = Worker
  BY WorkerAssumption, FS_Subset, FS_CardinalityType DEF Exited

LEMMA NothingQueued ==
  ASSUME TypeOK, Queued = {}
  PROVE  queue = <<>> /\ Len(queue) = 0
<1>1. Len(queue) \in Nat
  BY LenProperties DEF TypeOK
<1>2. CASE Len(queue) >= 1
  <2>1. queue[1] \in Queued
    BY <1>1, <1>2 DEF Queued
  <2> QED BY <2>1
<1>3. CASE Len(queue) = 0
  BY <1>3, EmptySeq DEF TypeOK
<1> QED BY <1>1, <1>2, <1>3

LEMMA InitExitInv == Init => ExitInv
<1> SUFFICES ASSUME Init PROVE ExitInv
  OBVIOUS
<1> USE ThreadsAssumption, TasksAssumption DEF Init
<1>1. CountInv
  BY InitCountInv
<1>2. Phases
  BY DEF Phases
<1>3. ExitPlace
  BY DEF ExitPlace, Asked, Obeyed, Queued, ExitTaskHolders
<1>4. ExitCount
  BY DEF ExitCount, Destroying, Exited
<1>5. WorkerComing
  BY DEF WorkerComing
<1> QED BY <1>1, <1>2, <1>3, <1>4, <1>5 DEF ExitInv

\* The phases of the program: init, service, destroy.
LEMMA NextPhases == ExitInv /\ [Next]_vars => Phases'
<1> SUFFICES ASSUME ExitInv, [Next]_vars PROVE Phases'
  OBVIOUS
<1> USE ThreadsAssumption, TasksAssumption
    DEF ExitInv, CountInv, TypeInv, TypeOK, Phases
<1>1. ASSUME NEW w \in Worker, CreateWorker(w) PROVE Phases'
  BY <1>1, SMTT(60) DEF CreateWorker, Created
<1>2. ASSUME NEW w \in Worker,
             \/ WorkerLock(w) \/ WorkerWait(w) \/ WorkerRelock(w)
             \/ SpuriousWakeup(w)
      PROVE  Phases'
  BY <1>2, ZenonT(60) DEF WorkerLock, WorkerWait, WorkerRelock, SpuriousWakeup
<1>3. ASSUME NEW w \in Worker, WorkerTake(w) PROVE Phases'
  BY <1>3 DEF WorkerTake
<1>4. ASSUME NEW w \in Worker, WorkerRun(w) \/ WorkerFree(w) \/ WorkerExit(w)
      PROVE  Phases'
  <2>1. WorkerExit(w) => Asked
    BY DEF WorkerExit, ExitPlace, ExitTaskHolders
  <2> QED BY <1>4, <2>1, ZenonT(60) DEF WorkerRun, WorkerFree, WorkerExit, Asked
<1>5. ASSUME NEW p \in Poster, NEW t \in Task, Allocate(p, t) PROVE Phases'
  BY <1>5 DEF Allocate
<1>6. ASSUME NEW p \in Poster, PostReturn(p) \/ PostRetry(p) PROVE Phases'
  BY <1>6 DEF PostReturn, PostRetry
<1>7. ASSUME NEW c \in Caller, PostLock(c) \/ PostOverflow(c) PROVE Phases'
  BY <1>7 DEF PostLock, PostOverflow
<1>8. ASSUME NEW c \in Caller, PostSignal(c) PROVE Phases'
  <2>1. CASE pc' = [pc EXCEPT ![c] = "postLink"]
    BY <1>8, <2>1 DEF PostSignal
  <2>2. ASSUME NEW w \in Sleeping,
               pc' = [pc EXCEPT ![c] = "postLink", ![w] = "relock"]
        PROVE  Phases'
    <3>1. w \in Worker /\ w # c
      BY DEF Sleeping
    <3> QED BY <1>8, <2>2, <3>1 DEF PostSignal
  <2> QED BY <1>8, <2>1, <2>2, ZenonT(60) DEF PostSignal
<1>9. ASSUME NEW c \in Caller, PostLink(c) PROVE Phases'
  BY <1>9 DEF PostLink
<1>10. CASE CreateFails
  BY <1>10 DEF CreateFails
<1>11. CASE DestroyCall \/ DestroyPost
  BY <1>11 DEF DestroyCall, DestroyPost
<1>12. CASE DestroySpin \/ DestroySpun
  BY <1>12 DEF DestroySpin, DestroySpun
<1>13. CASE DestroyGivesUp \/ DestroyFree
  BY <1>13 DEF DestroyGivesUp, DestroyFree
<1>14. CASE Finished \/ UNCHANGED vars
  BY <1>14 DEF Finished, vars
<1> QED
  BY <1>1, <1>2, <1>3, <1>4, <1>5, <1>6, <1>7, <1>8, <1>9, <1>10, <1>11, <1>12,
     <1>13, <1>14 DEF Next, WorkerStep, PosterStep, Post, MainStep

\* Steps that leave the queue, the flag and every exit-task pointer alone.
LEMMA ExitPlaceFrame ==
  ASSUME TypeInv, ExitPlace,
         UNCHANGED <<queue, lock>>,
         \A w \in Worker : task'[w] = ExitTask <=> task[w] = ExitTask,
         \A w \in Worker : pc[w] = "run" /\ task[w] = ExitTask => pc'[w] = "run",
         Asked' <=> Asked, Obeyed' => Obeyed
  PROVE  ExitPlace'
<1>1. ExitTaskHolders' = ExitTaskHolders
  BY DEF ExitTaskHolders
<1>2. Queued' = Queued
  BY DEF Queued
<1> QED BY <1>1, <1>2 DEF ExitPlace

\* Where the exit task is: nowhere, last in the queue, or with one worker.
LEMMA NextExitPlace == ExitInv /\ [Next]_vars => ExitPlace'
<1> SUFFICES ASSUME ExitInv, [Next]_vars PROVE ExitPlace'
  OBVIOUS
<1>a. TypeInv /\ ExitPlace
  BY DEF ExitInv, CountInv
<1> USE ThreadsAssumption, TasksAssumption
    DEF ExitInv, CountInv, TypeInv, TypeOK, Phases
<1>1. ASSUME NEW w \in Worker, CreateWorker(w) PROVE ExitPlace'
  BY <1>1, <1>a, ExitPlaceFrame, ZenonT(60) DEF CreateWorker, Asked, Obeyed, ExitPlace
<1>2. ASSUME NEW w \in Worker,
             \/ WorkerLock(w) \/ WorkerWait(w) \/ WorkerRelock(w)
             \/ SpuriousWakeup(w)
      PROVE  ExitPlace'
  BY <1>2, <1>a, ExitPlaceFrame
     DEF WorkerLock, WorkerWait, WorkerRelock, SpuriousWakeup, Asked, Obeyed
<1>3. ASSUME NEW w \in Worker, WorkerTake(w) PROVE ExitPlace'
  <2>1. /\ Head(queue) = queue[1]
        /\ Len(queue) \in Nat \ {0}
        /\ Len(queue') = Len(queue) - 1
        /\ queue' \in Seq(Task \cup {ExitTask})
        /\ \A i \in 1..Len(queue') : queue'[i] = queue[i + 1]
    BY <1>3, HeadTailProperties, EmptySeq DEF WorkerTake
  <2>2. Queued' \subseteq Queued
    BY <2>1 DEF Queued
  <2>3. (Asked' <=> Asked) /\ (Obeyed' <=> Obeyed)
    BY <1>3 DEF WorkerTake, Asked, Obeyed
  <2>4. task[w] # ExitTask /\ pc'[w] = "run" /\ task'[w] = queue[1]
    BY <1>3, <2>1, ZenonT(60) DEF WorkerTake, ExitPlace
  <2>5. \A v \in Worker \ {w} : task'[v] = task[v] /\ pc'[v] = pc[v]
    BY <1>3 DEF WorkerTake
  <2>6. CASE queue[1] = ExitTask
    <3>1. Asked /\ Len(queue) = 1 /\ ExitTaskHolders = {}
      BY <2>6, <2>1 DEF ExitPlace, Queued
    <3>2. queue' = <<>>
      BY <3>1, <2>1, EmptySeq
    <3>3. ExitTaskHolders' = {w}
      BY <3>1, <2>4, <2>5, <2>6 DEF ExitTaskHolders
    <3> QED BY <3>1, <3>2, <3>3, <2>3, <2>4, <2>5 DEF ExitPlace, Asked, Obeyed
  <2>7. CASE queue[1] # ExitTask
    <3>1. ExitTaskHolders' = ExitTaskHolders
      BY <2>7, <2>4, <2>5 DEF ExitTaskHolders
    <3>2. CASE Asked
      <4>1. /\ ExitTaskHolders = {}
            /\ queue[Len(queue)] = ExitTask
            /\ \A i \in 1..Len(queue) : queue[i] = ExitTask => i = Len(queue)
        BY <3>2, <1>3 DEF ExitPlace, WorkerTake
      <4>2. /\ queue' # <<>> /\ queue'[Len(queue')] = ExitTask
            /\ \A i \in 1..Len(queue') : queue'[i] = ExitTask => i = Len(queue')
        BY <4>1, <2>1, <2>7, EmptySeq
      <4> QED BY <4>1, <4>2, <3>1, <3>2, <2>3, <2>4, <2>5, <2>7, SMTT(60)
              DEF ExitPlace, Asked, Obeyed
    <3>3. CASE ~Asked
      <4>1. ~Obeyed
        BY <1>3 DEF ExitPlace, WorkerTake
      <4> QED BY <4>1, <3>1, <3>3, <2>2, <2>3, <2>4, <2>5, <2>7, SMTT(150) DEF ExitPlace
    <3> QED BY <3>2, <3>3
  <2> QED BY <2>6, <2>7
<1>4. ASSUME NEW w \in Worker, WorkerRun(w) \/ WorkerFree(w) PROVE ExitPlace'
  <2>1. task[w] # ExitTask
    BY <1>4 DEF WorkerRun, WorkerFree, TaskHeld
  <2> QED
    BY <1>4, <2>1, <1>a, ExitPlaceFrame DEF WorkerRun, WorkerFree, Asked, Obeyed
<1>5. ASSUME NEW w \in Worker, WorkerExit(w) PROVE ExitPlace'
  <2>1. Asked /\ queue = <<>> /\ ExitTaskHolders = {w}
    BY <1>5 DEF ExitPlace, WorkerExit, ExitTaskHolders
  <2>2. ExitTaskHolders' = {}
    BY <1>5, <2>1 DEF WorkerExit, ExitTaskHolders
  <2>3. queue' = <<>> /\ Queued' = {}
    BY <1>5, <2>1 DEF WorkerExit, Queued
  <2>4. \A v \in Worker : task'[v] # ExitTask
    BY <2>2 DEF ExitTaskHolders
  <2>5. ~Asked'
    BY <1>5 DEF WorkerExit, Asked
  <2> QED BY <2>2, <2>3, <2>4, <2>5 DEF ExitPlace
<1>6. ASSUME NEW p \in Poster, NEW t \in Task, Allocate(p, t) PROVE ExitPlace'
  BY <1>6, <1>a, ExitPlaceFrame DEF Allocate, Asked, Obeyed
<1>7. ASSUME NEW p \in Poster, PostReturn(p) \/ PostRetry(p) PROVE ExitPlace'
  BY <1>7, <1>a, ExitPlaceFrame DEF PostReturn, PostRetry, Asked, Obeyed
<1>8. ASSUME NEW c \in Caller, PostLock(c) \/ PostOverflow(c) PROVE ExitPlace'
  BY <1>8, <1>a, ExitPlaceFrame DEF PostLock, PostOverflow, Asked, Obeyed
<1>9. ASSUME NEW c \in Caller, PostSignal(c) PROVE ExitPlace'
  <2>1. CASE pc' = [pc EXCEPT ![c] = "postLink"]
    BY <1>9, <2>1, <1>a, ExitPlaceFrame DEF PostSignal, Asked, Obeyed
  <2>2. ASSUME NEW w \in Sleeping,
               pc' = [pc EXCEPT ![c] = "postLink", ![w] = "relock"]
        PROVE  ExitPlace'
    <3>1. w \in Worker /\ w # c /\ pc[w] = "wait"
      BY DEF Sleeping
    <3> QED BY <1>9, <2>2, <3>1, <1>a, ExitPlaceFrame DEF PostSignal, Asked, Obeyed
  <2> QED BY <1>9, <2>1, <2>2 DEF PostSignal
<1>10. ASSUME NEW c \in Caller, PostLink(c) PROVE ExitPlace'
  <2>0. task[c] \in Task \cup {ExitTask}
    BY <1>10 DEF PostLink, TaskHeld
  <2>1. /\ Len(queue) \in Nat
        /\ queue' # <<>>
        /\ Len(queue') = Len(queue) + 1
        /\ \A i \in 1..Len(queue) : queue'[i] = queue[i]
        /\ queue'[Len(queue) + 1] = task[c]
    BY <1>10, <2>0, AppendProperties, LenProperties DEF PostLink
  <2>2. ExitTaskHolders' = ExitTaskHolders /\ task' = task /\ lock' = lock
    BY <1>10 DEF PostLink, ExitTaskHolders
  <2>3. \A w \in Worker : pc'[w] = pc[w]
    BY <1>10 DEF PostLink
  <2>4. ~Asked /\ ~Obeyed /\ ExitTask \notin Queued /\ ExitTaskHolders = {}
    BY <1>10 DEF PostLink, Asked, Obeyed, ExitPlace
  <2>5. CASE c = Main
    <3>1. task[c] = ExitTask /\ pc'[Main] = "postOk"
      BY <1>10, <2>5 DEF PostLink
    <3>2. lock = 1
      BY <1>10, <2>5 DEF PostLink, ExitPlace
    <3>3. Asked'
      BY <3>1, <3>2, <2>2 DEF Asked
    <3> QED BY <3>1, <3>3, <2>1, <2>2, <2>3, <2>4, SMTT(150) DEF ExitPlace, Queued, Obeyed, Asked
  <2>6. CASE c # Main
    <3>1. task[c] # ExitTask /\ pc'[Main] = pc[Main]
      BY <1>10, <2>6 DEF PostLink
    <3>2. ~Asked' /\ ~Obeyed'
      BY <3>1, <2>2, <2>4 DEF Asked, Obeyed
    <3>3. ExitTask \notin Queued'
      BY <3>1, <2>1, <2>4 DEF Queued
    <3> QED BY <3>1, <3>2, <3>3, <2>2, <2>3, <2>4 DEF ExitPlace
  <2> QED BY <2>5, <2>6
<1>11. CASE CreateFails \/ DestroyCall \/ DestroySpin \/ DestroyGivesUp
  BY <1>11, <1>a, ExitPlaceFrame
     DEF CreateFails, DestroyCall, DestroySpin, DestroyGivesUp, Asked, Obeyed
<1>12. CASE DestroyPost
  <2>1. ~Asked /\ ~Asked' /\ ~Obeyed'
    BY <1>12 DEF DestroyPost, Asked, Obeyed
  <2>2. ExitTaskHolders' = ExitTaskHolders /\ Queued' = Queued
    BY <1>12 DEF DestroyPost, ExitTaskHolders, Queued
  <2>3. \A w \in Worker : pc'[w] = pc[w] /\ task'[w] = task[w]
    BY <1>12 DEF DestroyPost
  <2> QED BY <2>1, <2>2, <2>3 DEF ExitPlace
<1>13. CASE DestroySpun \/ DestroyFree
  BY <1>13, <1>a, ExitPlaceFrame DEF DestroySpun, DestroyFree, Asked, Obeyed
<1>14. CASE Finished \/ UNCHANGED vars
  BY <1>14, <1>a, ExitPlaceFrame DEF Finished, vars, Asked, Obeyed
<1> QED
  BY <1>1, <1>2, <1>3, <1>4, <1>5, <1>6, <1>7, <1>8, <1>9, <1>10, <1>11, <1>12,
     <1>13, <1>14 DEF Next, WorkerStep, PosterStep, Post, MainStep

\* Steps after which nobody more has left and Main counts as before.
LEMMA ExitCountFrame ==
  ASSUME TypeInv, ExitCount,
         UNCHANGED <<queue, n, lock>>,
         Exited' = Exited,
         pc'[Main] = pc[Main]
  PROVE  ExitCount'
<1>1. Queued' = Queued
  BY DEF Queued
<1> QED BY <1>1 DEF ExitCount, Destroying, Obeyed

\* How many workers have left: as many as the loop of destroy has counted.
LEMMA NextExitCount == ExitInv /\ [Next]_vars => ExitCount'
<1> SUFFICES ASSUME ExitInv, [Next]_vars PROVE ExitCount'
  OBVIOUS
<1>a. TypeInv /\ ExitCount
  BY DEF ExitInv, CountInv
<1>b. /\ IsFiniteSet(Exited) /\ Cardinality(Exited) \in Nat
      /\ Cardinality(Worker) \in Nat
      /\ Cardinality(Exited) = Cardinality(Worker) => Exited = Worker
  BY ExitCountFinite
<1> USE ThreadsAssumption, TasksAssumption
    DEF ExitInv, CountInv, TypeInv, TypeOK, Phases
<1>1. ASSUME NEW w \in Worker, CreateWorker(w) PROVE ExitCount'
  <2>1. Exited' = Exited /\ UNCHANGED <<queue, n, lock>>
    BY <1>1 DEF CreateWorker, Exited
  <2>2. Exited = {} /\ pc'[Main] \in {"init", "idle"}
    BY <1>1 DEF CreateWorker, ExitCount
  <2> QED BY <2>1, <2>2 DEF ExitCount, Destroying
<1>2. ASSUME NEW w \in Worker,
             \/ WorkerLock(w) \/ WorkerWait(w) \/ WorkerRelock(w)
             \/ SpuriousWakeup(w) \/ WorkerRun(w) \/ WorkerFree(w)
      PROVE  ExitCount'
  <2>1. Exited' = Exited /\ UNCHANGED <<queue, n, lock>> /\ pc'[Main] = pc[Main]
    BY <1>2 DEF WorkerLock, WorkerWait, WorkerRelock, SpuriousWakeup, WorkerRun,
       WorkerFree, Exited
  <2> QED BY <2>1, <1>a, ExitCountFrame
<1>3. ASSUME NEW w \in Worker, WorkerTake(w) PROVE ExitCount'
  <2>1. /\ Len(queue') = Len(queue) - 1
        /\ Len(queue) \in Nat
        /\ \A i \in 1..Len(queue') : queue'[i] = queue[i + 1]
    BY <1>3, HeadTailProperties, LenProperties DEF WorkerTake
  <2>2. Queued' \subseteq Queued
    BY <2>1 DEF Queued
  <2>3. Exited' = Exited /\ UNCHANGED <<n, lock>> /\ pc'[Main] = pc[Main]
    BY <1>3 DEF WorkerTake, Exited
  <2> QED BY <2>2, <2>3 DEF ExitCount, Destroying, Obeyed
<1>4. ASSUME NEW w \in Worker, WorkerExit(w) PROVE ExitCount'
  <2>1. Asked /\ queue = <<>>
    BY <1>4 DEF ExitPlace, WorkerExit, ExitTaskHolders
  <2>2. Exited' = Exited \cup {w} /\ w \notin Exited
    BY <1>4 DEF WorkerExit, Exited
  <2>3. Cardinality(Exited') = Cardinality(Exited) + 1
    BY <2>2, <1>b, FS_AddElement, ZenonT(60)
  <2>4. Queued' = {}
    BY <1>4, <2>1 DEF WorkerExit, Queued
  <2>5. pc'[Main] = pc[Main] /\ n' = n /\ lock' = 0
    BY <1>4 DEF WorkerExit
  <2> QED BY <2>1, <2>3, <2>4, <2>5 DEF ExitCount, Destroying, Obeyed, Asked
<1>5. ASSUME NEW p \in Poster, NEW t \in Task, Allocate(p, t) PROVE ExitCount'
  <2>1. Exited' = Exited /\ UNCHANGED <<queue, n, lock>> /\ pc'[Main] = pc[Main]
    BY <1>5 DEF Allocate, Exited
  <2> QED BY <2>1, <1>a, ExitCountFrame
<1>6. ASSUME NEW p \in Poster, PostReturn(p) \/ PostRetry(p) PROVE ExitCount'
  <2>1. Exited' = Exited /\ UNCHANGED <<queue, n, lock>> /\ pc'[Main] = pc[Main]
    BY <1>6 DEF PostReturn, PostRetry, Exited
  <2> QED BY <2>1, <1>a, ExitCountFrame
<1>7. ASSUME NEW c \in Caller, PostLock(c) PROVE ExitCount'
  <2>1. /\ Exited' = Exited /\ Queued' = Queued /\ UNCHANGED <<n, lock>>
        /\ \/ pc'[Main] = pc[Main]
           \/ pc[Main] = "post" /\ pc'[Main] = "postTest"
    BY <1>7 DEF PostLock, Exited, Queued
  <2> QED BY <2>1 DEF ExitCount, Destroying, Obeyed
<1>8. ASSUME NEW c \in Caller, PostOverflow(c) PROVE ExitCount'
  <2>1. Exited' = Exited /\ UNCHANGED <<queue, n, lock>>
    BY <1>8 DEF PostOverflow, Exited
  <2>2. CASE c = Main
    <3>1. Exited = {}
      <4> SUFFICES ASSUME Exited # {} PROVE FALSE
        OBVIOUS
      <4>1. Queued \subseteq {ExitTask}
        BY DEF ExitCount
      <4>2. ~Asked
        BY <1>8, <2>2 DEF PostOverflow, Asked
      <4>3. Queued = {}
        BY <4>1, <4>2 DEF ExitPlace
      <4>4. Len(queue) = 0
        BY <4>3, NothingQueued
      <4>5. Cardinality(Claiming) \in Nat
        BY ClaimingFinite DEF Claiming
      <4> QED BY <4>4, <4>5, <1>8, MaxQueueAssumption
              DEF PostOverflow, WaitingCounts
    <3>2. /\ pc[Main] = "postTest" /\ pc'[Main] = "postError"
          /\ n' = n /\ lock' = lock
      BY <1>8, <2>2 DEF PostOverflow
    <3> QED BY <2>1, <3>1, <3>2 DEF ExitCount, Destroying, Obeyed
  <2>3. CASE c # Main
    <3>1. pc'[Main] = pc[Main]
      BY <1>8, <2>3 DEF PostOverflow
    <3> QED BY <2>1, <3>1, <1>a, ExitCountFrame
  <2> QED BY <2>2, <2>3
<1>9. ASSUME NEW c \in Caller, PostSignal(c) PROVE ExitCount'
  <2>1. /\ Exited' = Exited
        /\ \/ pc'[Main] = pc[Main]
           \/ pc[Main] = "postTest" /\ pc'[Main] = "postLink"
    <3>1. CASE pc' = [pc EXCEPT ![c] = "postLink"]
      BY <1>9, <3>1 DEF PostSignal, Exited
    <3>2. ASSUME NEW w \in Sleeping,
                 pc' = [pc EXCEPT ![c] = "postLink", ![w] = "relock"]
          PROVE  /\ Exited' = Exited
                 /\ \/ pc'[Main] = pc[Main]
                    \/ pc[Main] = "postTest" /\ pc'[Main] = "postLink"
      <4>1. w \in Worker /\ w # c /\ pc[w] = "wait"
        BY DEF Sleeping
      <4> QED BY <1>9, <3>2, <4>1 DEF PostSignal, Exited
    <3> QED BY <1>9, <3>1, <3>2 DEF PostSignal
  <2>2. Queued' = Queued /\ UNCHANGED <<n, lock>>
    BY <1>9 DEF PostSignal, Queued
  <2> QED BY <2>1, <2>2 DEF ExitCount, Destroying, Obeyed
<1>10. ASSUME NEW c \in Caller, PostLink(c) PROVE ExitCount'
  <2>0. task[c] \in Task \cup {ExitTask}
    BY <1>10 DEF PostLink, TaskHeld
  <2>1. /\ Len(queue) \in Nat
        /\ Len(queue') = Len(queue) + 1
        /\ \A i \in 1..Len(queue) : queue'[i] = queue[i]
        /\ queue'[Len(queue) + 1] = task[c]
    BY <1>10, <2>0, AppendProperties, LenProperties DEF PostLink
  <2>2. Queued' \subseteq Queued \cup {task[c]}
    BY <2>1, SMTT(150) DEF Queued
  <2>3. Exited' = Exited /\ UNCHANGED <<n, lock>>
    BY <1>10 DEF PostLink, Exited
  <2>4. CASE c = Main
    <3>1. /\ pc[Main] = "postLink" /\ pc'[Main] = "postOk"
          /\ task[c] = ExitTask /\ lock = 1
      BY <1>10, <2>4 DEF PostLink
    <3> QED BY <2>2, <2>3, <3>1 DEF ExitCount, Destroying, Obeyed
  <2>5. CASE c # Main
    <3>1. pc[Main] = "idle" /\ pc'[Main] = "idle"
      BY <1>10, <2>5 DEF PostLink
    <3> QED BY <2>3, <3>1 DEF ExitCount, Destroying
  <2> QED BY <2>4, <2>5
<1>11. CASE \/ CreateFails \/ DestroyCall \/ DestroyPost \/ DestroySpin
            \/ DestroyGivesUp
  <2>1. Exited' = Exited /\ Queued' = Queued
    BY <1>11 DEF CreateFails, DestroyCall, DestroyPost, DestroySpin,
       DestroyGivesUp, Exited, Queued
  <2>2. CASE CreateFails \/ DestroyGivesUp
    BY <2>1, <2>2 DEF CreateFails, DestroyGivesUp, ExitCount, Destroying
  <2>3. CASE DestroyCall
    <3>1. /\ Exited = {} /\ n' = 0 /\ pc'[Main] = "destroy"
      BY <2>3 DEF DestroyCall, ExitCount
    <3>2. Cardinality(Exited') = 0
      BY <2>1, <3>1, FS_EmptySet
    <3> QED BY <1>b, <2>1, <3>1, <3>2 DEF ExitCount, Destroying, Obeyed
  <2>4. CASE DestroyPost
    BY <2>1, <2>4 DEF DestroyPost, ExitCount, Destroying, Obeyed
  <2>5. CASE DestroySpin
    BY <2>1, <2>5 DEF DestroySpin, ExitCount, Destroying, Obeyed
  <2> QED BY <1>11, <2>2, <2>3, <2>4, <2>5
<1>12. CASE DestroySpun
  <2>1. Exited' = Exited /\ Queued' = Queued
    BY <1>12 DEF DestroySpun, Exited, Queued
  <2> QED BY <1>12, <1>b, <2>1 DEF DestroySpun, ExitCount, Destroying, Obeyed
<1>13. CASE DestroyFree
  <2>1. Exited' = Exited /\ Queued' = Queued
    BY <1>13 DEF DestroyFree, Exited, Queued
  <2>2. Exited = Worker
    BY <1>13, <1>b DEF DestroyFree, ExitCount, Destroying, Obeyed
  <2> QED BY <1>13, <2>1, <2>2 DEF DestroyFree, ExitCount, Destroying
<1>14. CASE Finished \/ UNCHANGED vars
  <2>1. Exited' = Exited /\ UNCHANGED <<queue, n, lock>> /\ pc'[Main] = pc[Main]
    BY <1>14 DEF Finished, vars, Exited
  <2> QED BY <2>1, <1>a, ExitCountFrame
<1> QED
  BY <1>1, <1>2, <1>3, <1>4, <1>5, <1>6, <1>7, <1>8, <1>9, <1>10, <1>11, <1>12,
     <1>13, <1>14 DEF Next, WorkerStep, PosterStep, Post, MainStep

\* Steps that put nobody to sleep and queue nothing.
LEMMA WorkerComingFrame ==
  ASSUME WorkerComing, queue' = queue, Awake \subseteq Awake',
         \A c \in Caller : pc'[c] = "postLink" => pc[c] = "postLink"
  PROVE  WorkerComing'
  BY DEF WorkerComing

\* No wakeup is lost.  The signal is sent before the task is linked, but under
\* the mutex, and a worker sleeps only after it has found the queue empty
\* under the mutex.
LEMMA NextWorkerComing == ExitInv /\ [Next]_vars => WorkerComing'
<1> SUFFICES ASSUME ExitInv, [Next]_vars PROVE WorkerComing'
  OBVIOUS
<1>a. WorkerComing
  BY DEF ExitInv
<1> USE ThreadsAssumption, TasksAssumption
    DEF ExitInv, CountInv, TypeInv, TypeOK, Phases
<1>1. ASSUME NEW w \in Worker, CreateWorker(w) PROVE WorkerComing'
  BY <1>1, <1>a, WorkerComingFrame DEF CreateWorker, Awake
<1>2. ASSUME NEW w \in Worker,
             \/ WorkerLock(w) \/ WorkerRelock(w) \/ SpuriousWakeup(w)
             \/ WorkerRun(w) \/ WorkerFree(w)
      PROVE  WorkerComing'
  BY <1>2, <1>a, WorkerComingFrame
     DEF WorkerLock, WorkerRelock, SpuriousWakeup, WorkerRun, WorkerFree, Awake
<1>3. ASSUME NEW w \in Worker, WorkerWait(w) PROVE WorkerComing'
  <2>1. mtx = w /\ queue' = <<>>
    BY <1>3 DEF WorkerWait, MutexHeld
  <2>2. \A c \in Caller : pc'[c] # "postLink"
    BY <1>3, <2>1 DEF WorkerWait, MutexHeld
  <2> QED BY <2>1, <2>2 DEF WorkerComing
<1>4. ASSUME NEW w \in Worker, WorkerTake(w) PROVE WorkerComing'
  <2>1. w \in Awake'
    BY <1>4 DEF WorkerTake, Awake
  <2> QED BY <2>1 DEF WorkerComing
<1>5. ASSUME NEW w \in Worker, WorkerExit(w) PROVE WorkerComing'
  <2>1. Asked /\ queue = <<>>
    BY <1>5 DEF ExitPlace, WorkerExit, ExitTaskHolders
  <2>2. \A c \in Caller : pc'[c] # "postLink"
    BY <1>5, <2>1 DEF WorkerExit, Asked
  <2>3. queue' = <<>>
    BY <1>5, <2>1 DEF WorkerExit
  <2> QED BY <2>2, <2>3 DEF WorkerComing
<1>6. ASSUME NEW p \in Poster, NEW t \in Task, Allocate(p, t) PROVE WorkerComing'
  BY <1>6, <1>a, WorkerComingFrame DEF Allocate, Awake
<1>7. ASSUME NEW p \in Poster, PostReturn(p) \/ PostRetry(p) PROVE WorkerComing'
  BY <1>7, <1>a, WorkerComingFrame DEF PostReturn, PostRetry, Awake
<1>8. ASSUME NEW c \in Caller, PostLock(c) \/ PostOverflow(c) PROVE WorkerComing'
  BY <1>8, <1>a, WorkerComingFrame DEF PostLock, PostOverflow, Awake
<1>9. ASSUME NEW c \in Caller, PostSignal(c) PROVE WorkerComing'
  <2>1. CASE Sleeping = {} /\ pc' = [pc EXCEPT ![c] = "postLink"]
    <3>1. Awake' = Awake
      BY <1>9, <2>1 DEF Awake
    <3>2. pc[Main] \notin {"init", "initFailed"}
      BY <1>9 DEF PostSignal
    <3>3. \A w \in Worker : pc[w] # "new" /\ pc[w] # "wait"
      BY <2>1, <3>2 DEF Sleeping
    <3>4. Exited # Worker
      <4>1. CASE c = Main
        BY <1>9, <4>1 DEF PostSignal, ExitCount, Destroying, Obeyed
      <4>2. CASE c # Main
        <5>1. pc[Main] = "idle"
          BY <1>9, <4>2 DEF PostSignal
        <5> QED BY <5>1, WorkerAssumption DEF ExitCount
      <4> QED BY <4>1, <4>2
    <3>5. Awake # {}
      BY <3>3, <3>4 DEF Awake, Exited
    <3> QED BY <3>1, <3>5 DEF WorkerComing
  <2>2. ASSUME NEW w \in Sleeping,
               pc' = [pc EXCEPT ![c] = "postLink", ![w] = "relock"]
        PROVE  WorkerComing'
    <3>1. w \in Worker /\ w # c /\ pc[w] = "wait"
      BY DEF Sleeping
    <3>2. w \in Awake'
      BY <2>2, <3>1 DEF Awake
    <3> QED BY <3>2 DEF WorkerComing
  <2> QED BY <1>9, <2>1, <2>2, ZenonT(60) DEF PostSignal
<1>10. ASSUME NEW c \in Caller, PostLink(c) PROVE WorkerComing'
  <2>1. Awake' = Awake /\ Awake # {}
    BY <1>10, <1>a DEF PostLink, Awake, WorkerComing
  <2> QED BY <2>1 DEF WorkerComing
<1>11. CASE \/ CreateFails \/ DestroyCall \/ DestroyPost \/ DestroySpin
            \/ DestroySpun \/ DestroyGivesUp \/ DestroyFree
  BY <1>11, <1>a, WorkerComingFrame
     DEF CreateFails, DestroyCall, DestroyPost, DestroySpin, DestroySpun,
         DestroyGivesUp, DestroyFree, Awake
<1>12. CASE Finished \/ UNCHANGED vars
  BY <1>12, <1>a, WorkerComingFrame DEF Finished, vars, Awake
<1> QED
  BY <1>1, <1>2, <1>3, <1>4, <1>5, <1>6, <1>7, <1>8, <1>9, <1>10, <1>11, <1>12
     DEF Next, WorkerStep, PosterStep, Post, MainStep

LEMMA NextExitInv == ExitInv /\ [Next]_vars => ExitInv'
  BY NextTypeInv, NextMutexHeld, NextRoomChecked, NextWaitingCounts, NextPhases,
     NextExitPlace, NextExitCount, NextWorkerComing DEF ExitInv, CountInv

LEMMA ExitInvariance == Spec => []ExitInv
  BY InitExitInv, NextExitInv, PTL DEF Spec

-----------------------------------------------------------------------------
\* A queued task always finds a worker awake (thread_pool.c:161, :204-205).
THEOREM NoWakeupIsLost == Spec => []NoLostWakeup
<1>1. ExitInv => NoLostWakeup
  BY DEF ExitInv, WorkerComing, Awake, NoLostWakeup
<1> QED BY ExitInvariance, <1>1, PTL

\* The stack frame of thread_pool_destroy is referred to only while destroy
\* waits in it, and by one worker at most (thread_pool.c:77-94).
THEOREM FrameIsPinned == Spec => []FramePinned
<1>1. ExitInv => FramePinned
  <2> SUFFICES ASSUME ExitInv,
                      ExitTask \in Queued \/ ExitTaskHolders # {}
               PROVE  /\ Asked
                      /\ ExitTask \in Queued => ExitTaskHolders = {}
                      /\ \A v, w \in ExitTaskHolders : v = w
    BY DEF FramePinned, Asked
  <2>1. Asked
    BY DEF ExitInv, ExitPlace
  <2>2. CASE ExitTaskHolders = {}
    BY <2>1, <2>2
  <2>3. CASE queue = <<>> /\ \E w \in Worker : ExitTaskHolders = {w}
    BY <2>1, <2>3 DEF Queued
  <2> QED BY <2>1, <2>2, <2>3 DEF ExitInv, ExitPlace
<1> QED BY ExitInvariance, <1>1, PTL

\* destroy frees the pool when every worker has left it, every poster is
\* outside it and nothing is queued (thread_pool.c:99-102).
THEOREM PoolIsFreedWhenQuiet == Spec => []PoolFreedWhenQuiet
<1>1. ExitInv => PoolFreedWhenQuiet
  <2> SUFFICES ASSUME ExitInv, tp = "freed", pc[Main] # "initFailed"
               PROVE  /\ \A w \in Worker : pc[w] = "exited"
                      /\ \A p \in Poster : pc[p] = "idle"
                      /\ queue = <<>>
                      /\ mtx = Nobody
    BY DEF PoolFreedWhenQuiet
  <2> USE DEF ExitInv, CountInv, TypeInv, TypeOK
  <2>1. pc[Main] = "destroyed"
    BY DEF Phases
  <2>2. Exited = Worker
    BY <2>1 DEF ExitCount
  <2>3. \A w \in Worker : pc[w] = "exited"
    BY <2>2 DEF Exited
  <2>4. \A p \in Poster : pc[p] = "idle"
    BY <2>1 DEF Phases
  <2>5. ExitTask \notin Queued
    BY <2>1 DEF ExitPlace, Asked
  <2>6. Queued = {}
    BY <2>2, <2>5, WorkerAssumption DEF ExitCount
  <2>7. queue = <<>>
    BY <2>6, NothingQueued
  <2>8. mtx = Nobody
    BY <2>1, <2>3, <2>4, ZenonT(60) DEF MutexHeld
  <2> QED BY <2>3, <2>4, <2>7, <2>8
<1> QED BY ExitInvariance, <1>1, PTL

\* A destroy that returned early has told nobody to exit (thread_pool.c:88-90).
THEOREM DestroyGivesUpWhole == Spec => []GivesUpWhole
<1>1. ExitInv => GivesUpWhole
  BY DEF ExitInv, Phases, ExitCount, Exited, GivesUpWhole
<1> QED BY ExitInvariance, <1>1, PTL

\* thread_pool_destroy hurts no worker: what it shares, gives up and frees is
\* nobody's any more (thread_pool.c:73-105).
THEOREM DestroyIsSound == Spec => []DestroySound
  BY FrameIsPinned, PoolIsFreedWhenQuiet, DestroyGivesUpWhole, PTL DEF DestroySound

\* A worker obeys the exit task when all earlier tasks have been taken
\* (thread_pool.c:169-170, :213-214).
THEOREM ExitIsLast == Spec => ExitComesLast
<1>1. ExitInv /\ [Next]_vars =>
        [\A w \in Worker : pc[w] # "exited" /\ pc'[w] = "exited" => queue = <<>>]_vars
  <2> SUFFICES ASSUME ExitInv, Next, NEW w \in Worker,
                      pc[w] # "exited", pc'[w] = "exited"
               PROVE  queue = <<>>
    OBVIOUS
  <2> USE ThreadsAssumption DEF ExitInv, CountInv, TypeInv, TypeOK
  <2>1. WorkerExit(w)
    <3>1. ASSUME NEW v \in Worker,
                 CreateWorker(v) \/ SpuriousWakeup(v) \/ WorkerStep(v)
          PROVE  WorkerExit(w)
      BY <3>1 DEF CreateWorker, SpuriousWakeup, WorkerStep, WorkerLock,
         WorkerWait, WorkerRelock, WorkerTake, WorkerRun, WorkerFree, WorkerExit
    <3>2. ASSUME NEW c \in Caller, Post(c) PROVE FALSE
      BY <3>2 DEF Post, PostLock, PostOverflow, PostSignal, PostLink, Sleeping
    <3>3. ASSUME NEW p \in Poster,
                 \/ PostReturn(p) \/ PostRetry(p)
                 \/ \E t \in Task : Allocate(p, t)
          PROVE  FALSE
      BY <3>3 DEF PostReturn, PostRetry, Allocate
    <3>4. CASE \/ CreateFails \/ DestroyCall \/ DestroyPost \/ DestroySpin
               \/ DestroySpun \/ DestroyGivesUp \/ DestroyFree \/ Finished
      BY <3>4 DEF CreateFails, DestroyCall, DestroyPost, DestroySpin,
         DestroySpun, DestroyGivesUp, DestroyFree, Finished, vars
    <3> QED BY <3>1, <3>2, <3>3, <3>4 DEF Next, PosterStep, MainStep
  <2> QED BY <2>1 DEF WorkerExit, ExitPlace, ExitTaskHolders
<1> QED BY ExitInvariance, <1>1, PTL DEF Spec, ExitComesLast

-----------------------------------------------------------------------------
(* Who owns a task.  Its poster until it is linked, then the queue, then the *)
(* one worker that has unlinked it, and nobody once that worker freed it.    *)

TaskInv ==
    /\ TaskOwnership
    /\ \A t \in Task : mem[t] = "none" => ran[t] = 0

\* Steps that leave the queue and the heap alone and give no task to a thread.
LEMMA TaskFrame ==
  ASSUME TypeInv, TaskInv, UNCHANGED <<queue, mem, ran>>,
         \A x \in Thread, t \in Task :
            Uses(x, t)' => Uses(x, t) /\ (pc'[x] = "free" <=> pc[x] = "free")
  PROVE  TaskInv'
<1>1. Queued' = Queued
  BY DEF Queued
<1>2. \A i, j \in 1..Len(queue') : queue'[i] = queue'[j] => i = j
  BY DEF TaskInv, TaskOwnership
<1>3. ASSUME NEW t \in Task
      PROVE  /\ t \in Queued' => mem'[t] = "heap" /\ ran'[t] = 0
             /\ mem'[t] = "freed" => ran'[t] = 1
             /\ mem'[t] = "none" => ran'[t] = 0
  BY <1>1 DEF TaskInv, TaskOwnership
<1>4. ASSUME NEW t \in Task, NEW x \in Thread, Uses(x, t)'
      PROVE  /\ mem'[t] = "heap"
             /\ t \notin Queued'
             /\ \A y \in Thread \ {x} : ~Uses(y, t)'
             /\ ran'[t] = IF pc'[x] = "free" THEN 1 ELSE 0
  <2>1. Uses(x, t) /\ (pc'[x] = "free" <=> pc[x] = "free")
    BY <1>4
  <2>2. \A y \in Thread \ {x} : ~Uses(y, t)
    BY <2>1 DEF TaskInv, TaskOwnership
  <2> QED BY <1>1, <2>1, <2>2 DEF TaskInv, TaskOwnership
<1> QED BY <1>2, <1>3, <1>4 DEF TaskInv, TaskOwnership

LEMMA InitTaskInv == Init => TaskInv
  BY ThreadsAssumption, TasksAssumption
     DEF Init, TaskInv, TaskOwnership, Queued, Uses

LEMMA NextTaskInv == ExitInv /\ TaskInv /\ [Next]_vars => TaskInv'
<1> SUFFICES ASSUME ExitInv, TaskInv, [Next]_vars PROVE TaskInv'
  OBVIOUS
<1>a. TypeInv /\ TaskHeld
  BY DEF ExitInv, CountInv, TypeInv
<1> USE ThreadsAssumption, TasksAssumption
    DEF ExitInv, CountInv, TypeInv, TypeOK
<1>1. ASSUME NEW w \in Worker,
             \/ CreateWorker(w) \/ WorkerLock(w) \/ WorkerWait(w)
             \/ WorkerRelock(w) \/ WorkerExit(w) \/ SpuriousWakeup(w)
      PROVE  TaskInv'
  <2>1. /\ UNCHANGED <<queue, mem, ran>>
        /\ \A x \in Thread, t \in Task :
             Uses(x, t)' => Uses(x, t) /\ (pc'[x] = "free" <=> pc[x] = "free")
    BY <1>1 DEF Uses, CreateWorker, WorkerLock, WorkerWait, WorkerRelock,
       WorkerExit, SpuriousWakeup
  <2> QED BY <1>a, <2>1, TaskFrame
<1>2. ASSUME NEW w \in Worker, WorkerTake(w) PROVE TaskInv'
  <2>1. /\ Head(queue) = queue[1]
        /\ Len(queue) \in Nat \ {0}
        /\ Len(queue') = Len(queue) - 1
        /\ \A i \in 1..Len(queue') : queue'[i] = queue[i + 1]
    BY <1>2, HeadTailProperties, EmptySeq DEF WorkerTake
  <2>2. \A i, j \in 1..Len(queue) : queue[i] = queue[j] => i = j
    BY DEF TaskInv, TaskOwnership
  <2>3. /\ \A i, j \in 1..Len(queue') : queue'[i] = queue'[j] => i = j
        /\ Queued' \subseteq Queued \ {queue[1]}
        /\ queue[1] \in Queued
    <3>1. \A i \in 1..Len(queue') : i + 1 \in 1..Len(queue) /\ i + 1 # 1
      BY <2>1
    <3>2. \A i \in 1..Len(queue') : queue'[i] \in Queued /\ queue'[i] # queue[1]
      BY <2>1, <2>2, <3>1 DEF Queued
    <3>3. \A i, j \in 1..Len(queue') : queue'[i] = queue'[j] => i = j
      BY <2>1, <2>2, <3>1
    <3>4. Queued' \subseteq Queued \ {queue[1]}
      BY <3>2 DEF Queued
    <3>5. queue[1] \in Queued
      BY <2>1 DEF Queued
    <3> QED BY <3>3, <3>4, <3>5
  <2>4. /\ \A x \in Thread, t \in Task :
             Uses(x, t)' => Uses(x, t) \/ (x = w /\ t = queue[1])
        /\ \A x \in Thread \ {w} : pc'[x] = pc[x]
        /\ pc'[w] = "run" /\ pc[w] = "test"
        /\ mem' = mem /\ ran' = ran
    BY <1>2, <2>1 DEF WorkerTake, Uses
  <2>5. \A t \in Task : ~Uses(w, t)
    BY <2>4 DEF Uses
  <2>6. ASSUME NEW t \in Task, NEW x \in Thread, Uses(x, t)'
        PROVE  /\ mem'[t] = "heap"
               /\ t \notin Queued'
               /\ \A y \in Thread \ {x} : ~Uses(y, t)'
               /\ ran'[t] = IF pc'[x] = "free" THEN 1 ELSE 0
    <3>1. CASE t = queue[1]
      <4>1. t \in Queued
        BY <3>1, <2>3
      <4>2. \A y \in Thread : ~Uses(y, t)
        BY <4>1 DEF TaskInv, TaskOwnership
      <4>3. mem[t] = "heap" /\ ran[t] = 0
        BY <4>1 DEF TaskInv, TaskOwnership
      <4>4. x = w
        BY <2>4, <2>6, <4>2
      <4> QED BY <2>3, <2>4, <3>1, <4>2, <4>3, <4>4
    <3>2. CASE t # queue[1]
      <4>1. Uses(x, t) /\ x # w
        BY <2>4, <2>5, <2>6, <3>2
      <4>2. \A y \in Thread \ {x} : ~Uses(y, t)
        BY <4>1 DEF TaskInv, TaskOwnership
      <4>3. /\ mem[t] = "heap" /\ t \notin Queued
            /\ ran[t] = IF pc[x] = "free" THEN 1 ELSE 0
        BY <4>1 DEF TaskInv, TaskOwnership
      <4> QED BY <2>3, <2>4, <3>2, <4>1, <4>2, <4>3
    <3> QED BY <3>1, <3>2
  <2> QED BY <2>3, <2>4, <2>6 DEF TaskInv, TaskOwnership
<1>3. ASSUME NEW w \in Worker, WorkerRun(w) PROVE TaskInv'
  <2> DEFINE s == task[w]
  <2>1. /\ s \in Task /\ Uses(w, s) /\ pc[w] = "run"
        /\ mem' = mem /\ queue' = queue /\ Queued' = Queued
        /\ ran'[s] = ran[s] + 1 /\ \A t \in Task \ {s} : ran'[t] = ran[t]
        /\ pc'[w] = "free" /\ \A x \in Thread \ {w} : pc'[x] = pc[x]
        /\ task' = task
    BY <1>3 DEF WorkerRun, Uses, Queued
  <2>2. \A x \in Thread, t \in Task : Uses(x, t)' <=> Uses(x, t)
    BY <2>1 DEF Uses
  <2>3. /\ mem[s] = "heap" /\ s \notin Queued /\ ran[s] = 0
        /\ \A y \in Thread \ {w} : ~Uses(y, s)
    BY <2>1 DEF TaskInv, TaskOwnership
  <2>4. ASSUME NEW t \in Task, t # s
        PROVE  ~Uses(w, t)
    BY <2>4 DEF Uses
  <2>5. ASSUME NEW t \in Task, NEW x \in Thread, Uses(x, t)'
        PROVE  /\ mem'[t] = "heap"
               /\ t \notin Queued'
               /\ \A y \in Thread \ {x} : ~Uses(y, t)'
               /\ ran'[t] = IF pc'[x] = "free" THEN 1 ELSE 0
    <3>1. CASE t = s
      BY <2>1, <2>2, <2>3, <2>5, <3>1
    <3>2. CASE t # s
      <4>1. Uses(x, t) /\ x # w
        BY <2>2, <2>4, <2>5, <3>2
      <4>2. \A y \in Thread \ {x} : ~Uses(y, t)
        BY <4>1 DEF TaskInv, TaskOwnership
      <4>3. /\ mem[t] = "heap" /\ t \notin Queued
            /\ ran[t] = IF pc[x] = "free" THEN 1 ELSE 0
        BY <4>1 DEF TaskInv, TaskOwnership
      <4> QED BY <2>1, <2>2, <3>2, <4>1, <4>2, <4>3
    <3> QED BY <3>1, <3>2
  <2>6. ASSUME NEW t \in Task
        PROVE  /\ t \in Queued' => mem'[t] = "heap" /\ ran'[t] = 0
               /\ mem'[t] = "freed" => ran'[t] = 1
               /\ mem'[t] = "none" => ran'[t] = 0
    BY <2>1, <2>3 DEF TaskInv, TaskOwnership
  <2>7. \A i, j \in 1..Len(queue') : queue'[i] = queue'[j] => i = j
    BY <2>1 DEF TaskInv, TaskOwnership
  <2> QED BY <2>5, <2>6, <2>7 DEF TaskInv, TaskOwnership
<1>4. ASSUME NEW w \in Worker, WorkerFree(w) PROVE TaskInv'
  <2> DEFINE s == task[w]
  <2>1. /\ s \in Task /\ Uses(w, s) /\ pc[w] = "free"
        /\ ran' = ran /\ queue' = queue /\ Queued' = Queued
        /\ mem'[s] = "freed" /\ \A t \in Task \ {s} : mem'[t] = mem[t]
        /\ \A x \in Thread \ {w} : pc'[x] = pc[x]
    BY <1>4, <1>a DEF WorkerFree, Uses, Queued, TaskHeld
  <2>2. \A x \in Thread, t \in Task : Uses(x, t)' => Uses(x, t) /\ x # w
    BY <1>4 DEF Uses, WorkerFree
  <2>3. /\ s \notin Queued /\ ran[s] = 1
        /\ \A y \in Thread \ {w} : ~Uses(y, s)
    BY <2>1 DEF TaskInv, TaskOwnership
  <2>4. ASSUME NEW t \in Task, NEW x \in Thread, Uses(x, t)'
        PROVE  /\ mem'[t] = "heap"
               /\ t \notin Queued'
               /\ \A y \in Thread \ {x} : ~Uses(y, t)'
               /\ ran'[t] = IF pc'[x] = "free" THEN 1 ELSE 0
    <3>1. Uses(x, t) /\ x # w /\ t # s
      BY <2>2, <2>3, <2>4
    <3>2. \A y \in Thread \ {x} : ~Uses(y, t)
      BY <3>1 DEF TaskInv, TaskOwnership
    <3>3. /\ mem[t] = "heap" /\ t \notin Queued
          /\ ran[t] = IF pc[x] = "free" THEN 1 ELSE 0
      BY <3>1 DEF TaskInv, TaskOwnership
    <3> QED BY <2>1, <2>2, <3>1, <3>2, <3>3
  <2>5. ASSUME NEW t \in Task
        PROVE  /\ t \in Queued' => mem'[t] = "heap" /\ ran'[t] = 0
               /\ mem'[t] = "freed" => ran'[t] = 1
               /\ mem'[t] = "none" => ran'[t] = 0
    BY <2>1, <2>3 DEF TaskInv, TaskOwnership
  <2>6. \A i, j \in 1..Len(queue') : queue'[i] = queue'[j] => i = j
    BY <2>1 DEF TaskInv, TaskOwnership
  <2> QED BY <2>4, <2>5, <2>6 DEF TaskInv, TaskOwnership
<1>5. ASSUME NEW p \in Poster, NEW s \in Task, Allocate(p, s) PROVE TaskInv'
  <2>1. /\ mem[s] = "none" /\ ran[s] = 0
        /\ ran' = ran /\ queue' = queue /\ Queued' = Queued
        /\ mem'[s] = "heap" /\ \A t \in Task \ {s} : mem'[t] = mem[t]
        /\ pc'[p] = "post" /\ \A x \in Thread \ {p} : pc'[x] = pc[x]
    BY <1>5 DEF Allocate, Queued, TaskInv
  <2>2. \A x \in Thread, t \in Task :
          Uses(x, t)' <=> \/ Uses(x, t) /\ x # p
                          \/ x = p /\ t = s
    BY <1>5 DEF Allocate, Uses
  <2>3. s \notin Queued /\ \A x \in Thread : ~Uses(x, s)
    BY <2>1 DEF TaskInv, TaskOwnership
  <2>4. ASSUME NEW t \in Task, NEW x \in Thread, Uses(x, t)'
        PROVE  /\ mem'[t] = "heap"
               /\ t \notin Queued'
               /\ \A y \in Thread \ {x} : ~Uses(y, t)'
               /\ ran'[t] = IF pc'[x] = "free" THEN 1 ELSE 0
    <3>1. CASE t = s
      BY <2>1, <2>2, <2>3, <2>4, <3>1
    <3>2. CASE t # s
      <4>1. Uses(x, t) /\ x # p
        BY <2>2, <2>4, <3>2
      <4>2. \A y \in Thread \ {x} : ~Uses(y, t)
        BY <4>1 DEF TaskInv, TaskOwnership
      <4>3. /\ mem[t] = "heap" /\ t \notin Queued
            /\ ran[t] = IF pc[x] = "free" THEN 1 ELSE 0
        BY <4>1 DEF TaskInv, TaskOwnership
      <4> QED BY <2>1, <2>2, <3>2, <4>1, <4>2, <4>3
    <3> QED BY <3>1, <3>2
  <2>5. ASSUME NEW t \in Task
        PROVE  /\ t \in Queued' => mem'[t] = "heap" /\ ran'[t] = 0
               /\ mem'[t] = "freed" => ran'[t] = 1
               /\ mem'[t] = "none" => ran'[t] = 0
    BY <2>1, <2>3 DEF TaskInv, TaskOwnership
  <2>6. \A i, j \in 1..Len(queue') : queue'[i] = queue'[j] => i = j
    BY <2>1 DEF TaskInv, TaskOwnership
  <2> QED BY <2>4, <2>5, <2>6 DEF TaskInv, TaskOwnership
<1>6. ASSUME NEW p \in Poster, PostReturn(p) \/ PostRetry(p) PROVE TaskInv'
  <2>1. /\ UNCHANGED <<queue, mem, ran>>
        /\ \A x \in Thread, t \in Task :
             Uses(x, t)' => Uses(x, t) /\ (pc'[x] = "free" <=> pc[x] = "free")
    BY <1>6 DEF Uses, PostReturn, PostRetry
  <2> QED BY <1>a, <2>1, TaskFrame
<1>7. ASSUME NEW c \in Caller, PostLock(c) \/ PostOverflow(c) PROVE TaskInv'
  <2>1. /\ UNCHANGED <<queue, mem, ran>>
        /\ \A x \in Thread, t \in Task :
             Uses(x, t)' => Uses(x, t) /\ (pc'[x] = "free" <=> pc[x] = "free")
    BY <1>7 DEF Uses, PostLock, PostOverflow
  <2> QED BY <1>a, <2>1, TaskFrame
<1>8. ASSUME NEW c \in Caller, PostSignal(c) PROVE TaskInv'
  <2>1. /\ UNCHANGED <<queue, mem, ran>>
        /\ \A x \in Thread, t \in Task :
             Uses(x, t)' => Uses(x, t) /\ (pc'[x] = "free" <=> pc[x] = "free")
    <3>1. CASE pc' = [pc EXCEPT ![c] = "postLink"]
      BY <1>8, <3>1 DEF PostSignal, Uses
    <3>2. ASSUME NEW w \in Sleeping,
                 pc' = [pc EXCEPT ![c] = "postLink", ![w] = "relock"]
          PROVE  /\ UNCHANGED <<queue, mem, ran>>
                 /\ \A x \in Thread, t \in Task :
                      Uses(x, t)' => /\ Uses(x, t)
                                     /\ pc'[x] = "free" <=> pc[x] = "free"
      <4>1. w \in Worker /\ w # c /\ pc[w] = "wait"
        BY <1>8 DEF Sleeping, PostSignal
      <4> QED BY <1>8, <3>2, <4>1 DEF PostSignal, Uses
    <3> QED BY <1>8, <3>1, <3>2 DEF PostSignal
  <2> QED BY <1>a, <2>1, TaskFrame
<1>9. ASSUME NEW c \in Caller, PostLink(c) PROVE TaskInv'
  <2> DEFINE s == task[c]
  <2>0. s \in Task \cup {ExitTask}
    BY <1>9, <1>a DEF PostLink, TaskHeld
  <2>1. /\ Len(queue) \in Nat
        /\ Len(queue') = Len(queue) + 1
        /\ \A i \in 1..Len(queue) : queue'[i] = queue[i]
        /\ queue'[Len(queue) + 1] = s
    BY <1>9, <2>0, AppendProperties, LenProperties DEF PostLink
  <2>2. /\ mem' = mem /\ ran' = ran /\ task' = task
        /\ pc[c] = "postLink" /\ pc'[c] = "postOk"
        /\ \A x \in Thread \ {c} : pc'[x] = pc[x]
    BY <1>9 DEF PostLink
  <2>3. \A x \in Thread, t \in Task : Uses(x, t)' <=> Uses(x, t) /\ x # c
    BY <2>2 DEF Uses
  <2>4. s \notin Queued
    <3>1. CASE s \in Task
      BY <2>2, <3>1 DEF TaskInv, TaskOwnership, Uses
    <3>2. CASE s = ExitTask
      <4>1. c = Main
        BY <1>9, <3>2 DEF Phases
      <4> QED BY <2>2, <3>2, <4>1 DEF ExitPlace, Asked
    <3> QED BY <2>0, <3>1, <3>2
  <2>5. Queued' = Queued \cup {s}
    <3>1. 1..Len(queue') = 1..Len(queue) \cup {Len(queue) + 1}
      BY <2>1
    <3>2. Queued' = {queue'[i] : i \in 1..Len(queue)} \cup {s}
      BY <2>1, <3>1 DEF Queued
    <3>3. {queue'[i] : i \in 1..Len(queue)} = Queued
      BY <2>1, SMTT(60) DEF Queued
    <3> QED BY <3>2, <3>3
  <2>6. \A i, j \in 1..Len(queue') : queue'[i] = queue'[j] => i = j
    <3>1. \A i, j \in 1..Len(queue) : queue[i] = queue[j] => i = j
      BY DEF TaskInv, TaskOwnership
    <3>2. \A i \in 1..Len(queue) : queue[i] # s
      BY <2>4 DEF Queued
    <3> QED BY <2>1, <3>1, <3>2, SMTT(150)
  <2>7. ASSUME NEW t \in Task
        PROVE  /\ t \in Queued' => mem'[t] = "heap" /\ ran'[t] = 0
               /\ mem'[t] = "freed" => ran'[t] = 1
               /\ mem'[t] = "none" => ran'[t] = 0
    <3>1. t = s => mem[t] = "heap" /\ ran[t] = 0
      BY <2>2 DEF TaskInv, TaskOwnership, Uses
    <3> QED BY <2>2, <2>5, <3>1 DEF TaskInv, TaskOwnership
  <2>8. ASSUME NEW t \in Task, NEW x \in Thread, Uses(x, t)'
        PROVE  /\ mem'[t] = "heap"
               /\ t \notin Queued'
               /\ \A y \in Thread \ {x} : ~Uses(y, t)'
               /\ ran'[t] = IF pc'[x] = "free" THEN 1 ELSE 0
    <3>1. Uses(x, t) /\ x # c
      BY <2>3, <2>8
    <3>2. \A y \in Thread \ {x} : ~Uses(y, t)
      BY <3>1 DEF TaskInv, TaskOwnership
    <3>3. t # s
      BY <2>2, <3>1, <3>2 DEF Uses
    <3>4. /\ mem[t] = "heap" /\ t \notin Queued
          /\ ran[t] = IF pc[x] = "free" THEN 1 ELSE 0
      BY <3>1 DEF TaskInv, TaskOwnership
    <3> QED BY <2>2, <2>3, <2>5, <3>1, <3>2, <3>3, <3>4
  <2> QED BY <2>6, <2>7, <2>8 DEF TaskInv, TaskOwnership
<1>10. CASE \/ CreateFails \/ DestroyCall \/ DestroyPost \/ DestroySpin
            \/ DestroySpun \/ DestroyGivesUp \/ DestroyFree
  <2>1. /\ UNCHANGED <<queue, mem, ran>>
        /\ \A x \in Thread, t \in Task :
             Uses(x, t)' => Uses(x, t) /\ (pc'[x] = "free" <=> pc[x] = "free")
    BY <1>10 DEF Uses, CreateFails, DestroyCall, DestroyPost, DestroySpin,
       DestroySpun, DestroyGivesUp, DestroyFree
  <2> QED BY <1>a, <2>1, TaskFrame
<1>11. CASE Finished \/ UNCHANGED vars
  BY <1>11, <1>a, TaskFrame DEF Finished, vars, Uses
<1> QED
  BY <1>1, <1>2, <1>3, <1>4, <1>5, <1>6, <1>7, <1>8, <1>9, <1>10, <1>11
     DEF Next, WorkerStep, PosterStep, Post, MainStep

LEMMA TaskInvariance == Spec => [](ExitInv /\ TaskInv)
  BY InitExitInv, NextExitInv, InitTaskInv, NextTaskInv, PTL DEF Spec

\* A task is in one place at a time, is run once and freed once, by the worker
\* that ran it (thread_pool.c:213-235).
THEOREM TasksAreOwned == Spec => []TaskOwnership
  BY TaskInvariance, PTL DEF TaskInv

-----------------------------------------------------------------------------
(* The pool implements TaskPool.  A task is submitted when it is linked,    *)
(* started when it is unlinked and finished when its handler returns; the   *)
(* pool is closed when destroy has freed it.                                *)

\* Taking the first of two or more elements and dropping the last commute.
LEMMA TailOfFront ==
  ASSUME NEW S, NEW q \in Seq(S), NEW m \in Nat, Len(q) = m, m > 1
  PROVE  /\ SubSeq(q, 1, m - 1) # <<>>
         /\ Head(SubSeq(q, 1, m - 1)) = q[1]
         /\ SubSeq(Tail(q), 1, m - 2) = Tail(SubSeq(q, 1, m - 1))
<1> DEFINE f == SubSeq(q, 1, m - 1)
           g == SubSeq(Tail(q), 1, m - 2)
<1>1. /\ Tail(q) \in Seq(S) /\ Len(Tail(q)) = m - 1
      /\ \A i \in 1..m-1 : Tail(q)[i] = q[i + 1]
  <2>1. q # <<>>
    BY EmptySeq
  <2> QED BY <2>1, HeadTailProperties
<1>2. /\ f \in Seq(S) /\ Len(f) = m - 1
      /\ \A i \in 1..m-1 : f[i] = q[i]
  BY SubSeqProperties
<1>3. /\ g \in Seq(S) /\ Len(g) = m - 2
      /\ \A i \in 1..m-2 : g[i] = Tail(q)[i]
  BY <1>1, SubSeqProperties
<1> HIDE DEF f, g
<1>4. f # <<>>
  BY <1>2, EmptySeq
<1>5. /\ Head(f) = f[1]
      /\ Tail(f) \in Seq(S) /\ Len(Tail(f)) = m - 2
      /\ \A i \in 1..m-2 : Tail(f)[i] = f[i + 1]
  BY <1>2, <1>4, HeadTailProperties
<1>6. \A i \in 1..m-2 : g[i] = Tail(f)[i]
  BY <1>1, <1>2, <1>3, <1>5
<1>7. g = Tail(f)
  BY <1>3, <1>5, <1>6, SeqEqual
<1>8. Head(f) = q[1]
  BY <1>2, <1>5
<1> QED BY <1>4, <1>7, <1>8 DEF f, g

\* What a caller sees of the queue.
PendingPlace ==
    /\ ~Asked => Pending = queue
    /\ Asked /\ queue # <<>> => Pending = SubSeq(queue, 1, Len(queue) - 1)
    /\ queue = <<>> => Pending = <<>>

LEMMA PendingIsQueue == TypeInv /\ ExitPlace => PendingPlace
<1> SUFFICES ASSUME TypeInv, ExitPlace PROVE PendingPlace
  OBVIOUS
<1>1. queue # <<>> => Len(queue) \in Nat \ {0}
  BY LenProperties, EmptySeq DEF TypeInv, TypeOK
<1>2. ASSUME ~Asked, queue # <<>> PROVE queue[Len(queue)] # ExitTask
  <2>1. queue[Len(queue)] \in Queued
    BY <1>1, <1>2 DEF Queued
  <2> QED BY <1>2, <2>1 DEF ExitPlace
<1>3. ASSUME Asked, queue # <<>> PROVE queue[Len(queue)] = ExitTask
  BY <1>3 DEF ExitPlace
<1> QED BY <1>1, <1>2, <1>3 DEF Pending, PendingPlace

\* Steps that a caller of the pool cannot see.
LEMMA StutterFrame ==
  ASSUME queue' = queue, ran' = ran,
         \A w \in Worker, t \in Task :
            pc'[w] = "run" /\ task'[w] = t <=> pc[w] = "run" /\ task[w] = t,
         pc'[Main] = "destroyed" <=> pc[Main] = "destroyed",
         TypeInv, TypeInv'
  PROVE  UNCHANGED Abstract!vars
<1>1. Pending' = Pending
  BY DEF Pending
<1>2. Running' = Running
  <2>1. Running = {t \in Task : \E w \in Worker : pc[w] = "run" /\ task[w] = t}
    BY TasksAssumption DEF Running, TypeInv, TypeOK, TaskHeld
  <2>2. Running' = {t \in Task : \E w \in Worker : pc'[w] = "run" /\ task'[w] = t}
    BY TasksAssumption DEF Running, TypeInv, TypeOK, TaskHeld
  <2> QED BY <2>1, <2>2
<1>3. Executed' = Executed
  BY DEF Executed
<1>4. (pc[Main] = "destroyed")' = (pc[Main] = "destroyed")
  OBVIOUS
<1> QED BY <1>1, <1>2, <1>3, <1>4 DEF Abstract!vars

LEMMA InitAbstract == Init => Abstract!Init
<1> SUFFICES ASSUME Init PROVE Abstract!Init
  OBVIOUS
<1>1. Pending = <<>>
  BY DEF Init, Pending
<1>2. Running = {} /\ Executed = {}
  <2>1. \A w \in Worker : pc[w] # "run"
    BY DEF Init
  <2>2. \A t \in Task : ~(ran[t] > 0)
    BY DEF Init
  <2> QED BY <2>1, <2>2 DEF Running, Executed
<1>3. pc[Main] # "destroyed"
  BY ThreadsAssumption DEF Init
<1> QED BY <1>1, <1>2, <1>3 DEF Abstract!Init

LEMMA NextAbstract ==
  ExitInv /\ TaskInv /\ [Next]_vars => [Abstract!Next]_(Abstract!vars)
<1> SUFFICES ASSUME ExitInv, TaskInv, [Next]_vars
             PROVE  [Abstract!Next]_(Abstract!vars)
  OBVIOUS
<1>a. TypeInv /\ TypeInv' /\ TaskHeld /\ ExitPlace /\ ExitPlace' /\ ExitCount
  BY NextTypeInv, NextExitPlace DEF ExitInv, CountInv, TypeInv
<1>b. PendingPlace /\ PendingPlace'
  BY <1>a, PendingIsQueue, PTL
<1> USE ThreadsAssumption, TasksAssumption
    DEF ExitInv, CountInv, TypeInv, TypeOK
<1>1. ASSUME NEW w \in Worker,
             \/ CreateWorker(w) \/ WorkerLock(w) \/ WorkerWait(w)
             \/ WorkerRelock(w) \/ WorkerFree(w) \/ WorkerExit(w)
             \/ SpuriousWakeup(w)
      PROVE  UNCHANGED Abstract!vars
  BY <1>1, <1>a, StutterFrame, SMTT(60) DEF CreateWorker, WorkerLock, WorkerWait,
     WorkerRelock, WorkerFree, WorkerExit, SpuriousWakeup
<1>2. ASSUME NEW w \in Worker, WorkerTake(w)
      PROVE  Abstract!Start \/ UNCHANGED Abstract!vars
  <2>1. /\ Head(queue) = queue[1]
        /\ Len(queue) \in Nat \ {0}
        /\ queue' = Tail(queue)
        /\ Len(queue') = Len(queue) - 1
        /\ queue' \in Seq(Task \cup {ExitTask})
        /\ \A i \in 1..Len(queue') : queue'[i] = queue[i + 1]
    BY <1>2, HeadTailProperties, EmptySeq DEF WorkerTake
  <2>2. /\ Asked' <=> Asked
        /\ Executed' = Executed
        /\ (pc[Main] = "destroyed")' = (pc[Main] = "destroyed")
    BY <1>2 DEF WorkerTake, Asked, Executed
  <2>3. Running' = Running \cup ({queue[1]} \ {ExitTask})
    BY <1>2, <2>1 DEF WorkerTake, Running
  <2>4. CASE ~Asked
    <3>1. queue[1] # ExitTask
      <4>1. queue[1] \in Queued
        BY <2>1 DEF Queued
      <4> QED BY <2>4, <4>1 DEF ExitPlace
    <3>2. Pending = queue /\ Pending' = queue'
      BY <1>b, <2>2, <2>4 DEF PendingPlace
    <3> QED BY <1>2, <2>1, <2>2, <2>3, <3>1, <3>2
            DEF Abstract!Start, WorkerTake
  <2>5. CASE Asked /\ Len(queue) = 1
    <3>1. queue[1] = ExitTask
      BY <2>1, <2>5, <1>2 DEF ExitPlace, WorkerTake
    <3>2. queue' = <<>>
      BY <2>1, <2>5, EmptySeq
    <3>3. Pending = <<>> /\ Pending' = <<>>
      <4>1. Pending = SubSeq(queue, 1, 0)
        BY <1>2, <1>b, <2>5 DEF WorkerTake, PendingPlace
      <4>2. SubSeq(queue, 1, 0) = <<>>
        BY SubSeqProperties, EmptySeq
      <4>3. Pending' = <<>>
        BY <3>2 DEF Pending
      <4> QED BY <4>1, <4>2, <4>3
    <3> QED BY <2>2, <2>3, <3>1, <3>3 DEF Abstract!vars
  <2>6. CASE Asked /\ Len(queue) # 1
    <3> DEFINE m == Len(queue)
    <3>1. queue # <<>> /\ queue' # <<>> /\ m \in Nat /\ m > 1
      <4>1. m \in Nat /\ m > 1 /\ Len(queue') # 0
        BY <2>1, <2>6
      <4> QED BY <1>2, <4>1 DEF WorkerTake
    <3>2. queue[1] # ExitTask
      <4>1. \A i \in 1..m : queue[i] = ExitTask => i = m
        BY <2>6, <3>1 DEF ExitPlace
      <4> QED BY <3>1, <4>1
    <3>3. Pending = SubSeq(queue, 1, m - 1) /\ Pending' = SubSeq(queue', 1, m - 2)
      BY <1>b, <2>1, <2>2, <2>6, <3>1 DEF PendingPlace
    <3>4. Pending # <<>> /\ Head(Pending) = queue[1] /\ Pending' = Tail(Pending)
      BY <2>1, <3>1, <3>3, TailOfFront, SMTT(60)
    <3> QED BY <2>2, <2>3, <3>2, <3>4 DEF Abstract!Start
  <2> QED BY <2>4, <2>5, <2>6
<1>3. ASSUME NEW w \in Worker, WorkerRun(w)
      PROVE  \E t \in Task : Abstract!Finish(t)
  <2> DEFINE s == task[w]
  <2>1. /\ s \in Task /\ Uses(w, s) /\ pc[w] = "run"
        /\ queue' = queue
        /\ ran'[s] = ran[s] + 1 /\ \A t \in Task \ {s} : ran'[t] = ran[t]
        /\ pc'[w] = "free" /\ \A x \in Thread \ {w} : pc'[x] = pc[x]
        /\ task' = task
    BY <1>3 DEF WorkerRun, Uses
  <2>2. \A v \in Worker \ {w} : pc[v] = "run" => task[v] # s
    BY <2>1 DEF TaskInv, TaskOwnership, Uses
  <2>3. s \in Running /\ Running' = Running \ {s}
    <3>1. Running' \subseteq Running \ {s}
      BY <2>1, <2>2 DEF Running
    <3>2. Running \ {s} \subseteq Running'
      BY <2>1, <2>2 DEF Running
    <3>3. s \in Running
      BY <2>1 DEF Running
    <3> QED BY <3>1, <3>2, <3>3
  <2>4. Executed' = Executed \cup {s}
    BY <2>1 DEF Executed
  <2>5. Pending' = Pending
    BY <2>1 DEF Pending
  <2>6. (pc[Main] = "destroyed")' = (pc[Main] = "destroyed")
    BY <2>1
  <2> QED BY <2>1, <2>3, <2>4, <2>5, <2>6 DEF Abstract!Finish
<1>4. ASSUME NEW p \in Poster, NEW t \in Task, Allocate(p, t)
      PROVE  UNCHANGED Abstract!vars
  BY <1>4, <1>a, StutterFrame DEF Allocate
<1>5. ASSUME NEW p \in Poster, PostReturn(p) \/ PostRetry(p)
      PROVE  UNCHANGED Abstract!vars
  BY <1>5, <1>a, StutterFrame DEF PostReturn, PostRetry
<1>6. ASSUME NEW c \in Caller, PostLock(c) \/ PostOverflow(c)
      PROVE  UNCHANGED Abstract!vars
  BY <1>6, <1>a, StutterFrame DEF PostLock, PostOverflow
<1>7. ASSUME NEW c \in Caller, PostSignal(c) PROVE UNCHANGED Abstract!vars
  <2>1. CASE pc' = [pc EXCEPT ![c] = "postLink"]
    BY <1>7, <2>1, <1>a, StutterFrame DEF PostSignal
  <2>2. ASSUME NEW w \in Sleeping,
               pc' = [pc EXCEPT ![c] = "postLink", ![w] = "relock"]
        PROVE  UNCHANGED Abstract!vars
    <3>1. w \in Worker /\ w # c /\ pc[w] = "wait"
      BY <1>7 DEF Sleeping, PostSignal
    <3>2. \A v \in Worker : pc'[v] = "run" <=> pc[v] = "run"
      BY <1>7, <2>2, <3>1 DEF PostSignal
    <3>3. pc'[Main] = "destroyed" <=> pc[Main] = "destroyed"
      BY <1>7, <2>2, <3>1 DEF PostSignal
    <3> QED BY <1>7, <3>2, <3>3, <1>a, StutterFrame DEF PostSignal
  <2> QED BY <1>7, <2>1, <2>2 DEF PostSignal
<1>8. ASSUME NEW c \in Caller, PostLink(c)
      PROVE  UNCHANGED Abstract!vars \/ \E t \in Task : Abstract!Submit(t)
  <2> DEFINE s == task[c]
  <2>0. s \in Task \cup {ExitTask}
    BY <1>8, <1>a DEF PostLink, TaskHeld
  <2>1. /\ Len(queue) \in Nat
        /\ queue' = Append(queue, s)
        /\ queue' # <<>>
        /\ Len(queue') = Len(queue) + 1
        /\ \A i \in 1..Len(queue) : queue'[i] = queue[i]
        /\ queue'[Len(queue) + 1] = s
    BY <1>8, <2>0, AppendProperties, LenProperties DEF PostLink
  <2>2. /\ pc[c] = "postLink" /\ pc'[c] = "postOk" /\ task' = task
        /\ \A x \in Thread \ {c} : pc'[x] = pc[x]
        /\ lock' = lock
    BY <1>8 DEF PostLink
  <2>3. /\ Executed' = Executed /\ Running' = Running
    BY <1>8, <2>2 DEF PostLink, Executed, Running
  <2>4. pc[Main] # "destroyed" /\ pc'[Main] # "destroyed"
    BY <2>2 DEF Phases
  <2>5. ~Asked /\ Pending = queue
    BY <2>2, <1>b DEF Phases, Asked, PendingPlace
  <2>6. CASE c = Main
    <3>1. s = ExitTask
      BY <2>2, <2>6 DEF Phases
    <3>2. Pending' = SubSeq(queue', 1, Len(queue))
      BY <2>1, <3>1 DEF Pending
    <3>3. Pending' = queue
      <4>1. /\ queue' \in Seq(Task \cup {ExitTask})
            /\ queue \in Seq(Task \cup {ExitTask})
        BY <1>a
      <4>2. /\ SubSeq(queue', 1, Len(queue)) \in Seq(Task \cup {ExitTask})
            /\ Len(SubSeq(queue', 1, Len(queue))) = Len(queue)
            /\ \A i \in 1..Len(queue) :
                 SubSeq(queue', 1, Len(queue))[i] = queue'[i]
        BY <2>1, <4>1, SubSeqProperties
      <4> QED BY <2>1, <3>2, <4>1, <4>2, SeqEqual
    <3> QED BY <2>3, <2>4, <2>5, <3>3 DEF Abstract!vars
  <2>7. CASE c # Main
    <3>1. s \in Task
      BY <2>0, <2>7 DEF Phases
    <3>2. Pending' = queue'
      BY <2>1, <3>1 DEF Pending
    <3>3. /\ s \notin Queued /\ ran[s] = 0
          /\ \A v \in Worker : pc[v] = "run" => task[v] # s
      BY <2>2, <3>1, <2>7 DEF TaskInv, TaskOwnership, Uses
    <3>4. s \notin Abstract!InQueue \cup Running \cup Executed
      BY <2>5, <3>3 DEF Abstract!InQueue, Queued, Running, Executed
    <3>5. Abstract!Submit(s)
      BY <2>1, <2>3, <2>4, <2>5, <3>2, <3>4 DEF Abstract!Submit
    <3> QED BY <3>1, <3>5
  <2> QED BY <2>6, <2>7
<1>9. CASE \/ CreateFails \/ DestroyCall \/ DestroyPost \/ DestroySpin
           \/ DestroySpun \/ DestroyGivesUp
  BY <1>9, <1>a, StutterFrame DEF CreateFails, DestroyCall, DestroyPost,
     DestroySpin, DestroySpun, DestroyGivesUp
<1>10. ASSUME DestroyFree PROVE Abstract!Close
  <2>1. Exited = Worker
    BY <1>10, ExitCountFinite, <1>a DEF DestroyFree, ExitCount, Destroying, Obeyed
  <2>2. queue = <<>>
    <3>1. Queued = {}
      BY <1>10, <1>a, <2>1, WorkerAssumption
         DEF DestroyFree, ExitCount, ExitPlace, Asked
    <3> QED BY <3>1, NothingQueued
  <2>3. Pending = <<>> /\ Running = {}
    BY <2>1, <2>2 DEF Pending, Running, Exited
  <2>4. /\ Pending' = Pending /\ Executed' = Executed /\ Running' = Running
    BY <1>10 DEF DestroyFree, Pending, Executed, Running
  <2>5. pc[Main] # "destroyed" /\ pc'[Main] = "destroyed"
    BY <1>10 DEF DestroyFree
  <2> QED BY <2>3, <2>4, <2>5 DEF Abstract!Close
<1>11. CASE Finished \/ UNCHANGED vars
  BY <1>11, <1>a, StutterFrame DEF Finished, vars
<1> QED
  BY <1>1, <1>2, <1>3, <1>4, <1>5, <1>6, <1>7, <1>8, <1>9, <1>10, <1>11
     DEF Next, WorkerStep, PosterStep, Post, MainStep, Abstract!Next

\* Every step of the threads is a step of the abstract pool: a task is started
\* in the order of acceptance, once, and the pool closes when it owes nothing
\* (thread_pool.c:136-178, :180-238, :73-105).
THEOREM PoolImplementsTaskPool == Spec => Abstract!Spec
  BY InitAbstract, NextAbstract, TaskInvariance, PTL DEF Spec, Abstract!Spec
=============================================================================
