----------------------------- MODULE ThreadPool -----------------------------
(***************************************************************************)
(* The POSIX thread pool of demo/thread_pool: thread_pool.c with the       *)
(* wrappers of thread_mutex.c and thread_cond.c.                           *)
(*                                                                         *)
(* One main thread creates the pool and destroys it, posters allocate      *)
(* tasks and post them, workers run thread_pool_cycle.  A step of a thread *)
(* is what it does between two points where another thread can observe or  *)
(* change the state it uses: acquiring the mutex, the part of a critical   *)
(* section before a decision, the part after it that ends in the unlock,   *)
(* the handler, and the free of the task.                                  *)
(*                                                                         *)
(* The caller's obligations are those of main.c: a task is posted by the   *)
(* thread that allocated it, handlers terminate and do not post, and       *)
(* thread_pool_destroy is called by the thread that created the pool when  *)
(* no other thread is inside thread_task_post.                             *)
(***************************************************************************)
EXTENDS Integers, Sequences, FiniteSets

CONSTANTS
    Worker,         \* the tp->threads threads thread_pool_init creates
    Poster,         \* threads that post tasks
    Main,           \* the thread that calls thread_pool_init and _destroy
    Task,           \* tasks thread_task_alloc returns
    ExitTask,       \* the thread_task_t on the stack of thread_pool_destroy
    NoTask,         \* a null task pointer
    Nobody,         \* the owner of a free mutex
    MaxQueue        \* tp->max_queue

ASSUME WorkerAssumption == IsFiniteSet(Worker) /\ Worker # {}
ASSUME MaxQueueAssumption == MaxQueue \in Nat \ {0}
ASSUME ThreadsAssumption ==
    /\ Worker \cap Poster = {}
    /\ Main \notin Worker \cup Poster
    /\ Nobody \notin Worker \cup Poster \cup {Main}
ASSUME TasksAssumption ==
    /\ ExitTask # NoTask
    /\ ExitTask \notin Task
    /\ NoTask \notin Task

Caller == Poster \cup {Main}        \* the threads that call thread_task_post
Thread == Worker \cup Caller

VARIABLES
    tp,         \* the thread_pool_t: "none", "live" or "freed"
    mtx,        \* owner of tp->mtx, or Nobody
    queue,      \* tp->queue from first to last
    waiting,    \* tp->waiting
    pc,         \* where each thread is
    task,       \* the local task pointer of each thread
    mem,        \* the heap block of each task: "none", "heap" or "freed"
    n,          \* the loop counter of thread_pool_destroy
    lock,       \* the flag on the stack of thread_pool_destroy
    ran         \* how many times the handler of each task has been called

vars == <<tp, mtx, queue, waiting, pc, task, mem, n, lock, ran>>

WorkerPC == {"new", "lock", "test", "wait", "relock", "run", "free", "exited"}
PostPC   == {"post", "postTest", "postLink", "postOk", "postError"}
MainPC   == {"init", "initFailed", "destroy", "spin", "destroyed"}

Sleeping == {w \in Worker : pc[w] = "wait"}
Created  == {w \in Worker : pc[w] # "new"}

\* Workers that have counted themselves in tp->waiting and have no task yet.
Claiming == {w \in Worker : pc[w] \in {"test", "wait", "relock"}}

Queued == {queue[i] : i \in 1..Len(queue)}

-----------------------------------------------------------------------------
(* Slips a programmer could make in the functions below.  No behaviour of   *)
(* Spec takes one: each stands for an action in a variant of this module in *)
(* which the property named with it must fail.                              *)

\* Overflow test with <= for < (QueueSound).
PostSignalLate(c) ==
    /\ pc[c] = "postTest"
    /\ waiting <= MaxQueue
    /\ \/ /\ Sleeping = {}
          /\ pc' = [pc EXCEPT ![c] = "postLink"]
       \/ \E w \in Sleeping : pc' = [pc EXCEPT ![c] = "postLink", ![w] = "relock"]
    /\ UNCHANGED <<tp, mtx, queue, waiting, task, mem, n, lock, ran>>

\* No pthread_cond_signal (NoLostWakeup).
PostSignalSilent(c) ==
    /\ pc[c] = "postTest"
    /\ waiting < MaxQueue
    /\ pc' = [pc EXCEPT ![c] = "postLink"]
    /\ UNCHANGED <<tp, mtx, queue, waiting, task, mem, n, lock, ran>>

\* The caller frees the task it has posted (TaskOwnership).
PostReturnFrees(p) ==
    /\ pc[p] \in {"postOk", "postError"}
    /\ pc' = [pc EXCEPT ![p] = "idle"]
    /\ mem' = [mem EXCEPT ![task[p]] = "freed"]
    /\ task' = [task EXCEPT ![p] = NoTask]
    /\ UNCHANGED <<tp, mtx, queue, waiting, n, lock, ran>>

\* No waiting-- (DestroySound).
WorkerLockUncounted(w) ==
    /\ pc[w] = "lock"
    /\ mtx = Nobody
    /\ mtx' = w
    /\ pc' = [pc EXCEPT ![w] = "test"]
    /\ UNCHANGED <<tp, queue, waiting, task, mem, n, lock, ran>>

\* waiting-- inside the wait loop (QueueSound).
WorkerRelockCounts(w) ==
    /\ pc[w] = "relock"
    /\ mtx = Nobody
    /\ mtx' = w
    /\ waiting' = waiting - 1
    /\ pc' = [pc EXCEPT ![w] = "test"]
    /\ UNCHANGED <<tp, queue, task, mem, n, lock, ran>>

\* The newest task first (ExitComesLast, ImplementsTaskPool).
WorkerTakeLast(w) ==
    /\ pc[w] = "test"
    /\ queue # <<>>
    /\ task' = [task EXCEPT ![w] = queue[Len(queue)]]
    /\ queue' = SubSeq(queue, 1, Len(queue) - 1)
    /\ mtx' = Nobody
    /\ pc' = [pc EXCEPT ![w] = "run"]
    /\ UNCHANGED <<tp, waiting, mem, n, lock, ran>>

\* The flag is counted up instead of cleared (TypeOK, DestroyReturns).
WorkerExitCounts(w) ==
    /\ pc[w] = "run"
    /\ task[w] = ExitTask
    /\ lock' = lock + 1
    /\ task' = [task EXCEPT ![w] = NoTask]
    /\ pc' = [pc EXCEPT ![w] = "exited"]
    /\ UNCHANGED <<tp, mtx, queue, waiting, mem, n, ran>>

\* No spin between two exit tasks (DestroySound).
DestroySpinSkipped ==
    /\ pc[Main] = "postOk"
    /\ n' = n + 1
    /\ pc' = [pc EXCEPT ![Main] = "destroy"]
    /\ UNCHANGED <<tp, mtx, queue, waiting, task, mem, lock, ran>>

\* One worker too few is waited for (DestroySound).
DestroyFreeEarly ==
    /\ pc[Main] = "destroy"
    /\ n >= Cardinality(Worker) - 1
    /\ tp' = "freed"
    /\ task' = [task EXCEPT ![Main] = NoTask]
    /\ pc' = [pc EXCEPT ![Main] = "destroyed"]
    /\ UNCHANGED <<mtx, queue, waiting, mem, n, lock, ran>>

-----------------------------------------------------------------------------
(* thread_pool_init, from the calloc on: the workers start one by one and  *)
(* run at once; when pthread_create fails the pool is freed under them.    *)

Init ==
    /\ tp = "live"
    /\ mtx = Nobody
    /\ queue = <<>>
    /\ waiting = 0
    /\ pc = [x \in Thread |-> IF x \in Worker THEN "new"
                              ELSE IF x = Main THEN "init" ELSE "idle"]
    /\ task = [x \in Thread |-> NoTask]
    /\ mem = [t \in Task |-> "none"]
    /\ n = 0
    /\ lock = 0
    /\ ran = [t \in Task |-> 0]

\* One turn of the pthread_create loop; the last one returns the pool.
CreateWorker(w) ==
    /\ pc[Main] = "init"
    /\ pc[w] = "new"
    /\ pc' = [pc EXCEPT ![w] = "lock",
                        ![Main] = IF Created \cup {w} = Worker
                                  THEN "idle" ELSE "init"]
    /\ UNCHANGED <<tp, mtx, queue, waiting, task, mem, n, lock, ran>>

\* pthread_create fails: the pool is freed although workers may run on it.
CreateFails ==
    /\ pc[Main] = "init"
    /\ tp' = "freed"
    /\ pc' = [pc EXCEPT ![Main] = "initFailed"]
    /\ UNCHANGED <<mtx, queue, waiting, task, mem, n, lock, ran>>

-----------------------------------------------------------------------------
(* thread_task_alloc and thread_task_post.                                 *)

\* A poster allocates a task and calls thread_task_post with it.
Allocate(p, t) ==
    /\ pc[Main] = "idle"
    /\ pc[p] = "idle"
    /\ mem[t] = "none"
    /\ mem' = [mem EXCEPT ![t] = "heap"]
    /\ task' = [task EXCEPT ![p] = t]
    /\ pc' = [pc EXCEPT ![p] = "post"]
    /\ UNCHANGED <<tp, mtx, queue, waiting, n, lock, ran>>

PostLock(c) ==
    /\ pc[c] = "post"
    /\ mtx = Nobody
    /\ mtx' = c
    /\ pc' = [pc EXCEPT ![c] = "postTest"]
    /\ UNCHANGED <<tp, queue, waiting, task, mem, n, lock, ran>>

\* Overflow: unlock and return ERROR.
PostOverflow(c) ==
    /\ pc[c] = "postTest"
    /\ waiting >= MaxQueue
    /\ mtx' = Nobody
    /\ pc' = [pc EXCEPT ![c] = "postError"]
    /\ UNCHANGED <<tp, queue, waiting, task, mem, n, lock, ran>>

\* pthread_cond_signal comes before the task is linked, and wakes a waiting
\* worker if there is one; the worker then waits for the mutex.
PostSignal(c) ==
    /\ pc[c] = "postTest"
    /\ waiting < MaxQueue
    /\ \/ /\ Sleeping = {}
          /\ pc' = [pc EXCEPT ![c] = "postLink"]
       \/ \E w \in Sleeping : pc' = [pc EXCEPT ![c] = "postLink", ![w] = "relock"]
    /\ UNCHANGED <<tp, mtx, queue, waiting, task, mem, n, lock, ran>>

\* *last = task; last = &task->next; waiting++; unlock.
PostLink(c) ==
    /\ pc[c] = "postLink"
    /\ queue' = Append(queue, task[c])
    /\ waiting' = waiting + 1
    /\ mtx' = Nobody
    /\ pc' = [pc EXCEPT ![c] = "postOk"]
    /\ UNCHANGED <<tp, task, mem, n, lock, ran>>

Post(c) == PostLock(c) \/ PostOverflow(c) \/ PostSignal(c) \/ PostLink(c)

\* The poster's call has returned OK, or returned ERROR and the poster drops
\* the task without freeing it, as main.c does.
PostReturn(p) ==
    /\ pc[p] \in {"postOk", "postError"}
    /\ pc' = [pc EXCEPT ![p] = "idle"]
    /\ task' = [task EXCEPT ![p] = NoTask]
    /\ UNCHANGED <<tp, mtx, queue, waiting, mem, n, lock, ran>>

\* A more careful caller posts the rejected task again.
PostRetry(p) ==
    /\ pc[p] = "postError"
    /\ pc' = [pc EXCEPT ![p] = "post"]
    /\ UNCHANGED <<tp, mtx, queue, waiting, task, mem, n, lock, ran>>

-----------------------------------------------------------------------------
(* thread_pool_cycle.                                                      *)

\* Lock, and count the task this worker is going to take before it has one.
WorkerLock(w) ==
    /\ pc[w] = "lock"
    /\ mtx = Nobody
    /\ mtx' = w
    /\ waiting' = waiting - 1
    /\ pc' = [pc EXCEPT ![w] = "test"]
    /\ UNCHANGED <<tp, queue, task, mem, n, lock, ran>>

\* thread_cond_wait: release the mutex and sleep in one step.
WorkerWait(w) ==
    /\ pc[w] = "test"
    /\ queue = <<>>
    /\ mtx' = Nobody
    /\ pc' = [pc EXCEPT ![w] = "wait"]
    /\ UNCHANGED <<tp, queue, waiting, task, mem, n, lock, ran>>

\* POSIX lets a wait return without a signal.
SpuriousWakeup(w) ==
    /\ pc[w] = "wait"
    /\ pc' = [pc EXCEPT ![w] = "relock"]
    /\ UNCHANGED <<tp, mtx, queue, waiting, task, mem, n, lock, ran>>

\* The wait returns once it owns the mutex again, and the loop tests again.
WorkerRelock(w) ==
    /\ pc[w] = "relock"
    /\ mtx = Nobody
    /\ mtx' = w
    /\ pc' = [pc EXCEPT ![w] = "test"]
    /\ UNCHANGED <<tp, queue, waiting, task, mem, n, lock, ran>>

\* Unlink the first task and unlock.
WorkerTake(w) ==
    /\ pc[w] = "test"
    /\ queue # <<>>
    /\ task' = [task EXCEPT ![w] = Head(queue)]
    /\ queue' = Tail(queue)
    /\ mtx' = Nobody
    /\ pc' = [pc EXCEPT ![w] = "run"]
    /\ UNCHANGED <<tp, waiting, mem, n, lock, ran>>

\* task->handler(task->ctx) for a task of a caller.
WorkerRun(w) ==
    /\ pc[w] = "run"
    /\ task[w] \in Task
    /\ ran' = [ran EXCEPT ![task[w]] = @ + 1]
    /\ pc' = [pc EXCEPT ![w] = "free"]
    /\ UNCHANGED <<tp, mtx, queue, waiting, task, mem, n, lock>>

\* task->next = NULL; free(task); and round the loop.
WorkerFree(w) ==
    /\ pc[w] = "free"
    /\ mem' = [mem EXCEPT ![task[w]] = "freed"]
    /\ task' = [task EXCEPT ![w] = NoTask]
    /\ pc' = [pc EXCEPT ![w] = "lock"]
    /\ UNCHANGED <<tp, mtx, queue, waiting, n, lock, ran>>

\* thread_pool_exit_handler: clear the flag, and never return to the loop.
WorkerExit(w) ==
    /\ pc[w] = "run"
    /\ task[w] = ExitTask
    /\ lock' = 0
    /\ task' = [task EXCEPT ![w] = NoTask]
    /\ pc' = [pc EXCEPT ![w] = "exited"]
    /\ UNCHANGED <<tp, mtx, queue, waiting, mem, n, ran>>

-----------------------------------------------------------------------------
(* thread_pool_destroy.                                                    *)

\* The caller's precondition: nobody is inside thread_task_post.
DestroyCall ==
    /\ pc[Main] = "idle"
    /\ \A p \in Poster : pc[p] = "idle"
    /\ n' = 0
    /\ pc' = [pc EXCEPT ![Main] = "destroy"]
    /\ UNCHANGED <<tp, mtx, queue, waiting, task, mem, lock, ran>>

\* Head of the for loop: post the exit task once per thread.
DestroyPost ==
    /\ pc[Main] = "destroy"
    /\ n < Cardinality(Worker)
    /\ lock' = 1
    /\ task' = [task EXCEPT ![Main] = ExitTask]
    /\ pc' = [pc EXCEPT ![Main] = "post"]
    /\ UNCHANGED <<tp, mtx, queue, waiting, mem, n, ran>>

\* thread_task_post returned OK: spin on the flag.
DestroySpin ==
    /\ pc[Main] = "postOk"
    /\ pc' = [pc EXCEPT ![Main] = "spin"]
    /\ UNCHANGED <<tp, mtx, queue, waiting, task, mem, n, lock, ran>>

DestroySpun ==
    /\ pc[Main] = "spin"
    /\ lock = 0
    /\ n' = n + 1
    /\ pc' = [pc EXCEPT ![Main] = "destroy"]
    /\ UNCHANGED <<tp, mtx, queue, waiting, task, mem, lock, ran>>

\* thread_task_post returned ERROR: destroy returns with the pool still alive.
DestroyGivesUp ==
    /\ pc[Main] = "postError"
    /\ task' = [task EXCEPT ![Main] = NoTask]
    /\ pc' = [pc EXCEPT ![Main] = "idle"]
    /\ UNCHANGED <<tp, mtx, queue, waiting, mem, n, lock, ran>>

\* The loop is over: destroy the condition and the mutex, free the pool.
DestroyFree ==
    /\ pc[Main] = "destroy"
    /\ n = Cardinality(Worker)
    /\ tp' = "freed"
    /\ task' = [task EXCEPT ![Main] = NoTask]
    /\ pc' = [pc EXCEPT ![Main] = "destroyed"]
    /\ UNCHANGED <<mtx, queue, waiting, mem, n, lock, ran>>

\* The program has nothing left to do once the pool is gone.
Finished ==
    /\ pc[Main] \in {"destroyed", "initFailed"}
    /\ UNCHANGED vars

-----------------------------------------------------------------------------
WorkerStep(w) ==
    \/ WorkerLock(w) \/ WorkerWait(w) \/ WorkerRelock(w) \/ WorkerTake(w)
    \/ WorkerRun(w) \/ WorkerFree(w) \/ WorkerExit(w)

PosterStep(p) == Post(p) \/ PostReturn(p)

MainStep ==
    \/ Post(Main) \/ DestroyPost \/ DestroySpin \/ DestroySpun
    \/ DestroyGivesUp \/ DestroyFree

Next ==
    \/ \E w \in Worker : CreateWorker(w) \/ WorkerStep(w) \/ SpuriousWakeup(w)
    \/ \E p \in Poster : PosterStep(p) \/ PostRetry(p)
                         \/ \E t \in Task : Allocate(p, t)
    \/ CreateFails \/ MainStep \/ DestroyCall \/ Finished

Spec == Init /\ [][Next]_vars

\* Every thread that can run does, and a thread that finds the mutex free
\* again and again gets it.  Nothing makes a caller post or destroy.
Fairness ==
    /\ \A w \in Worker :
          /\ WF_vars(CreateWorker(w))
          /\ WF_vars(WorkerStep(w))
          /\ SF_vars(WorkerLock(w))
          /\ SF_vars(WorkerRelock(w))
    /\ \A c \in Caller : WF_vars(Post(c)) /\ SF_vars(PostLock(c))
    /\ \A p \in Poster : WF_vars(PostReturn(p))
    /\ WF_vars(MainStep)

FairSpec == Spec /\ Fairness

-----------------------------------------------------------------------------
(* Properties.                                                             *)

Pointer == Task \cup {ExitTask, NoTask}

\* Every variable holds a value the code can give it (thread_pool.h:20-46).
TypeOK ==
    /\ tp \in {"live", "freed"}
    /\ mtx \in Thread \cup {Nobody}
    /\ queue \in Seq(Task \cup {ExitTask})
    /\ waiting \in Int
    /\ pc \in [Thread -> WorkerPC \cup PostPC \cup MainPC \cup {"idle"}]
    /\ \A w \in Worker : pc[w] \in WorkerPC
    /\ \A p \in Poster : pc[p] \in PostPC \cup {"idle"}
    /\ pc[Main] \in PostPC \cup MainPC \cup {"idle"}
    /\ task \in [Thread -> Pointer]
    /\ mem \in [Task -> {"none", "heap", "freed"}]
    /\ n \in Nat
    /\ lock \in {0, 1}
    /\ ran \in [Task -> Nat]

\* tp->waiting is decremented before the wait and incremented after the link
\* (thread_pool.c:202 and :172): it counts the queued tasks less the workers
\* that have announced they will take one, whatever the interleaving.
WaitingCounts == waiting = Len(queue) - Cardinality(Claiming)

\* The capacity the code enforces (thread_pool.c:147): the announced workers
\* come on top of max_queue.
QueueBound == Len(queue) <= MaxQueue + Cardinality(Worker)

\* What the counter, the queue and the overflow test mean to each other.
QueueSound == WaitingCounts /\ QueueBound

\* The capacity thread_pool.h:45 states: "how many tasks the task queue can
\* hold at most".  The test of thread_pool.c:147 does not keep it.
QueueHoldsMaxQueue == Len(queue) <= MaxQueue

\* The signal sent before the link (thread_pool.c:161) is not lost: while a
\* task is queued some worker is awake and will come to test the queue.
NoLostWakeup ==
    queue # <<>> => \E w \in Worker : pc[w] \notin {"new", "wait", "exited"}

\* Threads that are about to use a task through their local pointer.
Uses(x, t) ==
    /\ task[x] = t
    /\ pc[x] \in {"post", "postTest", "postLink", "postError", "run", "free"}

\* A task is in one place at a time, its memory is there as long as it is in
\* the queue or a thread uses it, and it is freed after its handler has run,
\* once (thread_pool.c:213-235).
TaskOwnership ==
    /\ \A i, j \in 1..Len(queue) : queue[i] = queue[j] => i = j
    /\ \A t \in Task :
          /\ t \in Queued => mem[t] = "heap" /\ ran[t] = 0
          /\ \A x \in Thread : Uses(x, t) =>
                /\ mem[t] = "heap"
                /\ t \notin Queued
                /\ \A y \in Thread \ {x} : ~Uses(y, t)
                /\ ran[t] = IF pc[x] = "free" THEN 1 ELSE 0
          /\ mem[t] = "freed" => ran[t] = 1

\* The exit task and its flag live on the stack of thread_pool_destroy, and
\* workers hold pointers to them: the queue or a worker refers to the frame
\* only while destroy is inside it, waiting for this very task
\* (thread_pool.c:77-94).
ExitTaskHolders == {w \in Worker : task[w] = ExitTask}
FramePinned ==
    ExitTask \in Queued \/ ExitTaskHolders # {} =>
        /\ pc[Main] \in {"postOk", "spin"}
        /\ lock = 1
        /\ ExitTask \in Queued => ExitTaskHolders = {}
        /\ \A v, w \in ExitTaskHolders : v = w

\* The pool is freed by destroy when every worker has left it and nothing is
\* queued (thread_pool.c:99-102).  Only a failed thread_pool_init frees it
\* under workers that run (thread_pool.c:63).
PoolFreedWhenQuiet ==
    tp = "freed" /\ pc[Main] # "initFailed" =>
        /\ \A w \in Worker : pc[w] = "exited"
        /\ \A p \in Poster : pc[p] = "idle"
        /\ queue = <<>>
        /\ mtx = Nobody

\* When thread_pool_destroy gives up because the queue is full
\* (thread_pool.c:88-90), no worker has been told to exit yet: the pool its
\* caller is left with is fully staffed and destroy may be called again.
GivesUpWhole ==
    pc[Main] = "idle" => \A w \in Worker : pc[w] \notin {"new", "exited"}

\* thread_pool_destroy shares its frame, gives up and frees the pool only when
\* no worker can be hurt by it (thread_pool.c:73-105).
DestroySound == FramePinned /\ PoolFreedWhenQuiet /\ GivesUpWhole

\* A worker obeys the exit task only when the tasks accepted before it have
\* all been taken (FIFO order of thread_pool.c:169-170 and :213-214).
ExitComesLast ==
    [][\A w \in Worker : pc[w] # "exited" /\ pc'[w] = "exited" => queue = <<>>]_vars

\* thread_pool_destroy returns: the spin at thread_pool.c:92 ends each time.
DestroyReturns == pc[Main] = "destroy" ~> pc[Main] \in {"destroyed", "idle"}

-----------------------------------------------------------------------------
(* The pool implements TaskPool.                                           *)

\* The callers' tasks in the queue: the exit task, if it is there, comes last.
Pending  ==
    IF queue # <<>> /\ queue[Len(queue)] = ExitTask
    THEN SubSeq(queue, 1, Len(queue) - 1)
    ELSE queue
Running  == {task[w] : w \in {v \in Worker : pc[v] = "run"}} \ {ExitTask}
Executed == {t \in Task : ran[t] > 0}

Abstract == INSTANCE TaskPool WITH
    pending <- Pending, running <- Running, finished <- Executed,
    closed <- pc[Main] = "destroyed"

\* Every step of the threads is a step of the abstract pool or changes nothing
\* a caller can see, and the threads keep its promise of progress: every task
\* thread_task_post has accepted is run in the end.
ImplementsTaskPool == Abstract!FairSpec
=============================================================================
