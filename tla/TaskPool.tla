------------------------------ MODULE TaskPool ------------------------------
(***************************************************************************)
(* What a pool of threads promises to the callers of demo/thread_pool:     *)
(* an accepted task is started in the order of acceptance, exactly once,   *)
(* on one thread, and when the pool is closed nothing that was accepted is *)
(* pending or still running.  How many threads there are, how they wait    *)
(* and how they are told to exit is not visible here.                      *)
(***************************************************************************)
EXTENDS Naturals, Sequences, FiniteSets

CONSTANT Task       \* the tasks callers may submit

VARIABLES
    pending,        \* accepted tasks that no thread has taken yet, oldest first
    running,        \* tasks whose handler a thread is about to run or runs
    finished,       \* tasks whose handler has returned
    closed          \* the pool has been destroyed

vars == <<pending, running, finished, closed>>

InQueue == {pending[i] : i \in 1..Len(pending)}

Init ==
    /\ pending = <<>>
    /\ running = {}
    /\ finished = {}
    /\ closed = FALSE

\* A caller hands over a task the pool has never seen.
Submit(t) ==
    /\ ~closed
    /\ t \notin InQueue \cup running \cup finished
    /\ pending' = Append(pending, t)
    /\ UNCHANGED <<running, finished, closed>>

\* A thread takes the oldest pending task.
Start ==
    /\ pending # <<>>
    /\ pending' = Tail(pending)
    /\ running' = running \cup {Head(pending)}
    /\ UNCHANGED <<finished, closed>>

Finish(t) ==
    /\ t \in running
    /\ running' = running \ {t}
    /\ finished' = finished \cup {t}
    /\ UNCHANGED <<pending, closed>>

\* The pool may close only when it owes nothing to anybody.
Close ==
    /\ ~closed
    /\ pending = <<>>
    /\ running = {}
    /\ closed' = TRUE
    /\ UNCHANGED <<pending, running, finished>>

Next ==
    \/ \E t \in Task : Submit(t) \/ Finish(t)
    \/ Start
    \/ Close

Spec == Init /\ [][Next]_vars

\* Nothing obliges a caller to submit or to close; the threads do their work.
FairSpec ==
    /\ Spec
    /\ WF_vars(Start)
    /\ \A t \in Task : WF_vars(Finish(t))
=============================================================================
