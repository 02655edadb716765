--------------------------- MODULE SysVSemaphore ---------------------------
(***************************************************************************)
(* The semaphore demo: processes of main2.c, started at any time with or   *)
(* without an argument and killed at any time, that share one System V     *)
(* semaphore.  A process started with an argument sets it to one.          *)
(*                                                                         *)
(* The kernel creates the semaphore with value 0, keeps for each process   *)
(* the adjustments of its SEM_UNDO operations, adds them when the process  *)
(* ends, and forgets those of all processes at SETVAL.                     *)
(***************************************************************************)
EXTENDS Integers

CONSTANTS
    Process,        \* processes that use the key
    Reinit          \* a process may be started with an argument again

ASSUME ReinitAssumption == Reinit \in BOOLEAN

VARIABLES
    val,            \* the value of the semaphore
    undo,           \* the adjustment kept for each process
    pc,             \* where the process is: "off", "initial", "acquire", "inside"
    initialised     \* ghost: some process has set the semaphore

vars == <<val, undo, pc, initialised>>

-----------------------------------------------------------------------------
(* Slips a programmer could make.  No behaviour of Spec takes one: each     *)
(* stands for an action below in a variant of this module in which the      *)
(* property named with it must fail.                                        *)

\* No SEM_UNDO in sem_p (FreeWhenEmpty).
AcquireForgotten(p) ==
    /\ pc[p] = "acquire"
    /\ val > 0
    /\ val' = val - 1
    /\ pc' = [pc EXCEPT ![p] = "inside"]
    /\ UNCHANGED <<undo, initialised>>

\* No SEM_UNDO in sem_v (Mutex).
ReleaseForgotten(p) ==
    /\ pc[p] = "inside"
    /\ val' = val + 1
    /\ pc' = [pc EXCEPT ![p] = "acquire"]
    /\ UNCHANGED <<undo, initialised>>

\* sem_v does not come after the critical section (Entered).
ReleaseSkipped(p) ==
    /\ pc[p] = "inside"
    /\ pc' = [pc EXCEPT ![p] = "acquire"]
    /\ UNCHANGED <<val, undo, initialised>>

-----------------------------------------------------------------------------
Init ==
    /\ val = 0
    /\ undo = [p \in Process |-> 0]
    /\ pc = [p \in Process |-> "off"]
    /\ initialised = FALSE

\* A start with an argument: only the first one, unless Reinit.
StartFirst(p) ==
    /\ pc[p] = "off"
    /\ Reinit \/ (~initialised /\ \A q \in Process : pc[q] # "initial")
    /\ pc' = [pc EXCEPT ![p] = "initial"]
    /\ UNCHANGED <<val, undo, initialised>>

Start(p) ==
    /\ pc[p] = "off"
    /\ pc' = [pc EXCEPT ![p] = "acquire"]
    /\ UNCHANGED <<val, undo, initialised>>

\* sem_initial: SETVAL, which drops the adjustments of all processes.
SemInitial(p) ==
    /\ pc[p] = "initial"
    /\ val' = 1
    /\ undo' = [q \in Process |-> 0]
    /\ initialised' = TRUE
    /\ pc' = [pc EXCEPT ![p] = "acquire"]

\* sem_p: waits while the value is zero.
SemP(p) ==
    /\ pc[p] = "acquire"
    /\ val > 0
    /\ val' = val - 1
    /\ undo' = [undo EXCEPT ![p] = @ + 1]
    /\ pc' = [pc EXCEPT ![p] = "inside"]
    /\ UNCHANGED initialised

\* sem_v at the end of the critical section.
SemV(p) ==
    /\ pc[p] = "inside"
    /\ val' = val + 1
    /\ undo' = [undo EXCEPT ![p] = @ - 1]
    /\ pc' = [pc EXCEPT ![p] = "acquire"]
    /\ UNCHANGED initialised

\* The loop has no exit: a process ends by a signal, wherever it is.
Killed(p) ==
    /\ pc[p] # "off"
    /\ val' = IF val + undo[p] < 0 THEN 0 ELSE val + undo[p]
    /\ undo' = [undo EXCEPT ![p] = 0]
    /\ pc' = [pc EXCEPT ![p] = "off"]
    /\ UNCHANGED initialised

Next ==
    \E p \in Process :
        \/ StartFirst(p) \/ Start(p) \/ SemInitial(p)
        \/ SemP(p) \/ SemV(p) \/ Killed(p)

Spec == Init /\ [][Next]_vars

\* The kernel gives a free semaphore to one that waits, and who is inside for
\* three seconds comes out.  Nobody has to be started or killed.
FairSpec ==
    /\ Spec
    /\ WF_vars(\E p \in Process : SemP(p))
    /\ \A p \in Process : WF_vars(SemV(p))

-----------------------------------------------------------------------------
(* Properties.                                                             *)

Inside == {p \in Process : pc[p] = "inside"}

\* The semaphore is binary and each adjustment undoes at most one operation.
TypeOK ==
    /\ val \in 0..1
    /\ undo \in [Process -> 0..1]
    /\ pc \in [Process -> {"off", "initial", "acquire", "inside"}]
    /\ initialised \in BOOLEAN

\* main2.c:78: what lies between sem_p and sem_v is a critical section.
Mutex == \A p, q \in Inside : p = q

\* A process that is killed, inside or on its way, takes the semaphore with it
\* neither way: when nobody is inside somebody can come in (main2.c:36, :49).
FreeWhenEmpty == initialised /\ Inside = {} => val = 1

\* When somebody waits for the semaphore somebody comes to be inside, or all who
\* waited are killed (main2.c:74, :83).
Entered ==
    initialised /\ (\E p \in Process : pc[p] = "acquire")
        ~> Inside # {} \/ \A p \in Process : pc[p] # "acquire"

\* The strengthening that is inductive: an adjustment is kept for those inside
\* alone, and the value counts who could still come in.
IInv ==
    /\ TypeOK
    /\ Mutex
    /\ \A p \in Process : undo[p] = IF pc[p] = "inside" THEN 1 ELSE 0
    /\ \A p, q \in Process : pc[p] = "initial" /\ pc[q] = "initial" => p = q
    /\ (\E p \in Process : pc[p] = "initial") => ~initialised
    /\ val = IF initialised /\ Inside = {} THEN 1 ELSE 0
    /\ ~initialised => Inside = {}
=============================================================================
