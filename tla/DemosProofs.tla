---------------------------- MODULE DemosProofs ----------------------------
(***************************************************************************)
(* Proofs about the small demos: the semaphore, which excludes and         *)
(* survives the death of its holders when it is set only once, the message *)
(* queue, the two thread demos, and the byte servers over poll and over    *)
(* select, each for any values of its constants.                           *)
(***************************************************************************)
EXTENDS MCDemos, FiniteSetTheorems, SequenceTheorems, TLAPS

-----------------------------------------------------------------------------
(* The semaphore.                                                          *)

\* The initial states satisfy the invariant: nobody has been started.
LEMMA InitIInv == Init => IInv
<1>1. SUFFICES ASSUME Init
               PROVE  IInv
  OBVIOUS
<1>2. val \in 0..1 /\ undo \in [Process -> 0..1]
  BY <1>1 DEF Init
<1>3. pc \in [Process -> {"off", "initial", "acquire", "inside"}]
  BY <1>1 DEF Init
<1>4. Inside = {}
  BY <1>1 DEF Init, Inside
<1>5. QED
  BY <1>1, <1>2, <1>3, <1>4, ZenonT(60) DEF Init, IInv, TypeOK, Mutex

\* Starting a process puts it before the semaphore and touches nothing else
\* (main2.c:61-67).
LEMMA StartKeepsIInv ==
    ASSUME IInv, ~Reinit, NEW p \in Process, StartFirst(p) \/ Start(p)
    PROVE  IInv'
  BY DEF IInv, TypeOK, Mutex, Inside, StartFirst, Start

\* SETVAL comes while nobody is inside, so that it forgets no adjustment
\* (main2.c:18-27).
LEMMA SemInitialKeepsIInv ==
    ASSUME IInv, NEW p \in Process, SemInitial(p)
    PROVE  IInv'
  BY DEF IInv, TypeOK, Mutex, Inside, SemInitial

\* Who gets past sem_p finds nobody inside (main2.c:31-42).
LEMMA SemPKeepsIInv ==
    ASSUME IInv, NEW p \in Process, SemP(p)
    PROVE  IInv'
<1>1. initialised /\ Inside = {} /\ val = 1
  BY DEF IInv, SemP
<1>2. Inside' = {p}
  BY <1>1 DEF IInv, TypeOK, Inside, SemP
<1>3. undo[p] = 0
  BY DEF IInv, SemP
<1>4. val' = 0 /\ undo' = [undo EXCEPT ![p] = 1]
  BY <1>1, <1>3 DEF SemP
<1>5. TypeOK'
  BY <1>4 DEF IInv, TypeOK, SemP
<1>6. QED
  BY <1>1, <1>2, <1>4, <1>5 DEF IInv, TypeOK, Mutex, Inside, SemP

\* Who leaves was alone, and gives back what he took (main2.c:44-55).
LEMMA SemVKeepsIInv ==
    ASSUME IInv, NEW p \in Process, SemV(p)
    PROVE  IInv'
<1>1. Inside = {p} /\ initialised /\ val = 0 /\ undo[p] = 1
  BY DEF IInv, Mutex, Inside, SemV
<1>2. Inside' = {}
  BY <1>1 DEF IInv, TypeOK, Inside, SemV
<1>3. val' = 1 /\ undo' = [undo EXCEPT ![p] = 0]
  BY <1>1 DEF IInv, TypeOK, SemV
<1>4. TypeOK'
  BY <1>3 DEF IInv, TypeOK, SemV
<1>5. QED
  BY <1>1, <1>2, <1>3, <1>4 DEF IInv, TypeOK, Mutex, Inside, SemV

\* The adjustment of a process that dies is what it held (main2.c:36, :49).
LEMMA KilledKeepsIInv ==
    ASSUME IInv, NEW p \in Process, Killed(p)
    PROVE  IInv'
<1>1. undo' = [undo EXCEPT ![p] = 0] /\ pc' = [pc EXCEPT ![p] = "off"]
  BY DEF Killed
<1>2. CASE pc[p] = "inside"
  <2>1. Inside = {p} /\ initialised /\ val = 0 /\ undo[p] = 1
    BY <1>2 DEF IInv, Mutex, Inside
  <2>2. Inside' = {} /\ val' = 1
    BY <1>1, <2>1 DEF IInv, TypeOK, Inside, Killed
  <2>3. TypeOK'
    BY <1>1, <2>2 DEF IInv, TypeOK, Killed
  <2>4. QED
    BY <1>1, <2>1, <2>2, <2>3 DEF IInv, TypeOK, Mutex, Inside, Killed
<1>3. CASE pc[p] # "inside"
  <2>1. undo[p] = 0 /\ val \in 0..1
    BY <1>3 DEF IInv, TypeOK
  <2>2. Inside' = Inside /\ val' = val
    BY <1>1, <1>3, <2>1 DEF IInv, TypeOK, Inside, Killed
  <2>3. TypeOK'
    BY <1>1, <2>2 DEF IInv, TypeOK, Killed
  <2>4. QED
    BY <1>1, <1>3, <2>1, <2>2, <2>3 DEF IInv, TypeOK, Mutex, Inside, Killed
<1>4. QED
  BY <1>2, <1>3

\* Every step keeps the invariant, as long as no start sets the semaphore
\* again.
LEMMA NextIInv ==
    ASSUME IInv, ~Reinit, [Next]_vars
    PROVE  IInv'
<1>1. CASE UNCHANGED vars
  BY <1>1 DEF IInv, TypeOK, Mutex, Inside, vars
<1>2. CASE Next
  <2>1. PICK p \in Process :
          \/ StartFirst(p) \/ Start(p) \/ SemInitial(p)
          \/ SemP(p) \/ SemV(p) \/ Killed(p)
    BY <1>2 DEF Next
  <2>2. QED
    BY <2>1, StartKeepsIInv, SemInitialKeepsIInv, SemPKeepsIInv,
       SemVKeepsIInv, KilledKeepsIInv
<1>3. QED
  BY <1>1, <1>2

\* The semaphore is binary and no adjustment undoes more than one operation, if
\* the semaphore is set once (main2.c:31-55).
THEOREM SemaphoreIsBinary ==
    ASSUME ~Reinit
    PROVE  Spec => []TypeOK
<1>1. IInv /\ [Next]_vars => IInv'
  BY NextIInv
<1>2. IInv => TypeOK
  BY DEF IInv
<1>3. QED
  BY InitIInv, <1>1, <1>2, PTL DEF Spec

\* Processes that set the semaphore once never meet between sem_p and sem_v,
\* however many there are and whenever they are killed (main2.c:73-86).
THEOREM SemaphoreExcludes ==
    ASSUME ~Reinit
    PROVE  Spec => []Mutex
<1>1. IInv /\ [Next]_vars => IInv'
  BY NextIInv
<1>2. IInv => Mutex
  BY DEF IInv
<1>3. QED
  BY InitIInv, <1>1, <1>2, PTL DEF Spec

\* Nor does a killed process keep the others out: SEM_UNDO gives the semaphore
\* back exactly once (main2.c:36, :49).
THEOREM SemaphoreSurvives ==
    ASSUME ~Reinit
    PROVE  Spec => []FreeWhenEmpty
<1>1. IInv /\ [Next]_vars => IInv'
  BY NextIInv
<1>2. IInv => FreeWhenEmpty
  BY DEF IInv, FreeWhenEmpty
<1>3. QED
  BY InitIInv, <1>1, <1>2, PTL DEF Spec

-----------------------------------------------------------------------------
(* The message queue.                                                      *)

QueueMessage == [from : Sender, line : Nat, exit : BOOLEAN]

QueueTyped ==
    /\ queue \in Seq(Seq(QueueMessage))
    /\ key \in 0..Len(queue)
    /\ removed \subseteq 1..Len(queue)
    /\ at \in [Queue!Party -> {"off", "use", "remove", "done", "failed"}]
    /\ id \in [Queue!Party -> 0..Len(queue)]
    /\ sent \in [Sender -> Nat]
    /\ printed \in [Receiver -> Seq(QueueMessage)]

\* A process has a queue from its msgget on, and nothing before.
QueueGot ==
    /\ key \notin removed
    /\ \A p \in Queue!Party : at[p] = "off" <=> id[p] = 0
    /\ \A s \in Sender : at[s] = "off" => sent[s] = 0
    /\ \A r \in Receiver : at[r] = "off" => printed[r] = <<>>

\* A queue holds messages of its senders, in their order.
QueueOrdered ==
    \A q \in 1..Len(queue) : \A k \in 1..Len(queue[q]) :
        LET m == queue[q][k] IN
        /\ id[m.from] = q /\ m.line \in 1..sent[m.from]
        /\ \A j \in 1..(k - 1) : queue[q][j].from = m.from => queue[q][j].line < m.line

\* What is printed came before what is in the queue, and was printed in order.
PrintedOrdered ==
    \A r \in Receiver : \A k \in 1..Len(printed[r]) :
        LET m == printed[r][k] IN
        /\ id[m.from] = id[r] /\ m.line \in 1..sent[m.from]
        /\ \A j \in 1..(k - 1) : printed[r][j].from = m.from => printed[r][j].line < m.line
        /\ \A j \in 1..Len(queue[id[r]]) :
              queue[id[r]][j].from = m.from => m.line < queue[id[r]][j].line

PrintedOnce ==
    \A r, u \in Receiver : r # u =>
        \A k \in 1..Len(printed[r]), j \in 1..Len(printed[u]) :
            printed[r][k].from = printed[u][j].from => printed[r][k].line # printed[u][j].line

Queued(s, n) ==
    \E k \in 1..Len(queue[id[s]]) : queue[id[s]][k].from = s /\ queue[id[s]][k].line = n

Printed(s, n) ==
    \E r \in Receiver : \E k \in 1..Len(printed[r]) :
        printed[r][k].from = s /\ printed[r][k].line = n

\* What is sent is printed, waits, or went with its queue.
NoneLost ==
    \A s \in Sender : id[s] \notin removed =>
        \A n \in 1..sent[s] : Queued(s, n) \/ Printed(s, n)

\* Before a message of a sender, those it sent before were printed.
NoGap ==
    \A r \in Receiver : \A k \in 1..Len(printed[r]) :
        \A n \in 1..(printed[r][k].line - 1) : Printed(printed[r][k].from, n)

ExitLast ==
    \A r \in Receiver \ Single : at[r] \in {"remove", "done"} =>
        printed[r] # <<>> /\ printed[r][Len(printed[r])].exit

QueueInv ==
    /\ QueueTyped /\ QueueGot /\ QueueOrdered /\ PrintedOrdered /\ PrintedOnce
    /\ NoneLost /\ NoGap /\ ExitLast

\* What the types say of the messages at their places.
LEMMA QueueFacts ==
  ASSUME QueueInv
  PROVE  /\ Len(queue) \in Nat
         /\ \A q \in 1..Len(queue) :
               /\ queue[q] \in Seq(QueueMessage) /\ Len(queue[q]) \in Nat
               /\ \A k \in 1..Len(queue[q]) :
                     /\ queue[q][k].from \in Sender /\ queue[q][k].line \in Nat
                     /\ sent[queue[q][k].from] # 0
         /\ \A r \in Receiver :
               /\ printed[r] \in Seq(QueueMessage) /\ Len(printed[r]) \in Nat
               /\ \A k \in 1..Len(printed[r]) :
                     /\ printed[r][k].from \in Sender /\ printed[r][k].line \in Nat
                     /\ sent[printed[r][k].from] # 0
         /\ \A p \in Queue!Party : at[p] # "off" => id[p] \in 1..Len(queue)
         /\ \A r \in Receiver : printed[r] # <<>> => id[r] \in 1..Len(queue)
         /\ Sender \subseteq Queue!Party /\ Receiver \subseteq Queue!Party
<1>1. Len(queue) \in Nat
  BY LenProperties DEF QueueInv, QueueTyped
<1>2. Sender \subseteq Queue!Party /\ Receiver \subseteq Queue!Party
  BY DEF Queue!Party
<1>3. \A p \in Queue!Party : at[p] # "off" => id[p] \in 1..Len(queue)
  BY <1>1 DEF QueueInv, QueueTyped, QueueGot
<1>4. ASSUME NEW q \in 1..Len(queue)
      PROVE  /\ queue[q] \in Seq(QueueMessage) /\ Len(queue[q]) \in Nat
             /\ \A k \in 1..Len(queue[q]) :
                   /\ queue[q][k].from \in Sender /\ queue[q][k].line \in Nat
                   /\ sent[queue[q][k].from] # 0
  <2>1. queue[q] \in Seq(QueueMessage)
    BY ElementOfSeq DEF QueueInv, QueueTyped
  <2>2. \A k \in 1..Len(queue[q]) : queue[q][k] \in QueueMessage
    BY <2>1, ElementOfSeq
  <2>3. \A k \in 1..Len(queue[q]) : queue[q][k].line \in 1..sent[queue[q][k].from]
    BY DEF QueueInv, QueueOrdered
  <2>4. \A k \in 1..Len(queue[q]) : queue[q][k].from \in Sender /\ queue[q][k].line \in Nat
    BY <2>2 DEF QueueMessage
  <2>5. \A s \in Sender : sent[s] \in Nat
    BY DEF QueueInv, QueueTyped
  <2> QED BY <2>1, <2>3, <2>4, <2>5, LenProperties
<1>5. ASSUME NEW r \in Receiver
      PROVE  /\ printed[r] \in Seq(QueueMessage) /\ Len(printed[r]) \in Nat
             /\ \A k \in 1..Len(printed[r]) :
                   /\ printed[r][k].from \in Sender /\ printed[r][k].line \in Nat
                   /\ sent[printed[r][k].from] # 0
  <2>1. printed[r] \in Seq(QueueMessage)
    BY DEF QueueInv, QueueTyped
  <2>2. \A k \in 1..Len(printed[r]) : printed[r][k] \in QueueMessage
    BY <2>1, ElementOfSeq
  <2>3. \A k \in 1..Len(printed[r]) : printed[r][k].line \in 1..sent[printed[r][k].from]
    BY DEF QueueInv, PrintedOrdered
  <2>4. \A k \in 1..Len(printed[r]) : printed[r][k].from \in Sender /\ printed[r][k].line \in Nat
    BY <2>2 DEF QueueMessage
  <2>5. \A s \in Sender : sent[s] \in Nat
    BY DEF QueueInv, QueueTyped
  <2> QED BY <2>1, <2>3, <2>4, <2>5, LenProperties
<1>6. \A r \in Receiver : printed[r] # <<>> => id[r] \in 1..Len(queue)
  BY <1>2, <1>3 DEF QueueInv, QueueGot
<1> QED BY <1>1, <1>2, <1>3, <1>4, <1>5, <1>6

\* At the start there is no queue.
LEMMA InitQueueInv == Queue!Init => QueueInv
<1> SUFFICES ASSUME Queue!Init PROVE QueueInv
  OBVIOUS
<1>1. /\ key = 0 /\ queue = <<>> /\ removed = {}
      /\ at = [p \in Queue!Party |-> "off"] /\ id = [p \in Queue!Party |-> 0]
      /\ sent = [s \in Sender |-> 0] /\ printed = [r \in Receiver |-> <<>>]
  BY DEF Queue!Init, Queue!NoQueue
<1>2. Len(queue) = 0 /\ queue \in Seq(Seq(QueueMessage)) /\ <<>> \in Seq(QueueMessage)
  BY <1>1
<1>3. QueueTyped
  BY <1>1, <1>2 DEF QueueTyped
<1>4. QueueGot
  BY <1>1 DEF QueueGot, Queue!Party
<1>5. QueueOrdered
  BY <1>2 DEF QueueOrdered
<1>6. \A r \in Receiver : 1..Len(printed[r]) = {}
  BY <1>1
<1>7. PrintedOrdered /\ PrintedOnce /\ NoGap
  BY <1>6 DEF PrintedOrdered, PrintedOnce, NoGap
<1>8. NoneLost
  BY <1>1 DEF NoneLost
<1>9. ExitLast
  BY <1>1 DEF ExitLast, Queue!Party
<1> QED BY <1>3, <1>4, <1>5, <1>7, <1>8, <1>9 DEF QueueInv

\* msgget: who has nothing yet gets the queue, and a new one is empty
\* (msg_snd.c:23-27).
LEMMA GetQueueInv ==
  ASSUME QueueInv, NEW p \in Queue!Party, Queue!Get(p) PROVE QueueInv'
<1>1. /\ at[p] = "off" /\ at' = [at EXCEPT ![p] = "use"]
      /\ id' = [id EXCEPT ![p] = key'] /\ UNCHANGED <<removed, sent, printed>>
      /\ IF key # 0 THEN UNCHANGED <<key, queue>>
         ELSE queue' = Append(queue, <<>>) /\ key' = Len(queue')
  BY DEF Queue!Get, Queue!Goto, Queue!NoQueue
<1>2. /\ queue' \in Seq(Seq(QueueMessage)) /\ Len(queue') \in Nat
      /\ Len(queue) <= Len(queue')
      /\ \A q \in 1..Len(queue) : queue'[q] = queue[q]
      /\ \A q \in 1..Len(queue') : q \in 1..Len(queue) \/ Len(queue'[q]) = 0
      /\ key' \in 1..Len(queue') /\ key' \notin removed'
  <2>1. /\ queue \in Seq(Seq(QueueMessage)) /\ Len(queue) \in Nat /\ key \in 0..Len(queue)
        /\ key \notin removed /\ removed \subseteq 1..Len(queue)
    BY QueueFacts DEF QueueInv, QueueTyped, QueueGot
  <2>2. CASE key # 0
    BY <1>1, <2>1, <2>2
  <2>3. CASE key = 0
    <3>1. queue' = Append(queue, <<>>) /\ key' = Len(queue') /\ <<>> \in Seq(QueueMessage)
      BY <1>1, <2>3
    <3>2. /\ queue' \in Seq(Seq(QueueMessage)) /\ Len(queue') = Len(queue) + 1
          /\ \A q \in 1..Len(queue) : queue'[q] = queue[q]
          /\ queue'[Len(queue) + 1] = <<>>
      BY <2>1, <3>1, AppendProperties
    <3>3. Len(queue'[Len(queue) + 1]) = 0
      BY <3>2
    <3> QED BY <1>1, <2>1, <3>1, <3>2, <3>3
  <2> QED BY <2>2, <2>3
<1>3. /\ at'[p] = "use" /\ id'[p] = key'
      /\ \A o \in Queue!Party \ {p} : at'[o] = at[o] /\ id'[o] = id[o]
  BY <1>1 DEF QueueInv, QueueTyped
<1>4. /\ \A q \in 1..Len(queue) : \A k \in 1..Len(queue[q]) : id'[queue[q][k].from] = id[queue[q][k].from]
      /\ \A r \in Receiver : \A k \in 1..Len(printed[r]) :
            id'[printed[r][k].from] = id[printed[r][k].from] /\ id'[r] = id[r]
            /\ id[r] \in 1..Len(queue)
  <2>1. p \in Sender => sent[p] = 0
    BY <1>1 DEF QueueInv, QueueGot
  <2>2. p \in Receiver => printed[p] = <<>>
    BY <1>1 DEF QueueInv, QueueGot
  <2>3. \A r \in Receiver : \A k \in 1..Len(printed[r]) : printed[r] # <<>> /\ r # p
    BY <2>2
  <2> QED BY <1>3, <2>1, <2>3, QueueFacts, ZenonT(60)
<1>5. QueueTyped'
  <2>1. key' \in 0..Len(queue') /\ removed' \subseteq 1..Len(queue')
    BY <1>1, <1>2, QueueFacts DEF QueueInv, QueueTyped
  <2>2. id' \in [Queue!Party -> 0..Len(queue')]
    <3>1. \A o \in Queue!Party : id[o] \in 0..Len(queue')
      BY <1>2, QueueFacts DEF QueueInv, QueueTyped
    <3> QED BY <1>1, <2>1, <3>1 DEF QueueInv, QueueTyped
  <2> QED BY <1>1, <1>2, <2>1, <2>2 DEF QueueInv, QueueTyped
<1>6. QueueGot'
  <2>1. \A o \in Queue!Party : at'[o] = "off" <=> id'[o] = 0
    <3> SUFFICES ASSUME NEW o \in Queue!Party PROVE at'[o] = "off" <=> id'[o] = 0
      OBVIOUS
    <3>1. CASE o = p
      BY <1>2, <1>3, <3>1
    <3>2. CASE o # p
      BY <1>3, <3>2 DEF QueueInv, QueueGot
    <3> QED BY <3>1, <3>2
  <2> QED BY <1>1, <1>2, <1>3, <2>1, QueueFacts, SMTT(60) DEF QueueInv, QueueGot
<1>7. QueueOrdered'
  <2> SUFFICES ASSUME NEW q \in 1..Len(queue'), NEW k \in 1..Len(queue'[q])
               PROVE  LET m == queue'[q][k] IN
                      /\ id'[m.from] = q /\ m.line \in 1..sent'[m.from]
                      /\ \A j \in 1..(k - 1) :
                            queue'[q][j].from = m.from => queue'[q][j].line < m.line
    BY DEF QueueOrdered
  <2>1. q \in 1..Len(queue) /\ queue'[q] = queue[q]
    BY <1>2
  <2> QED BY <1>1, <1>4, <2>1, SMTT(150) DEF QueueInv, QueueOrdered
<1>8. PrintedOrdered'
  <2> SUFFICES ASSUME NEW r \in Receiver, NEW k \in 1..Len(printed[r])
               PROVE  LET m == printed[r][k] IN
                      /\ id'[m.from] = id'[r] /\ m.line \in 1..sent[m.from]
                      /\ \A j \in 1..(k - 1) :
                            printed[r][j].from = m.from => printed[r][j].line < m.line
                      /\ \A j \in 1..Len(queue'[id'[r]]) :
                            queue'[id'[r]][j].from = m.from => m.line < queue'[id'[r]][j].line
    BY <1>1 DEF PrintedOrdered
  <2>1. id'[r] = id[r] /\ id'[printed[r][k].from] = id[r] /\ queue'[id[r]] = queue[id[r]]
    BY <1>2, <1>4, SMTT(60) DEF QueueInv, PrintedOrdered
  <2> QED BY <2>1 DEF QueueInv, PrintedOrdered
<1>9. PrintedOnce' /\ NoGap'
  <2>1. printed' = printed
    BY <1>1
  <2>2. PrintedOnce'
    BY <2>1 DEF QueueInv, PrintedOnce
  <2>3. NoGap'
    BY <2>1 DEF QueueInv, NoGap, Printed
  <2> QED BY <2>2, <2>3
<1>10. NoneLost'
  <2> SUFFICES ASSUME NEW s \in Sender, id'[s] \notin removed', NEW n \in 1..sent'[s]
               PROVE  Queued(s, n)' \/ Printed(s, n)'
    BY DEF NoneLost
  <2>1. n \in 1..sent[s] /\ s # p /\ at[s] # "off"
    <3>1. sent[s] # 0
      BY <1>1 DEF QueueInv, QueueTyped
    <3> QED BY <1>1, <3>1 DEF QueueInv, QueueGot
  <2>2. id'[s] = id[s] /\ id[s] \in 1..Len(queue)
    BY <1>3, <2>1, QueueFacts
  <2>3. Queued(s, n) \/ Printed(s, n)
    BY <1>1, <2>1, <2>2 DEF QueueInv, NoneLost
  <2>4. queue'[id'[s]] = queue[id[s]]
    BY <1>2, <2>2
  <2> QED BY <1>1, <2>3, <2>4 DEF Queued, Printed
<1>11. ExitLast'
  BY <1>1, <1>3, QueueFacts DEF QueueInv, ExitLast
<1> QED BY <1>5, <1>6, <1>7, <1>8, <1>9, <1>10, <1>11 DEF QueueInv

\* One queue is given other messages.
LEMMA QueueUpdated ==
  ASSUME QueueInv, NEW q \in 1..Len(queue), NEW ms \in Seq(QueueMessage),
         queue' = [queue EXCEPT ![q] = ms]
  PROVE  /\ queue' \in Seq(Seq(QueueMessage)) /\ Len(queue') = Len(queue)
         /\ queue'[q] = ms
         /\ \A p \in 1..Len(queue) : p # q => queue'[p] = queue[p]
<1>1. queue \in Seq(Seq(QueueMessage))
  BY DEF QueueInv, QueueTyped
<1>2. /\ queue' \in Seq(Seq(QueueMessage)) /\ Len(queue') = Len(queue)
      /\ \A p \in 1..Len(queue) : queue'[p] = IF p = q THEN ms ELSE queue[p]
  BY <1>1, ExceptSeq
<1> QED BY <1>2

\* A queue with one message more.
LEMMA Appended ==
  ASSUME NEW ms \in Seq(QueueMessage), NEW m \in QueueMessage, NEW more, more = Append(ms, m)
  PROVE  /\ more \in Seq(QueueMessage) /\ Len(ms) \in Nat /\ Len(more) = Len(ms) + 1
         /\ more # <<>>
         /\ \A k \in 1..Len(ms) : more[k] = ms[k]
         /\ more[Len(ms) + 1] = m
         /\ \A k \in 1..Len(more) : k \in 1..Len(ms) \/ k = Len(ms) + 1
  BY AppendProperties, LenProperties

\* msgsnd: the line is later than all the sender has sent (msg_snd.c:29-42).
LEMMA SendQueueInv ==
  ASSUME QueueInv, NEW s \in Sender, Queue!Send(s) PROVE QueueInv'
<1> DEFINE q == id[s]
<1>1. PICK b \in BOOLEAN :
        /\ at[s] = "use" /\ q \notin removed
        /\ queue' = [queue EXCEPT ![q] = Append(@, Queue!Message(s, b))]
        /\ at' = [at EXCEPT ![s] = IF b \/ s \in Single THEN "done" ELSE "use"]
        /\ sent' = [sent EXCEPT ![s] = @ + 1]
        /\ UNCHANGED <<key, removed, id, printed>>
  BY DEF Queue!Send, Queue!Goto
<1> DEFINE m == Queue!Message(s, b)
           old == queue[q]
           new == queue'[q]
<1>2. q \in 1..Len(queue) /\ old \in Seq(QueueMessage) /\ sent[s] \in Nat /\ s \in Queue!Party
  BY <1>1, QueueFacts DEF QueueInv, QueueTyped
<1>3. m \in QueueMessage /\ m.from = s /\ m.line = sent[s] + 1
  BY <1>2 DEF QueueMessage, Queue!Message
<1>4. /\ queue' \in Seq(Seq(QueueMessage)) /\ Len(queue') = Len(queue) /\ new = Append(old, m)
      /\ \A p \in 1..Len(queue) : p # q => queue'[p] = queue[p]
  <2>1. Append(old, m) \in Seq(QueueMessage)
    BY <1>2, <1>3, Appended
  <2> HIDE DEF m
  <2> QED BY <1>1, <1>2, <2>1, QueueUpdated, ZenonT(60) DEF m
<1> HIDE DEF m
<1>5. /\ Len(old) \in Nat /\ Len(new) = Len(old) + 1
      /\ \A k \in 1..Len(old) : new[k] = old[k]
      /\ new[Len(old) + 1] = m
      /\ \A k \in 1..Len(new) : k \in 1..Len(old) \/ k = Len(old) + 1
  BY <1>2, <1>3, <1>4, Appended, SMTT(150)
<1>6. /\ sent' \in [Sender -> Nat] /\ sent'[s] = sent[s] + 1
      /\ \A u \in Sender \ {s} : sent'[u] = sent[u]
      /\ \A u \in Sender : 1..sent[u] \subseteq 1..sent'[u]
  <2>1. sent \in [Sender -> Nat]
    BY DEF QueueInv, QueueTyped
  <2> QED BY <1>1, <2>1
<1>7. /\ at' \in [Queue!Party -> {"off", "use", "remove", "done", "failed"}]
      /\ at'[s] # "off" /\ \A o \in Queue!Party \ {s} : at'[o] = at[o]
  BY <1>1, ZenonT(60) DEF QueueInv, QueueTyped
<1>8. QueueTyped'
  BY <1>1, <1>4, <1>6, <1>7, ZenonT(60) DEF QueueInv, QueueTyped
<1>9. QueueGot'
  <2>1. \A o \in Queue!Party : at'[o] = "off" <=> at[o] = "off"
    BY <1>1, <1>7
  <2>2. \A u \in Sender : at[u] = "off" => sent'[u] = sent[u]
    BY <1>1, <1>6
  <2> QED BY <1>1, <2>1, <2>2, QueueFacts DEF QueueInv, QueueGot
<1>10. QueueOrdered'
  <2> SUFFICES ASSUME NEW p \in 1..Len(queue), NEW k \in 1..Len(queue'[p])
               PROVE  /\ id[queue'[p][k].from] = p
                      /\ queue'[p][k].line \in 1..sent'[queue'[p][k].from]
                      /\ \A j \in 1..(k - 1) : queue'[p][j].from = queue'[p][k].from =>
                            queue'[p][j].line < queue'[p][k].line
    BY <1>1, <1>4, ZenonT(60) DEF QueueOrdered
  <2>1. CASE p # q
    <3>1. queue'[p] = queue[p] /\ queue[p][k].from \in Sender
      BY <1>4, <2>1, QueueFacts, ZenonT(60)
    <3> QED BY <1>6, <3>1, ZenonT(60) DEF QueueInv, QueueOrdered
  <2>2. CASE p = q /\ k \in 1..Len(old)
    <3>1. /\ queue'[p][k] = old[k] /\ old[k].from \in Sender
          /\ \A j \in 1..(k - 1) : queue'[p][j] = old[j]
      BY <1>2, <1>5, <2>2, QueueFacts, SMTT(150)
    <3>2. /\ id[old[k].from] = q /\ old[k].line \in 1..sent[old[k].from]
          /\ \A j \in 1..(k - 1) : old[j].from = old[k].from => old[j].line < old[k].line
      BY <1>2, <2>2, ZenonT(60) DEF QueueInv, QueueOrdered
    <3> QED BY <1>6, <2>2, <3>1, <3>2, ZenonT(60)
  <2>3. CASE p = q /\ k = Len(old) + 1
    <3>1. queue'[p][k] = m /\ \A j \in 1..(k - 1) : j \in 1..Len(old) /\ queue'[p][j] = old[j]
      BY <1>5, <2>3
    <3>2. \A j \in 1..Len(old) : old[j].from = s => old[j].line \in 1..sent[s]
      BY <1>2, SMTT(60) DEF QueueInv, QueueOrdered
    <3>3. \A j \in 1..Len(old) : old[j].from = s => old[j].line < sent[s] + 1
      BY <1>2, <3>2, SMTT(60)
    <3>4. sent[s] + 1 \in 1..sent'[s]
      BY <1>2, <1>6
    <3>5. queue'[p][k].from = s /\ queue'[p][k].line = sent[s] + 1
      BY <1>3, <3>1
    <3>6. \A j \in 1..(k - 1) : queue'[p][j].from = s => queue'[p][j].line < sent[s] + 1
      BY <3>1, <3>3
    <3> QED BY <2>3, <3>4, <3>5, <3>6
  <2> QED BY <1>5, <2>1, <2>2, <2>3, ZenonT(60)
<1>11. PrintedOrdered'
  <2> SUFFICES ASSUME NEW r \in Receiver, NEW k \in 1..Len(printed[r])
               PROVE  /\ id[printed[r][k].from] = id[r]
                      /\ printed[r][k].line \in 1..sent'[printed[r][k].from]
                      /\ \A j \in 1..(k - 1) : printed[r][j].from = printed[r][k].from =>
                            printed[r][j].line < printed[r][k].line
                      /\ \A j \in 1..Len(queue'[id[r]]) :
                            queue'[id[r]][j].from = printed[r][k].from =>
                               printed[r][k].line < queue'[id[r]][j].line
    BY <1>1, SMTT(150) DEF PrintedOrdered
  <2> DEFINE x == printed[r][k]
  <2>1. /\ id[x.from] = id[r] /\ x.line \in 1..sent[x.from] /\ x.from \in Sender
        /\ \A j \in 1..(k - 1) : printed[r][j].from = x.from => printed[r][j].line < x.line
        /\ \A j \in 1..Len(queue[id[r]]) :
              queue[id[r]][j].from = x.from => x.line < queue[id[r]][j].line
    BY QueueFacts, ZenonT(60) DEF QueueInv, PrintedOrdered
  <2>2. id[r] \in 1..Len(queue)
    BY QueueFacts
  <2> HIDE DEF x
  <2>3. \A j \in 1..Len(queue'[id[r]]) :
           queue'[id[r]][j].from = x.from => x.line < queue'[id[r]][j].line
    <3>1. CASE id[r] # q
      BY <1>4, <2>1, <2>2, <3>1, ZenonT(60)
    <3>2. CASE id[r] = q
      <4> SUFFICES ASSUME NEW j \in 1..Len(new), new[j].from = x.from PROVE x.line < new[j].line
        BY <3>2
      <4>1. CASE j \in 1..Len(old)
        BY <1>5, <2>1, <3>2, <4>1, ZenonT(60)
      <4>2. CASE j = Len(old) + 1
        <5>1. new[j].from = s /\ new[j].line = sent[s] + 1
          BY <1>3, <1>5, <4>2
        <5>2. x.from = s
          BY <5>1
        <5> HIDE DEF new
        <5> QED BY <1>2, <2>1, <5>1, <5>2
      <4> QED BY <1>5, <4>1, <4>2
    <3> QED BY <3>1, <3>2
  <2> QED BY <1>6, <2>1, <2>3 DEF x
<1>12. PrintedOnce' /\ NoGap'
  BY <1>1 DEF QueueInv, PrintedOnce, NoGap, Printed
<1>13. NoneLost'
  <2> SUFFICES ASSUME NEW u \in Sender, id[u] \notin removed, NEW n \in 1..sent'[u]
               PROVE  Queued(u, n)' \/ Printed(u, n)'
    BY <1>1 DEF NoneLost
  <2>1. CASE n \in 1..sent[u]
    <3>1. Queued(u, n) \/ Printed(u, n)
      BY <2>1 DEF QueueInv, NoneLost
    <3>2. Printed(u, n) => Printed(u, n)'
      BY <1>1 DEF Printed
    <3>3. Queued(u, n) => Queued(u, n)'
      <4>1. id[u] \in 1..Len(queue)
        <5>1. sent[u] # 0
          BY <2>1
        <5> QED BY <5>1, QueueFacts DEF QueueInv, QueueGot
      <4>2. CASE id[u] # q
        BY <1>1, <1>4, <4>1, <4>2, SMTT(60) DEF Queued
      <4>3. CASE id[u] = q
        <5> SUFFICES ASSUME NEW k \in 1..Len(old), old[k].from = u, old[k].line = n
                     PROVE  Queued(u, n)'
          BY <4>3 DEF Queued
        <5>1. k \in 1..Len(new) /\ new[k] = old[k]
          BY <1>5
        <5> QED BY <1>1, <4>3, <5>1 DEF Queued
      <4> QED BY <4>2, <4>3
    <3> QED BY <3>1, <3>2, <3>3
  <2>2. CASE n \notin 1..sent[u]
    <3>1. u = s /\ n = sent[s] + 1
      BY <1>2, <1>6, <2>2
    <3>2. Len(old) + 1 \in 1..Len(new) /\ new[Len(old) + 1].from = u /\ new[Len(old) + 1].line = n
      BY <1>3, <1>5, <3>1
    <3> QED BY <1>1, <3>1, <3>2 DEF Queued
  <2> QED BY <2>1, <2>2
<1>14. ExitLast'
  BY <1>1, <1>7, QueueAssumption, QueueFacts DEF QueueInv, ExitLast
<1> QED BY <1>8, <1>9, <1>10, <1>11, <1>12, <1>13, <1>14 DEF QueueInv

\* msgrcv and printf: the head of the queue comes after all that was printed and
\* before all that waits (msg_rcv.c:28-41).
LEMMA ReceiveQueueInv ==
  ASSUME QueueInv, NEW r \in Receiver, Queue!Receive(r) PROVE QueueInv'
<1> DEFINE q == id[r]
           old == queue[q]
           h == Head(old)
           new == queue'[q]
           shown == printed[r]
           more == printed'[r]
<1>1. /\ at[r] = "use" /\ q \notin removed /\ old # <<>>
      /\ queue' = [queue EXCEPT ![q] = Tail(old)]
      /\ printed' = [printed EXCEPT ![r] = Append(shown, h)]
      /\ at' = [at EXCEPT ![r] = IF h.exit \/ r \in Single THEN "remove" ELSE "use"]
      /\ UNCHANGED <<key, removed, id, sent>>
  BY DEF Queue!Receive, Queue!Goto
<1>2. /\ q \in 1..Len(queue) /\ old \in Seq(QueueMessage) /\ shown \in Seq(QueueMessage)
      /\ r \in Queue!Party
  BY <1>1, QueueFacts
<1>3. /\ h \in QueueMessage /\ h = old[1] /\ Len(old) \in Nat /\ 1 \in 1..Len(old)
      /\ Tail(old) \in Seq(QueueMessage) /\ Len(Tail(old)) = Len(old) - 1
      /\ \A k \in 1..Len(Tail(old)) : Tail(old)[k] = old[k + 1]
  <2>1. Len(old) \in Nat /\ Len(old) # 0
    BY <1>1, <1>2, EmptySeq
  <2>2. h = old[1]
    OBVIOUS
  <2> HIDE DEF old, h
  <2> QED BY <1>1, <1>2, <2>1, <2>2, HeadTailProperties DEF h
<1>4. /\ queue' \in Seq(Seq(QueueMessage)) /\ Len(queue') = Len(queue) /\ new = Tail(old)
      /\ \A p \in 1..Len(queue) : p # q => queue'[p] = queue[p]
  BY <1>1, <1>2, <1>3, QueueUpdated, ZenonT(60)
<1>5. \A k \in 1..Len(new) : k + 1 \in 1..Len(old) /\ new[k] = old[k + 1]
  BY <1>3, <1>4
<1>6. /\ printed' \in [Receiver -> Seq(QueueMessage)] /\ more = Append(shown, h)
      /\ \A u \in Receiver \ {r} : printed'[u] = printed[u]
  <2>1. Append(shown, h) \in Seq(QueueMessage)
    BY <1>2, <1>3, Appended
  <2> HIDE DEF h, shown
  <2> QED BY <1>1, <2>1 DEF QueueInv, QueueTyped
<1>7. /\ Len(shown) \in Nat /\ Len(more) = Len(shown) + 1 /\ more # <<>>
      /\ \A k \in 1..Len(shown) : more[k] = shown[k]
      /\ more[Len(shown) + 1] = h
      /\ \A k \in 1..Len(more) : k \in 1..Len(shown) \/ k = Len(shown) + 1
  <2>1. shown \in Seq(QueueMessage) /\ h \in QueueMessage /\ more = Append(shown, h)
    BY <1>2, <1>3, <1>6
  <2> QED BY <2>1, Appended
<1>8. /\ h.from \in Sender /\ h.line \in Nat /\ id[h.from] = q /\ h.line \in 1..sent[h.from]
      /\ \A j \in 1..Len(new) : new[j].from = h.from => h.line < new[j].line
      /\ \A u \in Receiver : \A k \in 1..Len(printed[u]) :
            printed[u][k].from = h.from => id[u] = q /\ printed[u][k].line < h.line
  <2>1. h.from \in Sender /\ h.line \in Nat
    BY <1>3 DEF QueueMessage
  <2>2. id[h.from] = q /\ h.line \in 1..sent[h.from]
    BY <1>2, <1>3 DEF QueueInv, QueueOrdered
  <2>3. ASSUME NEW j \in 1..Len(new), new[j].from = h.from PROVE h.line < new[j].line
    <3>1. j + 1 \in 1..Len(old) /\ new[j] = old[j + 1] /\ 1 \in 1..(j + 1 - 1)
      BY <1>3, <1>5
    <3>2. old[1].from = old[j + 1].from => old[1].line < old[j + 1].line
      BY <1>2, <3>1, SMTT(150) DEF QueueInv, QueueOrdered
    <3> QED BY <1>3, <2>3, <3>1, <3>2
  <2>4. ASSUME NEW u \in Receiver, NEW k \in 1..Len(printed[u]), printed[u][k].from = h.from
        PROVE  id[u] = q /\ printed[u][k].line < h.line
    <3>1. id[u] = q
      BY <2>2, <2>4 DEF QueueInv, PrintedOrdered
    <3>2. old[1].from = printed[u][k].from => printed[u][k].line < old[1].line
      BY <1>3, <3>1, SMTT(60) DEF QueueInv, PrintedOrdered
    <3> QED BY <1>3, <2>4, <3>1, <3>2
  <2> QED BY <2>1, <2>2, <2>3, <2>4, SMTT(60)
<1>9. /\ at' \in [Queue!Party -> {"off", "use", "remove", "done", "failed"}]
      /\ at'[r] = (IF h.exit \/ r \in Single THEN "remove" ELSE "use")
      /\ \A o \in Queue!Party \ {r} : at'[o] = at[o]
  BY <1>1, <1>2 DEF QueueInv, QueueTyped
<1> HIDE DEF h, more, new, shown
<1>10. QueueTyped'
  BY <1>1, <1>4, <1>6, <1>9 DEF QueueInv, QueueTyped
<1>11. QueueGot'
  <2>1. \A o \in Queue!Party : at'[o] = "off" <=> at[o] = "off"
    BY <1>1, <1>9
  <2>2. \A u \in Receiver : at[u] = "off" => printed'[u] = printed[u]
    BY <1>1, <1>6
  <2> QED BY <1>1, <2>1, <2>2, QueueFacts DEF QueueInv, QueueGot
<1>12. QueueOrdered'
  <2> SUFFICES ASSUME NEW p \in 1..Len(queue), NEW k \in 1..Len(queue'[p])
               PROVE  /\ id[queue'[p][k].from] = p
                      /\ queue'[p][k].line \in 1..sent[queue'[p][k].from]
                      /\ \A j \in 1..(k - 1) : queue'[p][j].from = queue'[p][k].from =>
                            queue'[p][j].line < queue'[p][k].line
    BY <1>1, <1>4, ZenonT(60) DEF QueueOrdered
  <2>1. CASE p # q
    BY <1>4, <2>1, ZenonT(60) DEF QueueInv, QueueOrdered
  <2>2. CASE p = q
    <3>1. k \in 1..Len(new) /\ queue'[p] = new
      BY <2>2 DEF new
    <3>2. k + 1 \in 1..Len(old) /\ new[k] = old[k + 1]
      BY <1>5, <3>1
    <3>3. \A j \in 1..(k - 1) : j + 1 \in 1..(k + 1 - 1) /\ new[j] = old[j + 1]
      <4> SUFFICES ASSUME NEW j \in 1..(k - 1)
                   PROVE  j + 1 \in 1..(k + 1 - 1) /\ new[j] = old[j + 1]
        OBVIOUS
      <4>1. j \in 1..Len(new)
        BY <1>3, <1>4, <3>1
      <4> QED BY <1>5, <4>1
    <3>4. /\ id[old[k + 1].from] = q /\ old[k + 1].line \in 1..sent[old[k + 1].from]
          /\ \A j \in 1..(k + 1 - 1) :
                old[j].from = old[k + 1].from => old[j].line < old[k + 1].line
      BY <1>2, <3>2, SMTT(150) DEF QueueInv, QueueOrdered
    <3> HIDE DEF old
    <3> QED BY <2>2, <3>1, <3>2, <3>3, <3>4, ZenonT(60)
  <2> QED BY <2>1, <2>2
<1>13. PrintedOrdered'
  <2> SUFFICES ASSUME NEW u \in Receiver, NEW k \in 1..Len(printed'[u])
               PROVE  /\ id[printed'[u][k].from] = id[u]
                      /\ printed'[u][k].line \in 1..sent[printed'[u][k].from]
                      /\ \A j \in 1..(k - 1) : printed'[u][j].from = printed'[u][k].from =>
                            printed'[u][j].line < printed'[u][k].line
                      /\ \A j \in 1..Len(queue'[id[u]]) :
                            queue'[id[u]][j].from = printed'[u][k].from =>
                               printed'[u][k].line < queue'[id[u]][j].line
    <3>1. id' = id /\ sent' = sent
      BY <1>1
    <3> HIDE DEF q, old
    <3> QED BY <3>1 DEF PrintedOrdered
  <2>1. CASE k \in 1..Len(printed[u]) /\ printed'[u][k] = printed[u][k]
                /\ \A j \in 1..(k - 1) : printed'[u][j] = printed[u][j]
    <3> DEFINE x == printed[u][k]
    <3>1. /\ id[x.from] = id[u] /\ x.line \in 1..sent[x.from]
          /\ \A j \in 1..(k - 1) : printed[u][j].from = x.from => printed[u][j].line < x.line
          /\ \A j \in 1..Len(queue[id[u]]) :
                queue[id[u]][j].from = x.from => x.line < queue[id[u]][j].line
      BY <2>1, ZenonT(60) DEF QueueInv, PrintedOrdered
    <3>2. id[u] \in 1..Len(queue)
      <4>1. printed[u] # <<>>
        BY <2>1
      <4> QED BY <4>1, QueueFacts
    <3> HIDE DEF x
    <3>3. \A j \in 1..Len(queue'[id[u]]) :
             queue'[id[u]][j].from = x.from => x.line < queue'[id[u]][j].line
      <4>1. CASE id[u] # q
        BY <1>4, <3>1, <3>2, <4>1, ZenonT(60)
      <4>2. CASE id[u] = q
        <5>1. queue'[id[u]] = new
          BY <4>2 DEF new
        <5>2. \A j \in 1..Len(old) : old[j].from = x.from => x.line < old[j].line
          BY <3>1, <4>2
        <5> HIDE DEF old
        <5> QED BY <1>5, <5>1, <5>2
      <4> QED BY <4>1, <4>2
    <3> QED BY <2>1, <3>1, <3>3, SMTT(60) DEF x
  <2>2. CASE u = r /\ k = Len(shown) + 1
    <3>1. /\ printed'[u][k] = h /\ queue'[id[u]] = new
          /\ \A j \in 1..(k - 1) : j \in 1..Len(printed[r]) /\ printed'[u][j] = printed[r][j]
      BY <1>7, <2>2 DEF more, new, shown
    <3> HIDE DEF old
    <3>2. \A j \in 1..(k - 1) : printed'[u][j].from = h.from => printed'[u][j].line < h.line
      BY <1>8, <3>1
    <3> QED BY <1>8, <2>2, <3>1, <3>2
  <2>3. u # r => printed'[u] = printed[u]
    BY <1>6
  <2>4. u = r => k \in 1..Len(more) /\ printed'[u] = more /\ printed[u] = shown
    BY DEF more, shown
  <2>5. u # r \/ (u = r /\ k \in 1..Len(shown)) \/ (u = r /\ k = Len(shown) + 1)
    BY <1>7, <2>4
  <2>6. ASSUME u = r, k \in 1..Len(shown)
        PROVE  /\ printed'[u][k] = printed[u][k]
               /\ \A j \in 1..(k - 1) : printed'[u][j] = printed[u][j]
    <3>1. \A j \in 1..(k - 1) : j \in 1..Len(shown)
      BY <1>7, <2>6
    <3> QED BY <1>7, <2>4, <2>6, <3>1
  <2> QED BY <2>1, <2>2, <2>3, <2>4, <2>5, <2>6
<1>14. PrintedOnce'
  <2>1. \A u \in Receiver \ {r} : \A k \in 1..Len(more), j \in 1..Len(printed[u]) :
           more[k].from = printed[u][j].from => more[k].line # printed[u][j].line
    <3> SUFFICES ASSUME NEW u \in Receiver \ {r}, NEW k \in 1..Len(more), NEW j \in 1..Len(printed[u]),
                        more[k].from = printed[u][j].from
                 PROVE  more[k].line # printed[u][j].line
      OBVIOUS
    <3>1. CASE k \in 1..Len(shown)
      BY <1>7, <3>1, SMTT(60) DEF QueueInv, PrintedOnce, shown
    <3>2. CASE k = Len(shown) + 1
      <4>1. printed[u][j].line \in Nat /\ printed[u][j].line < h.line
        BY <1>7, <1>8, <3>2, QueueFacts
      <4> QED BY <1>7, <1>8, <3>2, <4>1
    <3> QED BY <1>7, <3>1, <3>2
  <2>2. more = printed'[r]
    BY DEF more
  <2> SUFFICES ASSUME NEW u \in Receiver, NEW v \in Receiver, u # v,
                      NEW k \in 1..Len(printed'[u]), NEW j \in 1..Len(printed'[v]),
                      printed'[u][k].from = printed'[v][j].from
               PROVE  printed'[u][k].line # printed'[v][j].line
    BY DEF PrintedOnce
  <2>3. CASE u = r
    <3>1. printed'[v] = printed[v]
      BY <1>6, <2>3
    <3> QED BY <2>1, <2>2, <2>3, <3>1
  <2>4. CASE v = r
    <3>1. printed'[u] = printed[u]
      BY <1>6, <2>4
    <3> QED BY <2>1, <2>2, <2>4, <3>1
  <2>5. CASE u # r /\ v # r
    <3>1. printed'[u] = printed[u] /\ printed'[v] = printed[v]
      BY <1>6, <2>5
    <3> QED BY <3>1 DEF QueueInv, PrintedOnce
  <2> QED BY <2>3, <2>4, <2>5
<1> DEFINE Told(s, n) == \E u \in Receiver : \E k \in 1..Len(printed'[u]) :
                            printed'[u][k].from = s /\ printed'[u][k].line = n
<1>15. \A s, n : Printed(s, n) => Told(s, n)
  <2> SUFFICES ASSUME NEW s, NEW n, NEW u \in Receiver, NEW k \in 1..Len(printed[u]),
                      printed[u][k].from = s, printed[u][k].line = n
               PROVE  Told(s, n)
    BY DEF Printed
  <2>1. k \in 1..Len(printed'[u]) /\ printed'[u][k] = printed[u][k]
    <3>1. CASE u = r
      BY <1>7, <3>1 DEF more, shown
    <3>2. CASE u # r
      BY <1>6, <3>2
    <3> QED BY <3>1, <3>2
  <2> QED BY <2>1
<1>16. Told(h.from, h.line)
  <2>1. Len(shown) + 1 \in 1..Len(printed'[r]) /\ printed'[r][Len(shown) + 1] = h
    BY <1>7 DEF more
  <2> QED BY <2>1
<1>17. \A s \in Sender : \A n : Queued(s, n) =>
          \/ s = h.from /\ n = h.line
          \/ id[s] = q /\ s = h.from /\ h.line < n /\ Queued(s, n)'
          \/ s # h.from /\ (id[s] \in 1..Len(queue) => Queued(s, n)')
  <2> SUFFICES ASSUME NEW s \in Sender, NEW n, NEW k \in 1..Len(queue[id[s]]),
                      queue[id[s]][k].from = s, queue[id[s]][k].line = n
               PROVE  \/ s = h.from /\ n = h.line
                      \/ id[s] = q /\ s = h.from /\ h.line < n /\ Queued(s, n)'
                      \/ s # h.from /\ (id[s] \in 1..Len(queue) => Queued(s, n)')
    BY ZenonT(60) DEF Queued
  <2>1. CASE id[s] # q
    <3>1. id[s] \in 1..Len(queue) => queue'[id[s]] = queue[id[s]]
      BY <1>4, <2>1
    <3>2. id[s] \in 1..Len(queue) => Queued(s, n)'
      BY <1>1, <3>1, ZenonT(60) DEF Queued
    <3> QED BY <1>8, <2>1, <3>2
  <2>2. CASE id[s] = q /\ k = 1
    BY <1>3, <2>2
  <2>3. CASE id[s] = q /\ k # 1
    <3>1. k - 1 \in 1..Len(new) /\ new[k - 1] = old[k]
      <4>1. k \in 1..Len(old)
        BY <2>3
      <4>2. k - 1 \in 1..Len(new)
        BY <1>3, <1>4, <2>3, <4>1
      <4> QED BY <1>5, <4>1, <4>2
    <3>2. new[k - 1].from = s /\ new[k - 1].line = n
      BY <2>3, <3>1
    <3>3. Queued(s, n)'
      BY <1>1, <2>3, <3>1, <3>2 DEF Queued, new
    <3> QED BY <1>8, <2>3, <3>1, <3>2, <3>3, ZenonT(60)
  <2> QED BY <2>1, <2>2, <2>3
<1>18. NoneLost'
  <2> SUFFICES ASSUME NEW s \in Sender, id[s] \notin removed, NEW n \in 1..sent[s]
               PROVE  Queued(s, n)' \/ Printed(s, n)'
    BY <1>1 DEF NoneLost
  <2>1. id[s] \in 1..Len(queue)
    <3>1. sent[s] # 0
      BY DEF QueueInv, QueueTyped
    <3> QED BY <3>1, QueueFacts DEF QueueInv, QueueGot
  <2>2. Queued(s, n) \/ Printed(s, n)
    BY DEF QueueInv, NoneLost
  <2>3. Printed(s, n)' <=> Told(s, n)
    BY DEF Printed
  <2> HIDE DEF Told
  <2> QED BY <1>15, <1>16, <1>17, <2>1, <2>2, <2>3
<1>19. NoGap'
  <2> SUFFICES ASSUME NEW u \in Receiver, NEW k \in 1..Len(printed'[u]),
                      NEW n \in 1..(printed'[u][k].line - 1)
               PROVE  Told(printed'[u][k].from, n)
    BY DEF NoGap, Printed
  <2> HIDE DEF Told
  <2>1. CASE k \in 1..Len(printed[u]) /\ printed'[u][k] = printed[u][k]
    BY <1>15, <2>1 DEF QueueInv, NoGap
  <2>2. CASE u = r /\ k = Len(shown) + 1
    <3>1. printed'[u][k] = h
      BY <1>7, <2>2 DEF more
    <3>2. n \in 1..sent[h.from] /\ n # h.line /\ ~(h.line < n)
      <4>1. n \in 1..(h.line - 1) /\ sent[h.from] \in Nat
        BY <1>8, <3>1 DEF QueueInv, QueueTyped
      <4> QED BY <1>8, <4>1
    <3>3. Queued(h.from, n) \/ Printed(h.from, n)
      BY <1>1, <1>8, <3>2 DEF QueueInv, NoneLost
    <3>4. Printed(h.from, n)
      BY <1>8, <1>17, <3>2, <3>3
    <3> QED BY <1>15, <3>1, <3>4
  <2>3. u # r => printed'[u] = printed[u]
    BY <1>6
  <2>4. u = r => (k \in 1..Len(shown) \/ k = Len(shown) + 1) /\ printed'[u] = more /\ printed[u] = shown
    BY <1>7 DEF more, shown
  <2> QED BY <1>7, <2>1, <2>2, <2>3, <2>4
<1>20. ExitLast'
  <2> SUFFICES ASSUME NEW u \in Receiver \ Single, at'[u] \in {"remove", "done"}
               PROVE  printed'[u] # <<>> /\ printed'[u][Len(printed'[u])].exit
    BY DEF ExitLast
  <2>1. CASE u # r
    BY <1>6, <1>9, <2>1, QueueFacts, SMTT(60) DEF QueueInv, ExitLast
  <2>2. CASE u = r
    <3>1. h.exit
      BY <1>9, <2>2
    <3>2. printed'[u] = more
      BY <2>2 DEF more
    <3> QED BY <1>7, <3>1, <3>2
  <2> QED BY <2>1, <2>2
<1> QED BY <1>10, <1>11, <1>12, <1>13, <1>14, <1>18, <1>19, <1>20 DEF QueueInv

\* msgctl(IPC_RMID): the messages of one queue go, and no sender of it is promised
\* anything any more (msg_rcv.c:44-49).
LEMMA RemoveQueueInv ==
  ASSUME QueueInv, NEW r \in Receiver, Queue!Remove(r) PROVE QueueInv'
<1> DEFINE q == id[r]
<1>1. /\ at[r] = "remove" /\ q \notin removed
      /\ removed' = removed \cup {q}
      /\ queue' = [queue EXCEPT ![q] = <<>>]
      /\ key' = IF key = q THEN 0 ELSE key
      /\ at' = [at EXCEPT ![r] = "done"]
      /\ id' = id /\ sent' = sent /\ printed' = printed
  BY DEF Queue!Remove, Queue!Goto, Queue!NoQueue
<1>2. q \in 1..Len(queue) /\ r \in Queue!Party
  BY <1>1, QueueFacts
<1>3. /\ queue' \in Seq(Seq(QueueMessage)) /\ Len(queue') = Len(queue) /\ queue'[q] = <<>>
      /\ \A p \in 1..Len(queue) : p # q => queue'[p] = queue[p]
  <2>1. <<>> \in Seq(QueueMessage)
    OBVIOUS
  <2> QED BY <1>1, <1>2, <2>1, QueueUpdated
<1>4. Len(queue'[q]) = 0
  BY <1>3
<1>5. /\ at' \in [Queue!Party -> {"off", "use", "remove", "done", "failed"}]
      /\ at'[r] = "done" /\ \A o \in Queue!Party \ {r} : at'[o] = at[o]
  BY <1>1, <1>2 DEF QueueInv, QueueTyped
<1> HIDE DEF q
<1>6. QueueTyped'
  <2>1. key' \in 0..Len(queue') /\ removed' \subseteq 1..Len(queue')
    BY <1>1, <1>2, <1>3, QueueFacts DEF QueueInv, QueueTyped
  <2> QED BY <1>1, <1>3, <1>5, <2>1 DEF QueueInv, QueueTyped
<1>7. QueueGot'
  <2>1. key' \notin removed'
    BY <1>1, <1>2, QueueFacts DEF QueueInv, QueueTyped, QueueGot
  <2>2. \A o \in Queue!Party : at'[o] = "off" <=> at[o] = "off"
    BY <1>1, <1>5
  <2> QED BY <1>1, <2>1, <2>2, QueueFacts DEF QueueInv, QueueGot
<1>8. QueueOrdered'
  <2> SUFFICES ASSUME NEW p \in 1..Len(queue), NEW k \in 1..Len(queue'[p])
               PROVE  /\ id[queue'[p][k].from] = p
                      /\ queue'[p][k].line \in 1..sent[queue'[p][k].from]
                      /\ \A j \in 1..(k - 1) : queue'[p][j].from = queue'[p][k].from =>
                            queue'[p][j].line < queue'[p][k].line
    BY <1>1, <1>3, ZenonT(60) DEF QueueOrdered
  <2>1. p # q
    BY <1>4
  <2> QED BY <1>3, <2>1, ZenonT(60) DEF QueueInv, QueueOrdered
<1>9. PrintedOrdered'
  <2>0. id' = id /\ sent' = sent /\ printed' = printed
    BY <1>1
  <2> SUFFICES ASSUME NEW u \in Receiver, NEW k \in 1..Len(printed[u])
               PROVE  /\ id[printed[u][k].from] = id[u]
                      /\ printed[u][k].line \in 1..sent[printed[u][k].from]
                      /\ \A j \in 1..(k - 1) : printed[u][j].from = printed[u][k].from =>
                            printed[u][j].line < printed[u][k].line
                      /\ \A j \in 1..Len(queue'[id[u]]) :
                            queue'[id[u]][j].from = printed[u][k].from =>
                               printed[u][k].line < queue'[id[u]][j].line
    BY <2>0, Zenon, ZenonT(60) DEF PrintedOrdered
  <2>1. id[u] \in 1..Len(queue)
    <3>1. printed[u] # <<>>
      OBVIOUS
    <3> QED BY <3>1, QueueFacts
  <2>2. CASE id[u] = q
    BY <1>4, <2>2 DEF QueueInv, PrintedOrdered
  <2>3. CASE id[u] # q
    BY <1>3, <2>1, <2>3, ZenonT(60) DEF QueueInv, PrintedOrdered
  <2> QED BY <2>2, <2>3
<1>10. PrintedOnce' /\ NoGap'
  BY <1>1, SMTT(150) DEF QueueInv, PrintedOnce, NoGap, Printed
<1>11. NoneLost'
  <2> SUFFICES ASSUME NEW s \in Sender, id[s] \notin removed', NEW n \in 1..sent[s]
               PROVE  Queued(s, n)' \/ Printed(s, n)'
    BY <1>1 DEF NoneLost
  <2>1. id[s] \notin removed /\ id[s] # q
    BY <1>1
  <2>2. id[s] \in 1..Len(queue)
    <3>1. sent[s] # 0
      BY DEF QueueInv, QueueTyped
    <3> QED BY <3>1, QueueFacts DEF QueueInv, QueueGot
  <2>3. queue'[id[s]] = queue[id[s]]
    BY <1>3, <2>1, <2>2
  <2>4. Queued(s, n) \/ Printed(s, n)
    BY <2>1 DEF QueueInv, NoneLost
  <2> QED BY <1>1, <2>3, <2>4 DEF Queued, Printed
<1>12. ExitLast'
  <2>1. \A u \in Receiver \ Single : at'[u] \in {"remove", "done"} => at[u] \in {"remove", "done"}
    BY <1>1, <1>5, QueueFacts
  <2> QED BY <1>1, <2>1 DEF QueueInv, ExitLast
<1> QED BY <1>6, <1>7, <1>8, <1>9, <1>10, <1>11, <1>12 DEF QueueInv

\* EIDRM ends a process and touches no queue (msg_snd.c:36-39).
LEMMA FailsQueueInv ==
  ASSUME QueueInv, NEW p \in Queue!Party, Queue!Fails(p) PROVE QueueInv'
<1>1. /\ at[p] \in {"use", "remove"} /\ at' = [at EXCEPT ![p] = "failed"]
      /\ UNCHANGED <<key, queue, removed, id, sent, printed>>
  BY DEF Queue!Fails, Queue!Goto
<1>2. /\ at' \in [Queue!Party -> {"off", "use", "remove", "done", "failed"}]
      /\ at'[p] = "failed" /\ \A o \in Queue!Party \ {p} : at'[o] = at[o]
  BY <1>1 DEF QueueInv, QueueTyped
<1>3. QueueTyped'
  BY <1>1, <1>2 DEF QueueInv, QueueTyped
<1>4. QueueGot'
  <2>1. \A o \in Queue!Party : at'[o] = "off" <=> at[o] = "off"
    BY <1>1, <1>2
  <2> QED BY <1>1, <2>1, QueueFacts DEF QueueInv, QueueGot
<1>5. QueueOrdered' /\ PrintedOrdered' /\ PrintedOnce' /\ NoGap'
  BY <1>1 DEF QueueInv, QueueOrdered, PrintedOrdered, PrintedOnce, NoGap, Printed
<1>6. NoneLost'
  BY <1>1 DEF QueueInv, NoneLost, Queued, Printed
<1>7. ExitLast'
  <2>1. \A u \in Receiver \ Single : at'[u] \in {"remove", "done"} => at[u] \in {"remove", "done"}
    BY <1>2, QueueFacts
  <2> QED BY <1>1, <2>1 DEF QueueInv, ExitLast
<1> QED BY <1>3, <1>4, <1>5, <1>6, <1>7 DEF QueueInv

\* Every step of the senders and the receivers keeps the invariant.
LEMMA NextQueueInv == QueueInv /\ [Queue!Next]_(Queue!vars) => QueueInv'
<1> SUFFICES ASSUME QueueInv, [Queue!Next]_(Queue!vars) PROVE QueueInv'
  OBVIOUS
<1>1. CASE UNCHANGED Queue!vars
  <2>1. UNCHANGED <<key, queue, removed, at, id, sent, printed>>
    BY <1>1 DEF Queue!vars
  <2>2. QueueTyped' /\ QueueGot' /\ ExitLast'
    BY <2>1 DEF QueueInv, QueueTyped, QueueGot, ExitLast
  <2>3. QueueOrdered' /\ PrintedOrdered' /\ PrintedOnce' /\ NoGap'
    BY <2>1 DEF QueueInv, QueueOrdered, PrintedOrdered, PrintedOnce, NoGap, Printed
  <2>4. NoneLost'
    BY <2>1 DEF QueueInv, NoneLost, Queued, Printed
  <2> QED BY <2>2, <2>3, <2>4 DEF QueueInv
<1>2. CASE Queue!Next
  BY <1>2, GetQueueInv, SendQueueInv, ReceiveQueueInv, RemoveQueueInv, FailsQueueInv
     DEF Queue!Next, Queue!Works
<1> QED BY <1>1, <1>2

\* What a receiver that is alone with its queue printed up to an exit is all that its
\* sender sent before.
LEMMA AllOfTheSender ==
  ASSUME QueueInv, NEW r \in Receiver, NEW k \in 1..Len(printed[r]),
         k = Len(printed[r]), \A u \in Receiver \ {r} : id[u] # id[r]
  PROVE  Queue!AreFirst(printed[r], printed[r][k].from, printed[r][k].line)
<1> DEFINE ms == printed[r]
           s == ms[k].from
           own == {j \in DOMAIN ms : ms[j].from = s}
<1>1. ms \in Seq(QueueMessage) /\ DOMAIN ms = 1..Len(ms) /\ Len(ms) \in Nat
  BY QueueFacts
<1>2. s \in Sender /\ \A j \in own : ms[j].line \in 1..sent[s] /\ sent[s] \in Nat
  BY <1>1, QueueFacts, ZenonT(60) DEF QueueInv, QueueTyped, PrintedOrdered
<1>3. \A i, j \in own : i < j => ms[i].line < ms[j].line
  <2> SUFFICES ASSUME NEW i \in own, NEW j \in own, i < j PROVE ms[i].line < ms[j].line
    OBVIOUS
  <2>1. i \in 1..(j - 1) /\ j \in 1..Len(printed[r])
    BY <1>1
  <2> QED BY <1>1, <2>1 DEF QueueInv, PrintedOrdered
<1>4. k \in own
  BY <1>1
<1>5. ASSUME NEW j \in own PROVE ms[j].line \in 1..ms[k].line
  <2>1. j = k \/ j < k
    BY <1>1
  <2>2. ms[j].line = ms[k].line \/ ms[j].line < ms[k].line
    BY <1>3, <1>4, <2>1
  <2>3. ms[j].line \in Nat /\ ms[k].line \in Nat /\ 1 <= ms[j].line
    BY <1>2, <1>4
  <2> HIDE DEF ms, own
  <2> QED BY <2>2, <2>3
<1>6. ASSUME NEW n \in 1..ms[k].line PROVE \E j \in own : ms[j].line = n
  <2>1. CASE n = ms[k].line
    BY <1>4, <2>1
  <2>2. CASE n # ms[k].line
    <3>1. n \in 1..(printed[r][k].line - 1)
      BY <1>2, <1>4, <2>2
    <3>2. PICK u \in Receiver : \E j \in 1..Len(printed[u]) :
             printed[u][j].from = s /\ printed[u][j].line = n
      BY <3>1, ZenonT(60) DEF QueueInv, NoGap, Printed
    <3>3. PICK j \in 1..Len(printed[u]) : printed[u][j].from = s /\ printed[u][j].line = n
      BY <3>2
    <3>4. id[u] = id[s] /\ id[r] = id[s]
      BY <3>3 DEF QueueInv, PrintedOrdered
    <3>5. u = r
      BY <3>4
    <3> QED BY <1>1, <3>3, <3>5
  <2> QED BY <2>1, <2>2
<1>7. {ms[j].line : j \in own} = 1..ms[k].line
  BY <1>5, <1>6
<1> QED BY <1>3, <1>7 DEF Queue!AreFirst

\* The invariant says all that Delivers asks.
LEMMA QueueDelivers == QueueInv => Queue!Delivers
<1> SUFFICES ASSUME QueueInv PROVE Queue!Delivers
  OBVIOUS
<1>1. ASSUME NEW r \in Receiver \ Single, at[r] \in {"remove", "done"}
      PROVE  LET m == printed[r][Len(printed[r])] IN
             /\ m.exit
             /\ (\A u \in Receiver \ {r} : id[u] # id[r]) =>
                   Queue!AreFirst(printed[r], m.from, m.line)
  <2>1. printed[r] # <<>> /\ printed[r][Len(printed[r])].exit
    BY <1>1 DEF QueueInv, ExitLast
  <2>2. Len(printed[r]) \in 1..Len(printed[r])
    <3>1. printed[r] \in Seq(QueueMessage) /\ Len(printed[r]) \in Nat
      BY QueueFacts
    <3>2. Len(printed[r]) # 0
      BY <2>1, <3>1, EmptySeq
    <3> QED BY <3>1, <3>2
  <2> QED BY <2>1, <2>2, AllOfTheSender
<1>2. ASSUME NEW r \in Receiver, NEW u \in Receiver, r # u,
             NEW n \in DOMAIN printed[r], NEW k \in DOMAIN printed[u]
      PROVE  printed[r][n] # printed[u][k]
  <2>1. n \in 1..Len(printed[r]) /\ k \in 1..Len(printed[u])
    BY QueueFacts
  <2> QED BY <1>2, <2>1 DEF QueueInv, PrintedOnce
<1> QED BY <1>1, <1>2 DEF Queue!Delivers

\* A message is printed once at most, by one receiver; and whom an exit ends while it
\* had the queue to itself has printed all that the sender of that exit sent before,
\* in the order it was sent (msg_snd.c:29-42, msg_rcv.c:28-49).
THEOREM MessagesAreDelivered ==
  Queue!Init /\ [][Queue!Next]_(Queue!vars) => []Queue!Delivers
  BY InitQueueInv, NextQueueInv, QueueDelivers, PTL

-----------------------------------------------------------------------------
(* The thread demos.                                                       *)

Lines == 0..(MaxLine + 1)

LinesInv ==
    /\ buff \in Lines /\ sem \in Nat /\ line \in Lines
    /\ main \in {"read", "post", "test", "join", "destroy", "done"}
    /\ printer \in {"wait", "print", "test", "ended"}
    /\ main = "read" => buff # Threads!End
    /\ main \in {"join", "destroy", "done"} => buff = Threads!End
    /\ main \in {"destroy", "done"} => printer = "ended"
    /\ printer = "ended" => buff = Threads!End

\* Every step of main2.c keeps the invariant.
LEMMA NextLinesInv ==
  MaxLine \in Nat /\ LinesInv /\ [Threads!LinesNext]_(Threads!lineVars) => LinesInv'
<1> SUFFICES ASSUME MaxLine \in Nat, LinesInv, [Threads!LinesNext]_(Threads!lineVars)
             PROVE  LinesInv'
  OBVIOUS
<1>1. CASE Threads!Read
  BY <1>1 DEF Threads!Read, LinesInv, Lines, Threads!End
<1>2. CASE Threads!Post
  BY <1>2 DEF Threads!Post, LinesInv
<1>3. CASE Threads!Test
  BY <1>3 DEF Threads!Test, LinesInv
<1>4. CASE Threads!Join
  BY <1>4 DEF Threads!Join, LinesInv
<1>5. CASE Threads!SemDestroy
  BY <1>5 DEF Threads!SemDestroy, LinesInv
<1>6. CASE Threads!SemWait
  BY <1>6 DEF Threads!SemWait, LinesInv
<1>7. CASE Threads!PrintBuff
  BY <1>7 DEF Threads!PrintBuff, LinesInv
<1>8. CASE Threads!PrinterTest
  BY <1>8 DEF Threads!PrinterTest, LinesInv
<1>9. CASE UNCHANGED Threads!lineVars
  BY <1>9 DEF Threads!lineVars, LinesInv
<1> QED BY <1>1, <1>2, <1>3, <1>4, <1>5, <1>6, <1>7, <1>8, <1>9 DEF Threads!LinesNext

\* The semaphore is destroyed only when nobody waits for it, and the printer
\* goes only after end was typed, for any number of lines
\* (thread/main2.c:47-71).
THEOREM LinesAreSound ==
  ASSUME MaxLine \in Nat PROVE Threads!LinesSpec => []Threads!LinesSound
<1>1. LinesInv => Threads!LinesSound
  BY DEF LinesInv, Threads!LinesSound
<1>2. Threads!LinesInit => LinesInv
  BY DEF Threads!LinesInit, LinesInv, Lines, Threads!End
<1>3. LinesInv /\ [Threads!LinesNext]_(Threads!lineVars) => LinesInv'
  BY NextLinesInv
<1> QED BY <1>1, <1>2, <1>3, PTL DEF Threads!LinesSpec

\* The rounds that have taken a ticket from the stock.
Taken == {x \in Station \X (1..Rounds) :
            \/ x[2] <= round[x[1]]
            \/ x[2] = round[x[1]] + 1 /\ station[x[1]] = "unlock"}

TicketsTyped ==
    /\ stock \in Int /\ owner \in Station \cup {Nobody}
    /\ round \in [Station -> 0..Rounds]
    /\ station \in [Station -> {"lock", "sell", "take", "unlock", "ended"}]
    /\ sold \subseteq Station \X (1..Stock)

\* A station owns the mutex from its lock to its unlock, and ends after its
\* rounds.
StationsAgree ==
    \A s \in Station :
        /\ station[s] \in {"sell", "take", "unlock"} <=> owner = s
        /\ station[s] = "ended" <=> round[s] = Rounds

StockCounts == stock = Stock - Cardinality(Taken)

\* What is sold is gone from the stock, or just being taken.
SoldAbove ==
    \A x \in sold : x[2] > stock \/ (x[2] = stock /\ station[x[1]] = "take")

SoldOnce == \A x, y \in sold : x[2] = y[2] => x = y

NoneSkipped ==
    \A n \in 1..Stock :
        \/ n < stock
        \/ n = stock /\ \A s \in Station : station[s] # "take"
        \/ \E x \in sold : x[2] = n

TicketsInv ==
    TicketsTyped /\ StationsAgree /\ StockCounts /\ SoldAbove /\ SoldOnce /\ NoneSkipped

\* The rounds that took a ticket can be counted.
LEMMA TakenIsFinite ==
  ASSUME TicketsOK
  PROVE  /\ IsFiniteSet(Taken) /\ Cardinality(Taken) \in Nat
         /\ IsFiniteSet(Station \X (1..Rounds))
         /\ Cardinality(Station \X (1..Rounds)) = Cardinality(Station) * Rounds
<1>1. IsFiniteSet(1..Rounds) /\ Cardinality(1..Rounds) = Rounds
  BY FS_Interval DEF TicketsOK
<1>2. /\ IsFiniteSet(Station \X (1..Rounds))
      /\ Cardinality(Station \X (1..Rounds)) = Cardinality(Station) * Rounds
  BY <1>1, FS_Product, ZenonT(60) DEF TicketsOK
<1>3. Taken \in SUBSET (Station \X (1..Rounds))
  BY DEF Taken
<1>4. IsFiniteSet(Taken)
  BY <1>2, <1>3, FS_Subset
<1> QED BY <1>2, <1>4, FS_CardinalityType

\* At the start nothing is taken.
LEMMA InitTicketsInv == TicketsOK /\ Threads!TicketsInit => TicketsInv
<1> SUFFICES ASSUME TicketsOK, Threads!TicketsInit PROVE TicketsInv
  OBVIOUS
<1>1. Taken = {}
  BY DEF Taken, Threads!TicketsInit, TicketsOK
<1>2. Cardinality(Taken) = 0
  BY <1>1, FS_EmptySet
<1> QED BY <1>2 DEF TicketsOK, Threads!TicketsInit, TicketsInv, TicketsTyped, StationsAgree,
                 StockCounts, SoldAbove, SoldOnce, NoneSkipped

\* pthread_mutex_lock (thread/main3.c:16-29, :53-67).
LEMMA LockTicketsInv ==
  ASSUME TicketsOK, TicketsInv, NEW s \in Station, Threads!Lock(s) PROVE TicketsInv'
<1>1. /\ station[s] = "lock" /\ owner = Nobody /\ owner' = s
      /\ station' = [station EXCEPT ![s] = "sell"]
      /\ UNCHANGED <<stock, round, sold>>
  BY DEF Threads!Lock
<1>2. Taken' = Taken
  BY <1>1 DEF Taken, TicketsInv, TicketsTyped
<1>3. \A t \in Station : station[t] \notin {"sell", "take", "unlock"}
  BY <1>1 DEF TicketsOK, TicketsInv, StationsAgree
<1>4. TicketsTyped' /\ StationsAgree'
  BY <1>1, <1>3 DEF TicketsOK, TicketsInv, TicketsTyped, StationsAgree
<1>5. StockCounts' /\ SoldOnce'
  BY <1>1, <1>2 DEF TicketsInv, StockCounts, SoldOnce
<1>6. SoldAbove'
  BY <1>1, <1>3 DEF TicketsInv, TicketsTyped, SoldAbove
<1>7. NoneSkipped'
  BY <1>1, <1>3 DEF TicketsInv, TicketsTyped, NoneSkipped
<1> QED BY <1>4, <1>5, <1>6, <1>7 DEF TicketsInv

\* The ticket on top of the stock is sold: nobody else is between selling and
\* taking.
LEMMA SellTicketsInv ==
  ASSUME TicketsOK, TicketsInv, NEW s \in Station, Threads!Sell(s) PROVE TicketsInv'
<1>1. /\ station[s] = "sell"
      /\ sold' = IF stock > 0 THEN sold \cup {<<s, stock>>} ELSE sold
      /\ station' = [station EXCEPT ![s] = "take"]
      /\ UNCHANGED <<stock, owner, round>>
  BY DEF Threads!Sell
<1>2. Taken' = Taken
  BY <1>1 DEF Taken, TicketsInv, TicketsTyped
<1>3. owner = s /\ \A t \in Station : station[t] # "take"
  BY <1>1 DEF TicketsInv, StationsAgree
<1>4. \A x \in sold : x[2] > stock /\ x[2] # stock
  BY <1>3 DEF TicketsInv, TicketsTyped, SoldAbove
<1>5. stock <= Stock /\ stock \in Int
  BY TakenIsFinite DEF TicketsOK, TicketsInv, TicketsTyped, StockCounts
<1>6. StationsAgree'
  BY <1>1, <1>3 DEF TicketsInv, TicketsTyped, StationsAgree
<1>7. StockCounts'
  BY <1>1, <1>2 DEF TicketsInv, StockCounts
<1>8. CASE stock > 0
  <2> DEFINE z == <<s, stock>>
  <2>1. sold' = sold \cup {z} /\ z[1] = s /\ z[2] = stock /\ z \in Station \X (1..Stock)
    BY <1>1, <1>5, <1>8 DEF TicketsOK
  <2> HIDE DEF z
  <2>2. TicketsTyped'
    BY <1>1, <2>1 DEF TicketsInv, TicketsTyped
  <2>3. SoldAbove'
    BY <1>1, <1>4, <2>1 DEF SoldAbove, TicketsInv, TicketsTyped
  <2>4. SoldOnce'
    BY <1>4, <2>1 DEF SoldOnce, TicketsInv
  <2>5. NoneSkipped'
    BY <1>1, <1>5, <2>1 DEF NoneSkipped, TicketsInv
  <2> QED BY <1>6, <1>7, <2>2, <2>3, <2>4, <2>5 DEF TicketsInv
<1>9. CASE ~(stock > 0)
  <2>1. sold' = sold /\ \A n \in 1..Stock : n # stock
    BY <1>1, <1>5, <1>9
  <2>2. TicketsTyped'
    BY <1>1, <2>1 DEF TicketsInv, TicketsTyped
  <2>3. SoldAbove' /\ SoldOnce'
    BY <1>1, <1>4, <2>1 DEF SoldAbove, SoldOnce, TicketsInv
  <2>4. NoneSkipped'
    BY <1>1, <2>1 DEF NoneSkipped, TicketsInv
  <2> QED BY <1>6, <1>7, <2>2, <2>3, <2>4 DEF TicketsInv
<1> QED BY <1>8, <1>9

\* The stock goes down with the rounds, below nought as well.
LEMMA TakeTicketsInv ==
  ASSUME TicketsOK, TicketsInv, NEW s \in Station, Threads!Take(s) PROVE TicketsInv'
<1>1. /\ station[s] = "take" /\ stock' = stock - 1
      /\ station' = [station EXCEPT ![s] = "unlock"]
      /\ UNCHANGED <<owner, round, sold>>
  BY DEF Threads!Take
<1>2. owner = s /\ round[s] \in 0..Rounds /\ round[s] # Rounds
  BY <1>1 DEF TicketsInv, TicketsTyped, StationsAgree
<1>3. /\ Taken' = Taken \cup {<<s, round[s] + 1>>}
      /\ <<s, round[s] + 1>> \notin Taken
  BY <1>1, <1>2 DEF Taken, TicketsInv, TicketsTyped, TicketsOK
<1>4. Cardinality(Taken') = Cardinality(Taken) + 1
  BY <1>3, TakenIsFinite, FS_AddElement
<1>5. TicketsTyped'
  BY <1>1 DEF TicketsInv, TicketsTyped
<1>6. StationsAgree'
  BY <1>1, <1>2 DEF TicketsInv, TicketsTyped, StationsAgree
<1>7. StockCounts'
  BY <1>1, <1>4, TakenIsFinite DEF TicketsInv, StockCounts, TicketsOK
<1>8. SoldAbove' /\ SoldOnce'
  <2>1. \A x \in sold : x[2] \in Int /\ (x[2] > stock \/ x[2] = stock)
    BY DEF TicketsInv, TicketsTyped, SoldAbove
  <2>2. \A x \in sold : x[2] > stock'
    BY <1>1, <2>1 DEF TicketsInv, TicketsTyped
  <2>3. SoldAbove'
    BY <1>1, <2>2 DEF SoldAbove
  <2>4. SoldOnce'
    BY <1>1 DEF TicketsInv, SoldOnce
  <2> QED BY <2>3, <2>4
<1>9. NoneSkipped'
  <2>1. stock \in Int /\ Stock \in Nat
    BY DEF TicketsInv, TicketsTyped, TicketsOK
  <2>2. \A n \in 1..Stock : n < stock \/ \E x \in sold : x[2] = n
    BY <1>1 DEF TicketsInv, NoneSkipped
  <2>3. \A n \in 1..Stock : n < stock' \/ n = stock' \/ \E x \in sold' : x[2] = n
    BY <1>1, <2>1, <2>2
  <2>4. \A t \in Station : station'[t] # "take"
    BY <1>1, <1>2 DEF TicketsInv, TicketsTyped, StationsAgree
  <2> QED BY <2>3, <2>4 DEF NoneSkipped
<1> QED BY <1>5, <1>6, <1>7, <1>8, <1>9 DEF TicketsInv

\* pthread_mutex_unlock, and the next round.
LEMMA UnlockTicketsInv ==
  ASSUME TicketsOK, TicketsInv, NEW s \in Station, Threads!Unlock(s) PROVE TicketsInv'
<1>1. /\ station[s] = "unlock" /\ owner' = Nobody
      /\ round' = [round EXCEPT ![s] = @ + 1]
      /\ station' = [station EXCEPT ![s] = IF round'[s] = Rounds THEN "ended" ELSE "lock"]
      /\ UNCHANGED <<stock, sold>>
  BY DEF Threads!Unlock
<1>2. owner = s /\ round[s] \in 0..Rounds /\ round[s] # Rounds
  BY <1>1 DEF TicketsInv, TicketsTyped, StationsAgree
<1>3. round'[s] = round[s] + 1 /\ round[s] + 1 \in 0..Rounds
  BY <1>1, <1>2 DEF TicketsInv, TicketsTyped, TicketsOK
<1>4. Taken' = Taken
  BY <1>1, <1>2, <1>3 DEF Taken, TicketsInv, TicketsTyped, TicketsOK
<1>5. \A t \in Station : station[t] # "take" /\ station'[t] # "take"
  BY <1>1, <1>2 DEF TicketsInv, TicketsTyped, StationsAgree
<1>6. TicketsTyped'
  BY <1>1, <1>3 DEF TicketsInv, TicketsTyped
<1>7. StationsAgree'
  BY <1>1, <1>2, <1>3 DEF TicketsInv, TicketsTyped, TicketsOK, StationsAgree
<1>8. StockCounts' /\ SoldOnce'
  BY <1>1, <1>4 DEF TicketsInv, StockCounts, SoldOnce
<1>9. SoldAbove'
  BY <1>1, <1>5 DEF TicketsInv, TicketsTyped, SoldAbove
<1>10. NoneSkipped'
  BY <1>1, <1>5 DEF TicketsInv, TicketsTyped, NoneSkipped
<1> QED BY <1>6, <1>7, <1>8, <1>9, <1>10 DEF TicketsInv

\* Every step of main3.c keeps the invariant.
LEMMA NextTicketsInv ==
  TicketsOK /\ TicketsInv /\ [Threads!TicketsNext]_(Threads!ticketVars) => TicketsInv'
<1> SUFFICES ASSUME TicketsOK, TicketsInv, [Threads!TicketsNext]_(Threads!ticketVars)
             PROVE  TicketsInv'
  OBVIOUS
<1>1. CASE UNCHANGED Threads!ticketVars
  BY <1>1 DEF Threads!ticketVars, TicketsInv, TicketsTyped, Taken, StationsAgree,
              StockCounts, SoldAbove, SoldOnce, NoneSkipped
<1> QED BY <1>1, LockTicketsInv, SellTicketsInv, TakeTicketsInv, UnlockTicketsInv
        DEF Threads!TicketsNext

\* When all stations have ended, the stock tells which tickets are sold.
LEMMA AllTaken ==
  ASSUME TicketsOK, TicketsInv, \A s \in Station : station[s] = "ended"
  PROVE  {x[2] : x \in sold} = {n \in 1..Stock : n > Stock - Cardinality(Station) * Rounds}
<1>1. Taken = Station \X (1..Rounds)
  <2>1. \A s \in Station : round[s] = Rounds
    BY DEF TicketsInv, StationsAgree
  <2> QED BY <2>1 DEF Taken, TicketsOK
<1>2. stock = Stock - Cardinality(Station) * Rounds
  BY <1>1, TakenIsFinite DEF TicketsInv, StockCounts
<1>3. \A x \in sold : x[2] \in 1..Stock /\ x[2] > stock
  BY DEF TicketsInv, TicketsTyped, SoldAbove
<1>4. \A n \in 1..Stock : n > stock => \E x \in sold : x[2] = n
  BY DEF TicketsInv, TicketsTyped, TicketsOK, NoneSkipped
<1> QED BY <1>2, <1>3, <1>4

\* No ticket is sold twice and none is skipped: stations that have ended sold
\* the first tickets, one a round as long as there were some, for any stations,
\* rounds and stock (thread/main3.c:16-29, :53-67).
THEOREM TicketsAreSoldOnce ==
  ASSUME TicketsOK PROVE Threads!TicketsSpec => []Threads!TicketsOnce
<1>1. TicketsInv => Threads!TicketsOnce
  <2> SUFFICES ASSUME TicketsInv PROVE Threads!TicketsOnce
    OBVIOUS
  <2>1. \A x, y \in sold : x[2] = y[2] => x = y
    BY DEF TicketsInv, SoldOnce
  <2>2. (\A s \in Station : station[s] = "ended") =>
           {x[2] : x \in sold} = {n \in 1..Stock : n > Stock - Cardinality(Station) * Rounds}
    BY AllTaken
  <2>3. Threads!Cardinality(Station) = Cardinality(Station)
    BY DEF Threads!Cardinality, Cardinality
  <2> QED BY <2>1, <2>2, <2>3 DEF Threads!TicketsOnce
<1>2. Threads!TicketsInit => TicketsInv
  BY InitTicketsInv
<1>3. TicketsInv /\ [Threads!TicketsNext]_(Threads!ticketVars) => TicketsInv'
  BY NextTicketsInv
<1> QED BY <1>1, <1>2, <1>3, PTL DEF Threads!TicketsSpec

-----------------------------------------------------------------------------
(* The poll server.                                                        *)

Peer == {"none", "open", "fin", "reset", "dead"}

PollTyped ==
    /\ fds \in [PollFd -> {"none", "in", "out"}]
    /\ cur_max_fd \in Nat
    /\ revents \subseteq PollFd \cup {Listen}
    /\ ch \in Poll!Byte
    /\ pollSock \in [PollFd -> [open : BOOLEAN, peer : Peer, inbox : Seq(Poll!Byte)]]
    /\ pollBacklog \in 0..MaxBacklog
    /\ pollPhase \in {"poll", "scan", "stopped"}
    /\ due \in [PollFd -> Poll!Byte \cup {Poll!NoByte}] /\ got \in [PollFd -> Poll!Byte \cup {Poll!NoByte}]
    /\ mixed \subseteq PollFd

\* What the table and the byte in ch are for one connection.
EntrySound(f) ==
    /\ fds[f] = "none" <=> ~pollSock[f].open
    /\ fds[f] # "none" => f < cur_max_fd
    /\ fds[f] = "none" => due[f] = Poll!NoByte /\ got[f] = Poll!NoByte
    /\ fds[f] = "in" => (due[f] = Poll!NoByte <=> got[f] = Poll!NoByte)
    /\ fds[f] = "out" =>
          \/ pollSock[f].peer = "dead"
          \/ /\ due[f] # Poll!NoByte /\ got[f] = Poll!NoByte
             /\ f \notin mixed => due[f] = ch
    /\ f \notin mixed /\ got[f] # Poll!NoByte => got[f] = due[f]
    /\ f \in revents =>
          /\ pollSock[f].open
          /\ fds[f] = "in" => pollSock[f].inbox # <<>> \/ pollSock[f].peer # "open"

PollInv ==
    /\ PollTyped
    /\ Listen \in revents => pollBacklog > 0
    /\ \A f \in PollFd : EntrySound(f)

\* The byte that is not one, and the byte that is sent back.
LEMMA ByteFacts ==
  ASSUME Poll!ConstantsOK
  PROVE  /\ Poll!NoByte \notin Poll!Byte
         /\ \A b \in Poll!Byte : Poll!Next1(b) \in Poll!Byte
  BY DEF Poll!ConstantsOK, Poll!Byte, Poll!NoByte, Poll!Next1

\* At the start.
LEMMA InitPollInv == Poll!ConstantsOK /\ Poll!Init => PollInv
  BY DEF Poll!Init, PollInv, PollTyped, EntrySound, Poll!ConstantsOK, Poll!Closed, Peer, Poll!NoByte

\* accept: the new entry waits for a byte (poll/server.c:58-69).
LEMMA AcceptsPollInv == ASSUME Poll!ConstantsOK, PollInv, Poll!Accepts PROVE PollInv'
<1>1. PICK f \in PollFd \ Poll!Open :
        /\ pollSock' = [pollSock EXCEPT ![f] = Poll!Accepted]
        /\ fds' = [fds EXCEPT ![f] = "in"]
        /\ cur_max_fd' = IF cur_max_fd <= f THEN f + 1 ELSE cur_max_fd
  BY DEF Poll!Accepts
<1>2. /\ Listen \in revents /\ Listen \notin PollFd /\ f \in Nat
      /\ pollBacklog' = pollBacklog - 1 /\ revents' = revents \ {Listen}
      /\ UNCHANGED <<ch, pollPhase, due, got, mixed>>
  BY DEF Poll!Accepts, Poll!Scans, Poll!ConstantsOK, Poll!ghosts
<1>3. ~pollSock[f].open /\ fds[f] = "none" /\ f \notin revents
  BY <1>1 DEF Poll!Open, PollInv, EntrySound
<1>4. PollTyped'
  <2>1. Poll!Accepted \in [open : BOOLEAN, peer : Peer, inbox : Seq(Poll!Byte)]
    BY DEF Poll!Accepted, Peer
  <2>2. pollBacklog' \in 0..MaxBacklog
    BY <1>2 DEF PollInv, PollTyped, Poll!ConstantsOK
  <2> QED BY <1>1, <1>2, <2>1, <2>2 DEF PollInv, PollTyped
<1>5. ASSUME NEW g \in PollFd PROVE EntrySound(g)'
  <2>1. CASE g = f
    BY <1>1, <1>2, <1>3, <2>1 DEF PollInv, PollTyped, EntrySound, Poll!Accepted
  <2>2. CASE g # f
    <3>1. pollSock'[g] = pollSock[g] /\ fds'[g] = fds[g] /\ (g \in revents' <=> g \in revents)
      BY <1>1, <1>2, <2>2 DEF PollInv, PollTyped
    <3>2. g < cur_max_fd => g < cur_max_fd'
      BY <1>1, <1>2 DEF PollInv, PollTyped, Poll!ConstantsOK
    <3>3. EntrySound(g)
      BY DEF PollInv
    <3> QED BY <1>2, <3>1, <3>2, <3>3 DEF EntrySound
  <2> QED BY <2>1, <2>2
<1> QED BY <1>2, <1>4, <1>5 DEF PollInv

\* A step that only deals with f and leaves the byte.
LEMMA OtherEntries ==
  ASSUME PollInv, NEW f \in PollFd, NEW g \in PollFd, f # g,
         UNCHANGED <<cur_max_fd, ch>>,
         pollSock'[g] = pollSock[g], fds'[g] = fds[g], due'[g] = due[g], got'[g] = got[g],
         revents' \subseteq revents, g \in mixed' <=> g \in mixed
  PROVE  EntrySound(g)'
  BY DEF PollInv, EntrySound

\* A step that reads f and changes the byte.
LEMMA MixedEntries ==
  ASSUME PollInv, NEW f \in PollFd, NEW g \in PollFd, f # g,
         UNCHANGED cur_max_fd, mixed' = (mixed \ {f}) \cup Poll!Others(f),
         pollSock'[g] = pollSock[g], fds'[g] = fds[g], due'[g] = due[g], got'[g] = got[g],
         revents' \subseteq revents
  PROVE  EntrySound(g)'
  BY DEF PollInv, EntrySound, Poll!Others

\* A client that left is closed and its entry cleared (poll/server.c:71-76).
LEMMA ClosesPollInv == ASSUME Poll!ConstantsOK, PollInv, NEW f \in PollFd, Poll!Closes(f) PROVE PollInv'
<1>1. /\ pollSock' = [pollSock EXCEPT ![f] = Poll!Closed] /\ fds' = [fds EXCEPT ![f] = "none"]
      /\ due' = [due EXCEPT ![f] = Poll!NoByte] /\ got' = [got EXCEPT ![f] = Poll!NoByte]
      /\ mixed' = mixed \ {f} /\ revents' = revents \ {f}
      /\ UNCHANGED <<cur_max_fd, ch, pollBacklog, pollPhase>>
  BY DEF Poll!Closes
<1>2. PollTyped'
  <2>1. Poll!Closed \in [open : BOOLEAN, peer : Peer, inbox : Seq(Poll!Byte)]
    BY DEF Poll!Closed, Peer
  <2> QED BY <1>1, <2>1 DEF PollInv, PollTyped
<1>3. EntrySound(f)'
  BY <1>1 DEF PollInv, PollTyped, EntrySound, Poll!Closed
<1>4. ASSUME NEW g \in PollFd, g # f PROVE EntrySound(g)'
  <2>1. /\ pollSock'[g] = pollSock[g] /\ fds'[g] = fds[g] /\ due'[g] = due[g] /\ got'[g] = got[g]
        /\ revents' \subseteq revents /\ (g \in mixed' <=> g \in mixed)
        /\ UNCHANGED <<cur_max_fd, ch>>
    BY <1>1, <1>4 DEF PollInv, PollTyped
  <2> QED BY <1>4, <2>1, OtherEntries
<1> QED BY <1>1, <1>2, <1>3, <1>4 DEF PollInv

\* A byte is read and the entry waits to write (poll/server.c:77-81).
LEMMA ReadsPollInv == ASSUME Poll!ConstantsOK, PollInv, NEW f \in PollFd, Poll!Reads(f) PROVE PollInv'
<1> DEFINE b == Poll!Next1(Head(pollSock[f].inbox))
<1>1. /\ f \in revents /\ f # Listen /\ pollSock[f].inbox # <<>> /\ fds[f] = "in"
      /\ ch' = b /\ pollSock' = [pollSock EXCEPT ![f].inbox = Tail(@)]
      /\ fds' = [fds EXCEPT ![f] = "out"]
      /\ due' = [due EXCEPT ![f] = b] /\ got' = [got EXCEPT ![f] = Poll!NoByte]
      /\ mixed' = (mixed \ {f}) \cup Poll!Others(f) /\ revents' = revents \ {f}
      /\ UNCHANGED <<cur_max_fd, pollBacklog, pollPhase>>
  BY DEF Poll!Reads, Poll!ToRead, Poll!Scans
<1>2. pollSock[f] \in [open : BOOLEAN, peer : Peer, inbox : Seq(Poll!Byte)]
  BY DEF PollInv, PollTyped
<1>3. Head(pollSock[f].inbox) \in Poll!Byte /\ Tail(pollSock[f].inbox) \in Seq(Poll!Byte)
  BY <1>1, <1>2
<1>4. b \in Poll!Byte /\ b # Poll!NoByte
  BY <1>3, ByteFacts
<1> HIDE DEF b
<1>5. PollTyped'
  <2>1. [pollSock[f] EXCEPT !.inbox = Tail(@)] \in [open : BOOLEAN, peer : Peer, inbox : Seq(Poll!Byte)]
    BY <1>2, <1>3
  <2>2. pollSock' \in [PollFd -> [open : BOOLEAN, peer : Peer, inbox : Seq(Poll!Byte)]]
    BY <1>1, <2>1 DEF PollInv, PollTyped
  <2> QED BY <1>1, <1>4, <2>2 DEF PollInv, PollTyped, Poll!Others
<1>6. EntrySound(f)'
  BY <1>1, <1>2, <1>4 DEF PollInv, PollTyped, EntrySound, Poll!Others
<1>7. ASSUME NEW g \in PollFd, g # f PROVE EntrySound(g)'
  <2>1. /\ pollSock'[g] = pollSock[g] /\ fds'[g] = fds[g] /\ due'[g] = due[g] /\ got'[g] = got[g]
        /\ revents' \subseteq revents
    BY <1>1, <1>7 DEF PollInv, PollTyped
  <2> QED BY <1>1, <1>7, <2>1, MixedEntries
<1> QED BY <1>1, <1>5, <1>6, <1>7 DEF PollInv

\* A read from a reset connection leaves the byte of another in ch.
LEMMA ReadFailsPollInv ==
  ASSUME Poll!ConstantsOK, PollInv, NEW f \in PollFd, Poll!ReadFails(f) PROVE PollInv'
<1>1. /\ f \in revents /\ fds[f] = "in"
      /\ ch' = Poll!Next1(ch) /\ pollSock' = [pollSock EXCEPT ![f].peer = "dead"]
      /\ fds' = [fds EXCEPT ![f] = "out"]
      /\ due' = [due EXCEPT ![f] = Poll!NoByte] /\ got' = [got EXCEPT ![f] = Poll!NoByte]
      /\ mixed' = (mixed \ {f}) \cup Poll!Others(f) /\ revents' = revents \ {f}
      /\ UNCHANGED <<cur_max_fd, pollBacklog, pollPhase>>
  BY DEF Poll!ReadFails, Poll!ToRead, Poll!Scans
<1>2. pollSock[f] \in [open : BOOLEAN, peer : Peer, inbox : Seq(Poll!Byte)]
  BY DEF PollInv, PollTyped
<1>3. Poll!Next1(ch) \in Poll!Byte
  BY ByteFacts DEF PollInv, PollTyped
<1>4. PollTyped'
  <2>1. pollSock' \in [PollFd -> [open : BOOLEAN, peer : Peer, inbox : Seq(Poll!Byte)]]
    <3>1. [pollSock[f] EXCEPT !.peer = "dead"] \in [open : BOOLEAN, peer : Peer, inbox : Seq(Poll!Byte)]
      BY <1>2 DEF Peer
    <3> QED BY <1>1, <3>1 DEF PollInv, PollTyped
  <2> QED BY <1>1, <1>3, <2>1 DEF PollInv, PollTyped, Poll!Others
<1>5. EntrySound(f)'
  BY <1>1, <1>2 DEF PollInv, PollTyped, EntrySound, Poll!Others
<1>6. ASSUME NEW g \in PollFd, g # f PROVE EntrySound(g)'
  <2>1. /\ pollSock'[g] = pollSock[g] /\ fds'[g] = fds[g] /\ due'[g] = due[g] /\ got'[g] = got[g]
        /\ revents' \subseteq revents
    BY <1>1, <1>6 DEF PollInv, PollTyped
  <2> QED BY <1>1, <1>6, <2>1, MixedEntries
<1> QED BY <1>1, <1>4, <1>5, <1>6 DEF PollInv

\* An answer is written and the entry waits to read (poll/server.c:83-88).
LEMMA WritesPollInv == ASSUME Poll!ConstantsOK, PollInv, NEW f \in PollFd, Poll!Writes(f) PROVE PollInv'
<1>1. /\ f \in revents /\ fds[f] = "out" /\ pollSock[f].peer # "dead"
      /\ pollSock' = [pollSock EXCEPT ![f].peer = IF @ = "reset" THEN "dead" ELSE @]
      /\ fds' = [fds EXCEPT ![f] = "in"]
      /\ got' = [got EXCEPT ![f] = ch] /\ revents' = revents \ {f}
      /\ UNCHANGED <<cur_max_fd, ch, pollBacklog, pollPhase, due, mixed>>
  BY DEF Poll!Writes, Poll!ToWrite, Poll!Scans
<1>2. pollSock[f] \in [open : BOOLEAN, peer : Peer, inbox : Seq(Poll!Byte)]
  BY DEF PollInv, PollTyped
<1>3. ch \in Poll!Byte /\ ch # Poll!NoByte
  BY ByteFacts DEF PollInv, PollTyped
<1>4. PollTyped'
  <2>1. pollSock' \in [PollFd -> [open : BOOLEAN, peer : Peer, inbox : Seq(Poll!Byte)]]
    <3>1. [pollSock[f] EXCEPT !.peer = IF @ = "reset" THEN "dead" ELSE @]
             \in [open : BOOLEAN, peer : Peer, inbox : Seq(Poll!Byte)]
      BY <1>2 DEF Peer
    <3> QED BY <1>1, <3>1 DEF PollInv, PollTyped
  <2> QED BY <1>1, <1>3, <2>1 DEF PollInv, PollTyped
<1>5. EntrySound(f)'
  BY <1>1, <1>2, <1>3 DEF PollInv, PollTyped, EntrySound
<1>6. ASSUME NEW g \in PollFd, g # f PROVE EntrySound(g)'
  <2>1. /\ pollSock'[g] = pollSock[g] /\ fds'[g] = fds[g] /\ due'[g] = due[g] /\ got'[g] = got[g]
        /\ revents' \subseteq revents /\ (g \in mixed' <=> g \in mixed)
        /\ UNCHANGED <<cur_max_fd, ch>>
    BY <1>1, <1>6 DEF PollInv, PollTyped
  <2> QED BY <1>6, <2>1, OtherEntries
<1> QED BY <1>1, <1>4, <1>5, <1>6 DEF PollInv

\* A client: what poll has reported of a connection stays true.
LEMMA ClientPollInv == ASSUME Poll!ConstantsOK, PollInv, Poll!Client PROVE PollInv'
<1>1. UNCHANGED <<fds, cur_max_fd, revents, ch, pollPhase, due, got, mixed>>
  BY DEF Poll!Client, Poll!ClientConnects, Poll!ClientSends, Poll!ClientLeaves, Poll!OnlySockets, Poll!server, Poll!ghosts
<1>2. CASE Poll!ClientConnects
  <2>1. pollBacklog < MaxBacklog /\ pollBacklog' = pollBacklog + 1 /\ UNCHANGED pollSock
    BY <1>2 DEF Poll!ClientConnects
  <2>2. pollBacklog' \in 0..MaxBacklog /\ pollBacklog' > 0
    BY <2>1 DEF PollInv, PollTyped, Poll!ConstantsOK
  <2> QED BY <1>1, <2>1, <2>2 DEF PollInv, PollTyped, EntrySound
<1>3. ASSUME NEW f \in PollFd, NEW p \in Peer, NEW q \in Seq(Poll!Byte),
             pollSock' = [pollSock EXCEPT ![f] = [pollSock[f] EXCEPT !.peer = p, !.inbox = q]],
             pollBacklog' = pollBacklog,
             pollSock[f].peer = "dead" => p = "dead",
             pollSock[f].inbox # <<>> \/ pollSock[f].peer # "open" => q # <<>> \/ p # "open"
      PROVE  PollInv'
  <2>1. \A g \in PollFd : pollSock[g] \in [open : BOOLEAN, peer : Peer, inbox : Seq(Poll!Byte)]
    BY DEF PollInv, PollTyped
  <2>2. /\ pollSock'[f].open = pollSock[f].open /\ pollSock'[f].peer = p /\ pollSock'[f].inbox = q
        /\ \A g \in PollFd \ {f} : pollSock'[g] = pollSock[g]
        /\ pollSock' \in [PollFd -> [open : BOOLEAN, peer : Peer, inbox : Seq(Poll!Byte)]]
    <3>1. [pollSock[f] EXCEPT !.peer = p, !.inbox = q]
             \in [open : BOOLEAN, peer : Peer, inbox : Seq(Poll!Byte)]
      BY <2>1
    <3> QED BY <1>3, <2>1, <3>1 DEF PollInv, PollTyped
  <2>3. PollTyped'
    BY <1>1, <1>3, <2>2 DEF PollInv, PollTyped
  <2>4. ASSUME NEW g \in PollFd PROVE EntrySound(g)'
    <3>1. CASE g = f
      BY <1>1, <1>3, <2>2, <3>1 DEF PollInv, EntrySound
    <3>2. CASE g # f
      BY <1>1, <2>2, <3>2 DEF PollInv, EntrySound
    <3> QED BY <3>1, <3>2
  <2> QED BY <1>1, <1>3, <2>3, <2>4 DEF PollInv
<1>4. ASSUME NEW f \in PollFd, NEW b \in Poll!Byte, Poll!ClientSends(f, b) PROVE PollInv'
  <2>1. pollSock[f] \in [open : BOOLEAN, peer : Peer, inbox : Seq(Poll!Byte)]
    BY DEF PollInv, PollTyped
  <2>2. /\ Append(pollSock[f].inbox, b) \in Seq(Poll!Byte) /\ Append(pollSock[f].inbox, b) # <<>>
        /\ pollSock[f].peer = "open" /\ pollBacklog' = pollBacklog
    BY <1>4, <2>1, SMTT(150) DEF Poll!ClientSends
  <2>3. pollSock' = [pollSock EXCEPT ![f] = [pollSock[f] EXCEPT !.peer = pollSock[f].peer,
                                       !.inbox = Append(pollSock[f].inbox, b)]]
    BY <1>4, <2>1, ZenonT(60) DEF Poll!ClientSends, PollInv, PollTyped
  <2> QED BY <1>3, <2>1, <2>2, <2>3
<1>5. ASSUME NEW f \in PollFd, NEW how \in {"fin", "reset"}, Poll!ClientLeaves(f, how)
      PROVE  PollInv'
  <2>1. pollSock[f] \in [open : BOOLEAN, peer : Peer, inbox : Seq(Poll!Byte)]
    BY DEF PollInv, PollTyped
  <2>2. PICK p \in {"fin", "reset", "dead"} :
          pollSock' = [pollSock EXCEPT ![f].peer = p] /\ pollSock[f].peer \in {"open", "fin"}
    BY <1>5 DEF Poll!ClientLeaves
  <2>3. pollSock' = [pollSock EXCEPT ![f] = [pollSock[f] EXCEPT !.peer = p, !.inbox = pollSock[f].inbox]]
    BY <2>1, <2>2, ZenonT(60) DEF PollInv, PollTyped
  <2>4. pollBacklog' = pollBacklog /\ p \in Peer
    BY <1>5 DEF Poll!ClientLeaves, Peer
  <2>5. pollSock[f].inbox \in Seq(Poll!Byte) /\ p # "open" /\ pollSock[f].peer # "dead"
    BY <2>1, <2>2
  <2> QED BY <1>3, <2>3, <2>4, <2>5
<1> QED BY <1>2, <1>4, <1>5 DEF Poll!Client

\* Every step keeps the invariant of the poll server.
LEMMA NextPollInv == Poll!ConstantsOK /\ PollInv /\ [Poll!Next]_(Poll!vars) => PollInv'
<1> SUFFICES ASSUME Poll!ConstantsOK, PollInv, [Poll!Next]_(Poll!vars) PROVE PollInv'
  OBVIOUS
<1>1. CASE Poll!Poll
  <2>1. /\ revents' = Poll!Ready /\ pollPhase' = "scan" /\ Listen \notin PollFd
        /\ UNCHANGED <<fds, cur_max_fd, ch, pollSock, pollBacklog, due, got, mixed>>
    BY <1>1 DEF Poll!Poll, Poll!ghosts, Poll!ConstantsOK
  <2>2. PollTyped'
    BY <2>1 DEF PollInv, PollTyped, Poll!Ready, Poll!Open
  <2>3. Listen \in revents' => pollBacklog > 0
    BY <2>1 DEF Poll!Ready, Poll!Open
  <2>4. ASSUME NEW f \in PollFd PROVE EntrySound(f)'
    BY <2>1 DEF PollInv, EntrySound, Poll!Ready, Poll!Open
  <2> QED BY <2>1, <2>2, <2>3, <2>4 DEF PollInv
<1>2. CASE Poll!ScanDone
  BY <1>2 DEF Poll!ScanDone, PollInv, PollTyped, EntrySound, Poll!server, Poll!ghosts
<1>3. ASSUME NEW f \in PollFd, Poll!WriteKilled(f) PROVE PollInv'
  BY <1>3 DEF Poll!WriteKilled, PollInv, PollTyped, EntrySound, Poll!server, Poll!ghosts
<1>4. CASE UNCHANGED Poll!vars
  BY <1>4 DEF Poll!vars, PollInv, PollTyped, EntrySound, Poll!server, Poll!ghosts
<1> QED BY <1>1, <1>2, <1>3, <1>4, AcceptsPollInv, ClosesPollInv, ReadsPollInv,
           ReadFailsPollInv, WritesPollInv, ClientPollInv DEF Poll!Next, Poll!Loop, Poll!Stopped

\* The table of the poll server is exact and what poll reported stays true
\* through the scan, for any descriptors, bytes and clients: an entry exists
\* for each open connection and no other, below the length given to poll; an
\* answer is the byte of its own client unless another was read in between
\* (poll/server.c:55-88).
THEOREM TablesAreExact == Poll!Spec => []TableExact
<1>1. PollInv => TableExact
  BY DEF PollInv, PollTyped, EntrySound, TableExact, Poll!TableExact, Poll!TypeOK, Poll!Open
<1>2. Poll!Init => PollInv
  BY InitPollInv, ServersAssumption
<1>3. PollInv /\ [Poll!Next]_(Poll!vars) => PollInv'
  BY NextPollInv, ServersAssumption
<1> QED BY <1>1, <1>2, <1>3, PTL DEF Poll!Spec

-----------------------------------------------------------------------------
(* The select server.                                                      *)

SelectTyped ==
    /\ Listen \in readfds
    /\ readfds \cup testfds \subseteq SelectFd \cup {Listen}
    /\ selectSock \in [SelectFd -> [open : BOOLEAN, peer : Peer, inbox : 0..MaxInbox]]
    /\ selectBacklog \in 0..MaxBacklog
    /\ selectPhase \in {"select", "scan", "answer", "stopped"}

\* What the scan has still to come to is there, and ready, except for the
\* descriptor that is being answered.
SelectInv ==
    /\ SelectTyped
    /\ \A f \in readfds \ {Listen} : selectSock[f].open
    /\ Listen \in testfds => selectBacklog > 0
    /\ selectPhase \in {"answer", "stopped"} => fd \in SelectFd
    /\ \A f \in testfds \ {Listen} :
          /\ selectSock[f].open
          /\ \/ selectSock[f].inbox > 0 \/ selectSock[f].peer # "open"
             \/ selectPhase \in {"answer", "stopped"} /\ f = fd

\* At the start.
LEMMA InitSelectInv == Select!ConstantsOK /\ Select!Init => SelectInv
  BY DEF Select!ConstantsOK, Select!Init, Select!Closed, SelectInv, SelectTyped, Peer

\* A step on the connection f alone.
LEMMA SelectSockTyped ==
  ASSUME SelectInv, NEW f \in SelectFd,
         NEW c \in [open : BOOLEAN, peer : Peer, inbox : 0..MaxInbox],
         selectSock' = [selectSock EXCEPT ![f] = c]
  PROVE  /\ selectSock' \in [SelectFd -> [open : BOOLEAN, peer : Peer, inbox : 0..MaxInbox]]
         /\ selectSock'[f] = c
         /\ \A g \in SelectFd \ {f} : selectSock'[g] = selectSock[g]
  BY DEF SelectInv, SelectTyped

\* A step of the server (select/server.c:48-82).
LEMMA LoopSelectInv ==
  ASSUME Select!ConstantsOK, SelectInv, Select!Loop PROVE SelectInv'
<1>1. CASE Select!SelectReturns
  BY <1>1 DEF Select!SelectReturns, Select!Ready, Select!Readable, SelectInv, SelectTyped
<1>2. CASE Select!SelectTimesOut
  BY <1>2 DEF Select!SelectTimesOut, SelectInv, SelectTyped
<1>3. CASE Select!Accepts
  <2>1. PICK f \in SelectFd \ Select!Open :
          /\ selectSock' = [selectSock EXCEPT ![f] = Select!Accepted]
          /\ readfds' = readfds \cup {f}
    BY <1>3 DEF Select!Accepts
  <2>2. /\ selectPhase = "scan" /\ Listen \in testfds
        /\ selectBacklog' = selectBacklog - 1 /\ testfds' = testfds \ {Listen}
        /\ UNCHANGED <<selectPhase, fd>>
    BY <1>3 DEF Select!Accepts
  <2>3. Select!Accepted \in [open : BOOLEAN, peer : Peer, inbox : 0..MaxInbox]
    BY DEF Select!Accepted, Peer, Select!ConstantsOK
  <2>4. /\ selectSock' \in [SelectFd -> [open : BOOLEAN, peer : Peer, inbox : 0..MaxInbox]]
        /\ selectSock'[f] = Select!Accepted
        /\ \A g \in SelectFd \ {f} : selectSock'[g] = selectSock[g]
    BY <2>1, <2>3, SelectSockTyped
  <2>5. Select!Accepted.open
    BY DEF Select!Accepted
  <2>6. f \notin testfds /\ f # Listen
    BY <2>1 DEF Select!Open, SelectInv, Select!ConstantsOK
  <2>7. selectBacklog' \in 0..MaxBacklog
    BY <2>2 DEF SelectInv, SelectTyped, Select!ConstantsOK
  <2>8. SelectTyped'
    BY <2>1, <2>2, <2>4, <2>7 DEF SelectInv, SelectTyped
  <2> QED BY <2>1, <2>2, <2>4, <2>5, <2>6, <2>8 DEF SelectInv, SelectTyped
<1>4. CASE Select!Closes
  <2>1. PICK f \in SelectFd :
          /\ f \in testfds \ {Listen} /\ selectPhase = "scan"
          /\ selectSock' = [selectSock EXCEPT ![f] = Select!Closed]
          /\ readfds' = readfds \ {f} /\ testfds' = testfds \ {f}
          /\ UNCHANGED <<selectBacklog, selectPhase, fd>>
    BY <1>4 DEF Select!Closes, Select!Serves
  <2>2. Select!Closed \in [open : BOOLEAN, peer : Peer, inbox : 0..MaxInbox]
    BY DEF Select!Closed, Peer, Select!ConstantsOK
  <2>3. /\ selectSock' \in [SelectFd -> [open : BOOLEAN, peer : Peer, inbox : 0..MaxInbox]]
        /\ \A g \in SelectFd \ {f} : selectSock'[g] = selectSock[g]
    BY <2>1, <2>2, SelectSockTyped
  <2>4. SelectTyped'
    BY <2>1, <2>3 DEF SelectInv, SelectTyped
  <2> QED BY <2>1, <2>3, <2>4 DEF SelectInv, SelectTyped
<1>5. CASE Select!Reads
  <2>1. PICK f \in SelectFd :
          /\ f \in testfds \ {Listen} /\ selectPhase = "scan"
          /\ selectSock[f].inbox > 0
          /\ selectSock' = [selectSock EXCEPT ![f].inbox = @ - 1]
          /\ fd' = f /\ selectPhase' = "answer"
          /\ UNCHANGED <<readfds, testfds, selectBacklog>>
    BY <1>5 DEF Select!Reads, Select!Serves
  <2> DEFINE c == [selectSock[f] EXCEPT !.inbox = @ - 1]
  <2>2. selectSock[f] \in [open : BOOLEAN, peer : Peer, inbox : 0..MaxInbox]
    BY DEF SelectInv, SelectTyped
  <2>3. /\ c \in [open : BOOLEAN, peer : Peer, inbox : 0..MaxInbox]
        /\ c.open = selectSock[f].open
    BY <2>1, <2>2 DEF Select!ConstantsOK
  <2>4. selectSock' = [selectSock EXCEPT ![f] = c]
    BY <2>1
  <2> HIDE DEF c
  <2>5. /\ selectSock' \in [SelectFd -> [open : BOOLEAN, peer : Peer, inbox : 0..MaxInbox]]
        /\ selectSock'[f] = c
        /\ \A g \in SelectFd \ {f} : selectSock'[g] = selectSock[g]
    BY <2>3, <2>4, SelectSockTyped
  <2>6. SelectTyped'
    BY <2>1, <2>5 DEF SelectInv, SelectTyped
  <2> QED BY <2>1, <2>3, <2>5, <2>6 DEF SelectInv, SelectTyped
<1>6. CASE Select!Writes
  <2>1. /\ selectPhase = "answer" /\ fd \in SelectFd
        /\ selectSock' = [selectSock EXCEPT ![fd].peer = IF @ = "reset" THEN "dead" ELSE @]
        /\ testfds' = testfds \ {fd} /\ selectPhase' = "scan"
        /\ UNCHANGED <<readfds, selectBacklog, fd>>
    BY <1>6 DEF Select!Writes, SelectInv
  <2> DEFINE c == [selectSock[fd] EXCEPT !.peer = IF @ = "reset" THEN "dead" ELSE @]
  <2>2. selectSock[fd] \in [open : BOOLEAN, peer : Peer, inbox : 0..MaxInbox]
    BY <2>1 DEF SelectInv, SelectTyped
  <2>3. /\ c \in [open : BOOLEAN, peer : Peer, inbox : 0..MaxInbox]
        /\ c.open = selectSock[fd].open
    BY <2>1, <2>2 DEF Peer
  <2>4. selectSock' = [selectSock EXCEPT ![fd] = c]
    BY <2>1
  <2> HIDE DEF c
  <2>5. /\ selectSock' \in [SelectFd -> [open : BOOLEAN, peer : Peer, inbox : 0..MaxInbox]]
        /\ selectSock'[fd] = c
        /\ \A g \in SelectFd \ {fd} : selectSock'[g] = selectSock[g]
    BY <2>1, <2>3, <2>4, SelectSockTyped, ZenonT(60)
  <2>6. SelectTyped'
    BY <2>1, <2>5 DEF SelectInv, SelectTyped
  <2> QED BY <2>1, <2>3, <2>5, <2>6 DEF SelectInv, SelectTyped
<1>7. CASE Select!WriteKilled
  BY <1>7 DEF Select!WriteKilled, SelectInv, SelectTyped
<1>8. CASE Select!ScanDone
  BY <1>8 DEF Select!ScanDone, SelectInv, SelectTyped
<1> QED BY <1>1, <1>2, <1>3, <1>4, <1>5, <1>6, <1>7, <1>8 DEF Select!Loop

\* A client only adds to what select reported.
LEMMA ClientSelectInv ==
  ASSUME Select!ConstantsOK, SelectInv, Select!Client PROVE SelectInv'
<1>1. UNCHANGED <<readfds, testfds, selectPhase, fd>>
  BY DEF Select!Client, Select!ClientConnects, Select!ClientSends,
         Select!ClientLeaves, Select!OnlySockets
<1>2. CASE Select!ClientConnects
  <2>1. selectBacklog < MaxBacklog /\ selectBacklog' = selectBacklog + 1
        /\ UNCHANGED selectSock
    BY <1>2 DEF Select!ClientConnects
  <2>2. selectBacklog' \in 0..MaxBacklog /\ selectBacklog' > 0
    BY <2>1 DEF SelectInv, SelectTyped, Select!ConstantsOK
  <2> QED BY <1>1, <2>1, <2>2 DEF SelectInv, SelectTyped
<1>3. ASSUME NEW f \in SelectFd, NEW c \in [open : BOOLEAN, peer : Peer, inbox : 0..MaxInbox],
             selectSock' = [selectSock EXCEPT ![f] = c],
             selectBacklog' = selectBacklog, c.open = selectSock[f].open,
             c.inbox > 0 \/ c.peer # "open"
      PROVE  SelectInv'
  <2>1. /\ selectSock' \in [SelectFd -> [open : BOOLEAN, peer : Peer, inbox : 0..MaxInbox]]
        /\ selectSock'[f] = c
        /\ \A g \in SelectFd \ {f} : selectSock'[g] = selectSock[g]
    BY <1>3, SelectSockTyped
  <2> QED BY <1>1, <1>3, <2>1 DEF SelectInv, SelectTyped
<1>4. ASSUME NEW f \in SelectFd, Select!ClientSends(f) PROVE SelectInv'
  <2> DEFINE c == [selectSock[f] EXCEPT !.inbox = @ + 1]
  <2>1. selectSock[f] \in [open : BOOLEAN, peer : Peer, inbox : 0..MaxInbox]
    BY DEF SelectInv, SelectTyped
  <2>2. /\ c \in [open : BOOLEAN, peer : Peer, inbox : 0..MaxInbox]
        /\ c.open = selectSock[f].open /\ c.inbox > 0
    BY <1>4, <2>1 DEF Select!ClientSends, Select!ConstantsOK
  <2>3. selectSock' = [selectSock EXCEPT ![f] = c] /\ selectBacklog' = selectBacklog
    BY <1>4 DEF Select!ClientSends
  <2> HIDE DEF c
  <2> QED BY <1>3, <2>2, <2>3
<1>5. ASSUME NEW f \in SelectFd, NEW how \in {"fin", "reset"}, Select!ClientLeaves(f, how)
      PROVE  SelectInv'
  <2>1. selectSock[f] \in [open : BOOLEAN, peer : Peer, inbox : 0..MaxInbox]
    BY DEF SelectInv, SelectTyped
  <2>2. PICK p \in {"fin", "reset", "dead"} :
          selectSock' = [selectSock EXCEPT ![f].peer = p]
    BY <1>5 DEF Select!ClientLeaves
  <2> DEFINE c == [selectSock[f] EXCEPT !.peer = p]
  <2>3. /\ c \in [open : BOOLEAN, peer : Peer, inbox : 0..MaxInbox]
        /\ c.open = selectSock[f].open /\ c.peer # "open"
    BY <2>1, <2>2 DEF Peer
  <2>4. selectSock' = [selectSock EXCEPT ![f] = c] /\ selectBacklog' = selectBacklog
    BY <1>5, <2>2 DEF Select!ClientLeaves
  <2> HIDE DEF c
  <2> QED BY <1>3, <2>3, <2>4
<1> QED BY <1>2, <1>4, <1>5 DEF Select!Client

\* Every step keeps the invariant of the select server.
LEMMA NextSelectInv ==
  Select!ConstantsOK /\ SelectInv /\ [Select!Next]_(Select!vars) => SelectInv'
<1> SUFFICES ASSUME Select!ConstantsOK, SelectInv, [Select!Next]_(Select!vars)
             PROVE  SelectInv'
  OBVIOUS
<1>1. CASE UNCHANGED Select!vars
  BY <1>1 DEF Select!vars, SelectInv, SelectTyped
<1> QED BY <1>1, LoopSelectInv, ClientSelectInv DEF Select!Next, Select!Stopped

\* What the select server watches is open and what select reported stays true
\* through the scan that sleeps, whatever the clients do and whichever
\* descriptors are handed out again: no accept and no read blocks, and no bytes
\* means the end (select/server.c:48-82).
THEOREM SelectIsReady == Select!Spec => []SelectReady
<1>1. SelectInv => SelectReady
  BY DEF SelectInv, SelectTyped, SelectReady, Select!SelectReady, Select!TypeOK, Select!Open,
         Select!Readable
<1>2. Select!Init => SelectInv
  BY InitSelectInv, ServersAssumption
<1>3. SelectInv /\ [Select!Next]_(Select!vars) => SelectInv'
  BY NextSelectInv, ServersAssumption
<1> QED BY <1>1, <1>2, <1>3, PTL DEF Select!Spec

-----------------------------------------------------------------------------
\* A behaviour of the demos together is, seen from each of them, one of that demo or
\* one in which it never starts: so what is proved of the demos holds of it, too
\* (msg_rcv.c:28-49, saleticket.c:25-60, poll/server.c:55-88, select/server.c:48-82).
THEOREM DemosAreSound == MCSpec => [](DemosSound /\ TableExact /\ SelectReady)
<1> DEFINE Steps == [][MCNext]_MCvars
<1>1. MCInit => /\ Queue!Init /\ Threads!LinesInit /\ Threads!TicketsInit
                /\ Poll!Init /\ Select!Init
  BY DEF MCInit
<1>2. [MCNext]_MCvars => [Queue!Next]_(Queue!vars)
  BY DEF MCNext, SemaphoreStep, QueueStep, LinesStep, TicketsStep, ForksStep, PollStep,
         SelectStep, DemoStep, MCvars, demoVars, queueVars, Queue!vars
<1>3. [MCNext]_MCvars => [Threads!LinesNext]_(Threads!lineVars)
  BY DEF MCNext, SemaphoreStep, QueueStep, LinesStep, TicketsStep, ForksStep, PollStep,
         SelectStep, DemoStep, MCvars, demoVars, lineVars, Threads!lineVars
<1>4. [MCNext]_MCvars => [Threads!TicketsNext]_(Threads!ticketVars)
  BY DEF MCNext, SemaphoreStep, QueueStep, LinesStep, TicketsStep, ForksStep, PollStep,
         SelectStep, DemoStep, MCvars, demoVars, ticketVars, Threads!ticketVars
<1>5. [MCNext]_MCvars => [Poll!Next]_(Poll!vars)
  BY DEF MCNext, SemaphoreStep, QueueStep, LinesStep, TicketsStep, ForksStep, PollStep,
         SelectStep, DemoStep, MCvars, pollVars, Poll!vars, Poll!server, Poll!ghosts
<1>6. [MCNext]_MCvars => [Select!Next]_(Select!vars)
  BY DEF MCNext, SemaphoreStep, QueueStep, LinesStep, TicketsStep, ForksStep, PollStep,
         SelectStep, DemoStep, MCvars, selectVars, Select!vars
<1>7. MCSpec => MCInit /\ Steps
  BY PTL DEF MCSpec
<1>8. MCInit /\ Steps => []Queue!Delivers
  BY <1>1, <1>2, MessagesAreDelivered, PTL
<1>9. MCInit /\ Steps => []Threads!LinesSound
  BY <1>1, <1>3, ThreadsAssumption, LinesAreSound, PTL DEF Threads!LinesSpec
<1>10. MCInit /\ Steps => []Threads!TicketsOnce
  BY <1>1, <1>4, ThreadsAssumption, TicketsAreSoldOnce, PTL DEF Threads!TicketsSpec
<1>11. MCInit /\ Steps => []TableExact
  BY <1>1, <1>5, TablesAreExact, PTL DEF Poll!Spec
<1>12. MCInit /\ Steps => []SelectReady
  BY <1>1, <1>6, SelectIsReady, PTL DEF Select!Spec
<1>13. Queue!Delivers /\ Threads!LinesSound /\ Threads!TicketsOnce => DemosSound
  BY DEF DemosSound
<1> QED BY <1>7, <1>8, <1>9, <1>10, <1>11, <1>12, <1>13, PTL
=============================================================================
