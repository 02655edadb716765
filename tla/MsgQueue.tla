------------------------------- MODULE MsgQueue -------------------------------
(***************************************************************************)
(* The System V message queue demos: msg_snd sends lines up to one that    *)
(* says exit, msg_rcv prints lines up to that one and removes the queue;   *)
(* msg_send1 and msg_rcv2 do one message each.                             *)
(*                                                                         *)
(* All use one key.  Whoever comes first creates the queue, and whoever    *)
(* comes after it was removed creates another.  msgsnd waits while the     *)
(* queue is full, msgrcv while it is empty, and both fail when the queue   *)
(* is removed under them.                                                  *)
(***************************************************************************)
EXTENDS Integers, Sequences

CONSTANTS
    Sender,         \* processes of msg_snd and msg_send1
    Receiver,       \* processes of msg_rcv and msg_rcv2
    Single,         \* the processes of msg_send1 and msg_rcv2
    Capacity,       \* messages that fit in a queue
    MaxLine         \* bound: lines of a sender

Party == Sender \cup Receiver
NoQueue == 0

VARIABLES
    key,            \* the queue that has the key, or NoQueue
    queue,          \* messages of each queue that was created
    removed,        \* queues that were removed
    pc,             \* "off", "use", "remove", "done" or "failed"
    id,             \* msgid of each process
    sent,           \* ghost: lines of each sender
    printed         \* ghost: messages each receiver printed

vars == <<key, queue, removed, pc, id, sent, printed>>

Init ==
    /\ key = NoQueue
    /\ queue = <<>>
    /\ removed = {}
    /\ pc = [p \in Party |-> "off"]
    /\ id = [p \in Party |-> NoQueue]
    /\ sent = [s \in Sender |-> 0]
    /\ printed = [r \in Receiver |-> <<>>]

Goto(p, label) == pc' = [pc EXCEPT ![p] = label]

Message(s, b) == [from |-> s, line |-> sent[s] + 1, exit |-> b]

-----------------------------------------------------------------------------
(* Slips a programmer could make.  No behaviour of Spec takes one: each     *)
(* stands for an action below in a variant of this module in which the      *)
(* property named with it must fail.                                        *)

\* IPC_NOWAIT, and the error is ignored (Delivers).
SendLoses(s) ==
    /\ pc[s] = "use"
    /\ id[s] \notin removed
    /\ \E b \in BOOLEAN :
          /\ sent[s] + 1 = MaxLine => b
          /\ queue' = IF Len(queue[id[s]]) < Capacity
                      THEN [queue EXCEPT ![id[s]] = Append(@, Message(s, b))]
                      ELSE queue
          /\ Goto(s, IF b \/ s \in Single THEN "done" ELSE "use")
    /\ sent' = [sent EXCEPT ![s] = @ + 1]
    /\ UNCHANGED <<key, removed, id, printed>>

-----------------------------------------------------------------------------
\* msgget with IPC_CREAT.
Get(p) ==
    /\ pc[p] = "off"
    /\ IF key # NoQueue
       THEN UNCHANGED <<key, queue>>
       ELSE queue' = Append(queue, <<>>) /\ key' = Len(queue')
    /\ id' = [id EXCEPT ![p] = key']
    /\ Goto(p, "use")
    /\ UNCHANGED <<removed, sent, printed>>

\* fgets and msgsnd; the user types exit sooner or later.
Send(s) ==
    /\ pc[s] = "use"
    /\ id[s] \notin removed
    /\ Len(queue[id[s]]) < Capacity
    /\ \E b \in BOOLEAN :
          /\ sent[s] + 1 = MaxLine => b
          /\ queue' = [queue EXCEPT ![id[s]] = Append(@, Message(s, b))]
          /\ Goto(s, IF b \/ s \in Single THEN "done" ELSE "use")
    /\ sent' = [sent EXCEPT ![s] = @ + 1]
    /\ UNCHANGED <<key, removed, id, printed>>

\* msgrcv and printf.
Receive(r) ==
    LET m == Head(queue[id[r]]) IN
    /\ pc[r] = "use"
    /\ id[r] \notin removed
    /\ queue[id[r]] # <<>>
    /\ queue' = [queue EXCEPT ![id[r]] = Tail(@)]
    /\ printed' = [printed EXCEPT ![r] = Append(@, m)]
    /\ Goto(r, IF m.exit \/ r \in Single THEN "remove" ELSE "use")
    /\ UNCHANGED <<key, removed, id, sent>>

\* msgctl(IPC_RMID): the messages go, and the key is free.
Remove(r) ==
    /\ pc[r] = "remove"
    /\ id[r] \notin removed
    /\ removed' = removed \cup {id[r]}
    /\ queue' = [queue EXCEPT ![id[r]] = <<>>]
    /\ key' = IF key = id[r] THEN NoQueue ELSE key
    /\ Goto(r, "done")
    /\ UNCHANGED <<id, sent, printed>>

\* EIDRM or EINVAL.
Fails(p) ==
    /\ pc[p] \in {"use", "remove"}
    /\ id[p] \in removed
    /\ Goto(p, "failed")
    /\ UNCHANGED <<key, queue, removed, id, sent, printed>>

Works(p) ==
    \/ p \in Sender /\ Send(p)
    \/ p \in Receiver /\ (Receive(p) \/ Remove(p))
    \/ Fails(p)

Next == \E p \in Party : Get(p) \/ Works(p)

-----------------------------------------------------------------------------
(* Properties.                                                             *)

\* The lines of s among the messages ms are the first n, in order.
AreFirst(ms, s, n) ==
    LET own == {k \in DOMAIN ms : ms[k].from = s} IN
    /\ {ms[k].line : k \in own} = 1..n
    /\ \A j, k \in own : j < k => ms[j].line < ms[k].line

\* Whose exit ends a receiver that had the queue to itself had all lines printed,
\* in order; and a queue is removed only after an exit was printed or by rcv2
\* (msg_snd.c:29-42, msg_rcv.c:28-49).
Delivers ==
    /\ \A r \in Receiver \ Single : pc[r] \in {"remove", "done"} =>
          LET m == printed[r][Len(printed[r])] IN
          /\ m.exit
          /\ (\A u \in Receiver \ {r} : id[u] # id[r]) =>
                AreFirst(printed[r], m.from, m.line)
    /\ \A r, u \in Receiver : r # u =>
          \A n \in DOMAIN printed[r], k \in DOMAIN printed[u] : printed[r][n] # printed[u][k]

\* Every line that was sent is printed in the end.
AllPrinted ==
    (\A s \in Sender : pc[s] = "done") /\ (\A r \in Receiver : pc[r] \in {"done", "failed"}) =>
        \A s \in Sender : \A n \in 1..sent[s] :
            \E r \in Receiver : \E k \in DOMAIN printed[r] :
                printed[r][k].from = s /\ printed[r][k].line = n

\* A receiver whose queue holds an exit stops waiting (msg_rcv.c:28-41).
Stops ==
    \A r \in Receiver :
        pc[r] = "use" /\ (\E n \in DOMAIN queue[id[r]] : queue[id[r]][n].exit)
            ~> pc[r] \in {"done", "failed"}
=============================================================================
