---------------------------- MODULE SelectServer ----------------------------
(***************************************************************************)
(* The byte server of demo/select: one process, one set of descriptors     *)
(* that select waits on for two seconds at a time, one byte read, made     *)
(* one greater and sent back each time a client is ready.                  *)
(*                                                                         *)
(* Which byte is sent plays no part: the inbox of a connection is a count. *)
(* There are fewer clients than descriptors; accept then returns one.      *)
(***************************************************************************)
EXTENDS Integers, FiniteSets

CONSTANTS
    Fd,             \* descriptors accept can return
    Listen,         \* server_sockfd
    MaxInbox,       \* bound: bytes a client may have under way
    MaxBacklog      \* the backlog given to listen

\* What is assumed of the constants.
ConstantsOK ==
    /\ Fd \subseteq Nat /\ Listen \in Nat /\ \A f \in Fd : Listen < f
    /\ MaxInbox \in Nat \ {0} /\ MaxBacklog \in Nat

VARIABLES
    readfds,    \* the descriptors to wait for
    testfds,    \* those select has found ready and the scan has not reached
    sock,       \* the connections: open here, what the peer did, unread bytes
    backlog,    \* connections waiting for accept
    phase,      \* "select", "scan", "answer", "stopped"
    fd          \* the descriptor being served

vars == <<readfds, testfds, sock, backlog, phase, fd>>

Closed   == [open |-> FALSE, peer |-> "none", inbox |-> 0]
Accepted == [open |-> TRUE, peer |-> "open", inbox |-> 0]

Open == {f \in Fd : sock[f].open}

\* What select reports for reading: data, or the end of the connection.
Readable(f) == sock[f].inbox > 0 \/ sock[f].peer # "open"
Ready == {f \in readfds \ {Listen} : Readable(f)}
         \cup (IF backlog > 0 THEN {Listen} \cap readfds ELSE {})

Init ==
    /\ readfds = {Listen}
    /\ testfds = {}
    /\ sock = [f \in Fd |-> Closed]
    /\ backlog = 0
    /\ phase = "select"
    /\ fd = Listen

-----------------------------------------------------------------------------
(* Slips a programmer could make.  No behaviour of Spec takes one: each     *)
(* stands for an action below in a variant of this module in which the      *)
(* property named with it must fail.                                        *)

\* The scan goes over readfds instead of the copy (SelectReady).
SelectReturnsAll ==
    /\ phase = "select"
    /\ Ready # {}
    /\ testfds' = readfds
    /\ phase' = "scan"
    /\ UNCHANGED <<readfds, sock, backlog, fd>>

\* No FD_CLR (SelectReady).
ClosesUncleared ==
    /\ phase = "scan" /\ testfds # {}
    /\ \E f \in testfds \ {Listen} :
          /\ \A g \in testfds : f <= g
          /\ sock[f].inbox = 0
          /\ sock' = [sock EXCEPT ![f] = Closed]
          /\ testfds' = testfds \ {f}
    /\ UNCHANGED <<readfds, backlog, phase, fd>>

\* The scan ends with the first client it has served (Served).
WritesOnce ==
    /\ phase = "answer"
    /\ sock[fd].peer # "dead"
    /\ sock' = [sock EXCEPT ![fd].peer = IF @ = "reset" THEN "dead" ELSE @]
    /\ testfds' = {}
    /\ phase' = "scan"
    /\ UNCHANGED <<readfds, backlog, fd>>

-----------------------------------------------------------------------------
(* select.  Its error, EBADF for a closed descriptor in the set, would end  *)
(* the server; SelectReady says that it does not happen.                    *)

SelectReturns ==
    /\ phase = "select"
    /\ Ready # {}
    /\ testfds' = Ready
    /\ phase' = "scan"
    /\ UNCHANGED <<readfds, sock, backlog, fd>>

\* Two seconds without an event: empty the set and put the server back.
SelectTimesOut ==
    /\ phase = "select"
    /\ Ready = {}
    /\ readfds' = {Listen}
    /\ UNCHANGED <<testfds, sock, backlog, phase, fd>>

-----------------------------------------------------------------------------
(* The scan over the descriptors in ascending order.                       *)

\* accept, and add the client to the set.
Accepts ==
    /\ phase = "scan" /\ Listen \in testfds
    /\ \E f \in Fd \ Open :
          /\ sock' = [sock EXCEPT ![f] = Accepted]
          /\ readfds' = readfds \cup {f}
    /\ backlog' = backlog - 1
    /\ testfds' = testfds \ {Listen}
    /\ UNCHANGED <<phase, fd>>

Serves(f) == phase = "scan" /\ f \in testfds \ {Listen} /\ \A g \in testfds : f <= g

\* FIONREAD says 0: close the descriptor and take it out of the set.
Closes ==
    \E f \in Fd :
        /\ Serves(f)
        /\ sock[f].inbox = 0
        /\ sock' = [sock EXCEPT ![f] = Closed]
        /\ readfds' = readfds \ {f}
        /\ testfds' = testfds \ {f}
        /\ UNCHANGED <<backlog, phase, fd>>

\* Read one byte; five seconds pass before it is answered.
Reads ==
    \E f \in Fd :
        /\ Serves(f)
        /\ sock[f].inbox > 0
        /\ sock' = [sock EXCEPT ![f].inbox = @ - 1]
        /\ fd' = f
        /\ phase' = "answer"
        /\ UNCHANGED <<readfds, testfds, backlog>>

\* write, whose result is ignored; an error is reported once.
Writes ==
    /\ phase = "answer"
    /\ sock[fd].peer # "dead"
    /\ sock' = [sock EXCEPT ![fd].peer = IF @ = "reset" THEN "dead" ELSE @]
    /\ testfds' = testfds \ {fd}
    /\ phase' = "scan"
    /\ UNCHANGED <<readfds, backlog, fd>>

\* The error has been reported before: SIGPIPE.
WriteKilled ==
    /\ phase = "answer"
    /\ sock[fd].peer = "dead"
    /\ phase' = "stopped"
    /\ UNCHANGED <<readfds, testfds, sock, backlog, fd>>

ScanDone ==
    /\ phase = "scan"
    /\ testfds = {}
    /\ phase' = "select"
    /\ UNCHANGED <<readfds, testfds, sock, backlog, fd>>

-----------------------------------------------------------------------------
(* The clients.                                                            *)

OnlySockets == UNCHANGED <<readfds, testfds, phase, fd>>

ClientConnects ==
    /\ backlog < MaxBacklog
    /\ backlog + Cardinality(Open) < Cardinality(Fd)
    /\ backlog' = backlog + 1
    /\ UNCHANGED sock
    /\ OnlySockets

ClientSends(f) ==
    /\ sock[f].peer = "open"
    /\ sock[f].inbox < MaxInbox
    /\ sock' = [sock EXCEPT ![f].inbox = @ + 1]
    /\ UNCHANGED backlog
    /\ OnlySockets

\* The client closes or resets; after a close a reset is no read error.
ClientLeaves(f, how) ==
    /\ \/ /\ sock[f].peer = "open"
          /\ sock' = [sock EXCEPT ![f].peer = how]
       \/ /\ sock[f].peer = "fin" /\ how = "reset"
          /\ sock' = [sock EXCEPT ![f].peer = "dead"]
    /\ UNCHANGED backlog
    /\ OnlySockets

Stopped == phase = "stopped" /\ UNCHANGED vars

Loop ==
    \/ SelectReturns \/ SelectTimesOut
    \/ Accepts \/ Closes \/ Reads \/ Writes \/ WriteKilled \/ ScanDone

Client ==
    \/ ClientConnects
    \/ \E f \in Fd : \/ ClientSends(f)
                     \/ \E how \in {"fin", "reset"} : ClientLeaves(f, how)

Next == Loop \/ Client \/ Stopped

Spec == Init /\ [][Next]_vars

\* The server has a thread of its own, and select returns after two seconds.
FairSpec == Spec /\ WF_vars(Loop)

-----------------------------------------------------------------------------
(* Properties.                                                             *)

\* Every variable keeps its shape, and the server socket stays in the set.
TypeOK ==
    /\ Listen \in readfds
    /\ readfds \cup testfds \subseteq Fd \cup {Listen}
    /\ backlog \in 0..MaxBacklog
    /\ \A f \in Fd : sock[f].inbox \in 0..MaxInbox
    /\ phase \in {"select", "scan", "answer", "stopped"}

\* The set names open descriptors only, also when they are reused: select never
\* fails, and exit(1) is not reached.  Through a scan that takes five seconds a
\* client what select has reported stays true: accept and read never block the
\* server, nothing is read from a descriptor that is closed, and FIONREAD, which
\* says 0 for a quiet client too, is asked only where 0 means that the client
\* has left (server.c:48-82).
SelectReady ==
    /\ TypeOK
    /\ readfds \ {Listen} \subseteq Open
    /\ Listen \in testfds => backlog > 0
    /\ \A f \in testfds \ {Listen, fd} : f \in Open /\ Readable(f)

\* A client that the set names is served or closed once it has sent something.
Heard ==
    \A f \in Fd : f \in readfds /\ sock[f].inbox > 0
        ~> (phase = "answer" /\ fd = f) \/ ~sock[f].open \/ phase = "stopped"

\* server.c:65: the client is added to the set "to listen for data coming in".
ClientsHeard ==
    \A f \in Fd : sock[f].inbox > 0
        ~> (phase = "answer" /\ fd = f) \/ ~sock[f].open \/ phase = "stopped"
=============================================================================
