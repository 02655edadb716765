----------------------------- MODULE PollServer -----------------------------
(***************************************************************************)
(* The byte server of demo/poll: a table of pollfd indexed by descriptor,  *)
(* one byte read in one turn of the loop, made one greater, and sent back  *)
(* in a later turn, when poll reports that the client can be written to.   *)
(*                                                                         *)
(* The byte lives in one variable of the loop's body.  Its address is      *)
(* taken, nothing else shares its stack slot, and so it keeps its value    *)
(* from turn to turn.  There are fewer clients than descriptors; entries   *)
(* that are not in use name standard input, with no event asked for.       *)
(***************************************************************************)
EXTENDS Integers, Sequences, FiniteSets

CONSTANTS
    Fd,             \* descriptors accept can return
    Listen,         \* server_sockfd
    Bytes,          \* number of values of a char
    MaxInbox,       \* bound: bytes a client may have under way
    MaxBacklog      \* the backlog given to listen

\* What is assumed of the constants.
ConstantsOK ==
    /\ Fd \subseteq Nat /\ Listen \in Nat /\ \A f \in Fd : Listen < f
    /\ Bytes \in Nat \ {0} /\ MaxInbox \in Nat \ {0} /\ MaxBacklog \in Nat

VARIABLES
    fds,            \* events of the table: "none", "in" or "out"
    cur_max_fd,     \* entries of the table that are looked at
    revents,        \* entries with revents the scan has not reached
    ch,             \* the byte read last, plus one
    sock,           \* the connections: open here, what the peer did, unread bytes
    backlog,        \* connections waiting for accept
    phase,          \* "poll", "scan", or "stopped" when the process has died
    due,            \* ghost: the byte the connection is to be answered with
    got,            \* ghost: the byte it was answered with
    mixed           \* ghost: since it was read another connection has been

server == <<fds, cur_max_fd, revents, ch>>
ghosts == <<due, got, mixed>>
vars   == <<server, sock, backlog, phase, ghosts>>

Byte   == 0 .. Bytes - 1
NoByte == -1
Next1(b) == (b + 1) % Bytes

Closed   == [open |-> FALSE, peer |-> "none", inbox |-> <<>>]
Accepted == [open |-> TRUE, peer |-> "open", inbox |-> <<>>]

Open == {f \in Fd : sock[f].open}

\* Who waits for an answer while f is read.
Others(f) == {g \in Fd \ {f} : due[g] # NoByte /\ got[g] = NoByte}

\* The entry the scan comes to.
Scans(f) == phase = "scan" /\ f \in revents /\ \A g \in revents : f <= g

-----------------------------------------------------------------------------
(* Slips a programmer could make.  No behaviour of Spec takes one: each     *)
(* stands for an action below in a variant of this module in which the      *)
(* property named with it must fail.                                        *)

\* The entry of a closed descriptor stays (TableExact).
ClosesKeepsEntry(f) ==
    /\ Scans(f) /\ f # Listen /\ fds[f] = "in"
    /\ sock[f].inbox = <<>> /\ sock[f].peer \in {"fin", "dead"}
    /\ sock' = [sock EXCEPT ![f] = Closed]
    /\ due' = [due EXCEPT ![f] = NoByte]
    /\ got' = [got EXCEPT ![f] = NoByte]
    /\ mixed' = mixed \ {f}
    /\ revents' = revents \ {f}
    /\ UNCHANGED <<fds, cur_max_fd, ch, backlog, phase>>

\* The byte is sent back as it came (TableExact).
ReadsUnchanged(f) ==
    /\ Scans(f) /\ f # Listen /\ fds[f] = "in"
    /\ sock[f].inbox # <<>>
    /\ ch' = Head(sock[f].inbox)
    /\ sock' = [sock EXCEPT ![f].inbox = Tail(@)]
    /\ fds' = [fds EXCEPT ![f] = "out"]
    /\ due' = [due EXCEPT ![f] = Next1(Head(sock[f].inbox))]
    /\ got' = [got EXCEPT ![f] = NoByte]
    /\ mixed' = (mixed \ {f}) \cup Others(f)
    /\ revents' = revents \ {f}
    /\ UNCHANGED <<cur_max_fd, backlog, phase>>

\* The event asked for stays that for writing (Served).
WritesForEver(f) ==
    /\ Scans(f) /\ f # Listen /\ fds[f] = "out"
    /\ sock[f].peer # "dead"
    /\ sock' = [sock EXCEPT ![f].peer = IF @ = "reset" THEN "dead" ELSE @]
    /\ got' = [got EXCEPT ![f] = ch]
    /\ revents' = revents \ {f}
    /\ UNCHANGED <<fds, cur_max_fd, ch, backlog, phase, due, mixed>>

-----------------------------------------------------------------------------
Init ==
    /\ fds = [f \in Fd |-> "none"]
    /\ cur_max_fd = Listen + 1
    /\ revents = {}
    /\ ch \in Byte
    /\ sock = [f \in Fd |-> Closed]
    /\ backlog = 0
    /\ phase = "poll"
    /\ due = [f \in Fd |-> NoByte]
    /\ got = [f \in Fd |-> NoByte]
    /\ mixed = {}

-----------------------------------------------------------------------------
(* The loop.  A poll that times out changes nothing.                        *)

\* POLLIN comes with data, at the end and after a reset; POLLOUT always.
Ready ==
    {f \in Open : /\ f < cur_max_fd
                  /\ \/ fds[f] = "in" /\ (sock[f].inbox # <<>> \/ sock[f].peer # "open")
                     \/ fds[f] = "out"}
    \cup (IF backlog > 0 THEN {Listen} ELSE {})

Poll ==
    /\ phase = "poll"
    /\ Ready # {}
    /\ revents' = Ready
    /\ phase' = "scan"
    /\ UNCHANGED <<fds, cur_max_fd, ch, sock, backlog, ghosts>>

ScanDone ==
    /\ phase = "scan"
    /\ revents = {}
    /\ phase' = "poll"
    /\ UNCHANGED <<server, sock, backlog, ghosts>>

\* accept; the entry of the new client has no revents yet.
Accepts ==
    /\ Scans(Listen)
    /\ \E f \in Fd \ Open :
          /\ sock' = [sock EXCEPT ![f] = Accepted]
          /\ fds' = [fds EXCEPT ![f] = "in"]
          /\ cur_max_fd' = IF cur_max_fd <= f THEN f + 1 ELSE cur_max_fd
    /\ backlog' = backlog - 1
    /\ revents' = revents \ {Listen}
    /\ UNCHANGED <<ch, phase, ghosts>>

ToRead(f)  == Scans(f) /\ f # Listen /\ fds[f] = "in"
ToWrite(f) == Scans(f) /\ f # Listen /\ fds[f] = "out"

\* read returns 0: close, and clear the entry.
Closes(f) ==
    /\ ToRead(f)
    /\ sock[f].inbox = <<>> /\ sock[f].peer \in {"fin", "dead"}
    /\ sock' = [sock EXCEPT ![f] = Closed]
    /\ fds' = [fds EXCEPT ![f] = "none"]
    /\ due' = [due EXCEPT ![f] = NoByte]
    /\ got' = [got EXCEPT ![f] = NoByte]
    /\ mixed' = mixed \ {f}
    /\ revents' = revents \ {f}
    /\ UNCHANGED <<cur_max_fd, ch, backlog, phase>>

\* read returns 1; five seconds pass before the next entry.
Reads(f) ==
    /\ ToRead(f)
    /\ sock[f].inbox # <<>>
    /\ ch' = Next1(Head(sock[f].inbox))
    /\ sock' = [sock EXCEPT ![f].inbox = Tail(@)]
    /\ fds' = [fds EXCEPT ![f] = "out"]
    /\ due' = [due EXCEPT ![f] = Next1(Head(sock[f].inbox))]
    /\ got' = [got EXCEPT ![f] = NoByte]
    /\ mixed' = (mixed \ {f}) \cup Others(f)
    /\ revents' = revents \ {f}
    /\ UNCHANGED <<cur_max_fd, backlog, phase>>

\* read returns -1, which is taken for a byte: the old one is made greater.
ReadFails(f) ==
    /\ ToRead(f)
    /\ sock[f].inbox = <<>> /\ sock[f].peer = "reset"
    /\ ch' = Next1(ch)
    /\ sock' = [sock EXCEPT ![f].peer = "dead"]
    /\ fds' = [fds EXCEPT ![f] = "out"]
    /\ due' = [due EXCEPT ![f] = NoByte]
    /\ got' = [got EXCEPT ![f] = NoByte]
    /\ mixed' = (mixed \ {f}) \cup Others(f)
    /\ revents' = revents \ {f}
    /\ UNCHANGED <<cur_max_fd, backlog, phase>>

\* write, whose result is ignored; an error is reported once.
Writes(f) ==
    /\ ToWrite(f)
    /\ sock[f].peer # "dead"
    /\ sock' = [sock EXCEPT ![f].peer = IF @ = "reset" THEN "dead" ELSE @]
    /\ fds' = [fds EXCEPT ![f] = "in"]
    /\ got' = [got EXCEPT ![f] = ch]
    /\ revents' = revents \ {f}
    /\ UNCHANGED <<cur_max_fd, ch, backlog, phase, due, mixed>>

\* The error has been reported before: SIGPIPE.
WriteKilled(f) ==
    /\ ToWrite(f)
    /\ sock[f].peer = "dead"
    /\ phase' = "stopped"
    /\ UNCHANGED <<server, sock, backlog, ghosts>>

-----------------------------------------------------------------------------
(* The clients.                                                            *)

OnlySockets == UNCHANGED <<server, phase, ghosts>>

ClientConnects ==
    /\ backlog < MaxBacklog
    /\ backlog + Cardinality(Open) < Cardinality(Fd)
    /\ backlog' = backlog + 1
    /\ UNCHANGED sock
    /\ OnlySockets

ClientSends(f, b) ==
    /\ sock[f].peer = "open"
    /\ Len(sock[f].inbox) < MaxInbox
    /\ sock' = [sock EXCEPT ![f].inbox = Append(@, b)]
    /\ UNCHANGED backlog
    /\ OnlySockets

\* The client closes or resets; after a close a reset is no read error.
ClientLeaves(f, how) ==
    /\ \/ /\ sock[f].peer = "open"
          /\ sock' = [sock EXCEPT ![f].peer = how]
       \/ /\ sock[f].peer = "fin" /\ how = "reset"
          /\ sock' = [sock EXCEPT ![f].peer = "dead"]
    /\ UNCHANGED backlog
    /\ OnlySockets

Stopped == phase = "stopped" /\ UNCHANGED vars

Loop ==
    \/ Poll \/ ScanDone \/ Accepts
    \/ \E f \in Fd : \/ Closes(f) \/ Reads(f) \/ ReadFails(f)
                     \/ Writes(f) \/ WriteKilled(f)

Client ==
    \/ ClientConnects
    \/ \E f \in Fd : \/ \E b \in Byte : ClientSends(f, b)
                     \/ \E how \in {"fin", "reset"} : ClientLeaves(f, how)

Next == Loop \/ Client \/ Stopped

Spec == Init /\ [][Next]_vars

\* The server has a thread of its own; clients do as they please.
FairSpec == Spec /\ WF_vars(Loop)

-----------------------------------------------------------------------------
(* Properties.                                                             *)

\* Every variable keeps its shape, and every connection has an entry poll sees.
TypeOK ==
    /\ fds \in [Fd -> {"none", "in", "out"}]
    /\ revents \subseteq Fd \cup {Listen}
    /\ ch \in Byte
    /\ backlog \in 0..MaxBacklog
    /\ phase \in {"poll", "scan", "stopped"}
    /\ \A f \in Fd : fds[f] # "none" => f < cur_max_fd

\* An entry asks for events exactly while its connection is open, and for
\* writing exactly while an answer, or the error of a read, is outstanding; what
\* poll has reported stays true through a scan that sleeps five seconds a client,
\* so that neither accept nor read blocks; all of it also when descriptors are
\* closed and reused.  And a client gets the successor of the byte it has sent,
\* unless the server has read another client in between (server.c:55-88).
TableExact ==
    /\ TypeOK
    /\ \A f \in Fd \ mixed : got[f] # NoByte => got[f] = due[f]
    /\ \A f \in Fd :
          /\ fds[f] = "none" <=> ~sock[f].open
          /\ fds[f] = "out" =>
                (due[f] # NoByte /\ got[f] = NoByte) \/ sock[f].peer = "dead"
          /\ fds[f] = "in" => (due[f] = NoByte <=> got[f] = NoByte)
    /\ Listen \in revents => backlog > 0
    /\ \A f \in revents \ {Listen} : fds[f] = "in" =>
          f \in Open /\ (sock[f].inbox # <<>> \/ sock[f].peer # "open")

\* A client gets the successor of the byte it has sent: it is the client of
\* poll/client.c:29-31 that writes ch and reads the answer into it.
AnswersOwn == \A f \in Fd : got[f] # NoByte => got[f] = due[f]

Heard ==
    \A f \in Fd : []<>(Len(sock[f].inbox) < MaxInbox \/ phase = "stopped")
Answered ==
    \A f \in Fd : []<>(due[f] = NoByte \/ got[f] # NoByte \/ phase = "stopped")

\* A client that has sent all it can have under way has a byte of it read, and a
\* byte that has been read is answered, unless the connection is closed or the
\* process ends (server.c:70-85).
Served == Heard /\ Answered
=============================================================================
