---------------------------- MODULE RemoteSyslog ----------------------------
(***************************************************************************)
(* The RemoteSyslogAppender of git/log4cpp: a socket, and a record that is *)
(* cut into packets, each with the priority in front.                      *)
(*                                                                         *)
(* Descriptor 0 is standard input, unless the process has closed it, and 0 *)
(* is also what _socket is when there is none.  The calls are made under   *)
(* the mutex of a category.                                                *)
(***************************************************************************)
EXTENDS Integers, Sequences, SequencesExt

CONSTANTS
    Fd,             \* numbers of descriptors, 0 among them
    StdinOpen,      \* 0 is standard input
    Resolves,       \* results of gethostbyname and gethostbyaddr
    Priority,       \* priorities of records
    Facility,       \* facilities given to the constructor, times 8
    MaxPacket,      \* 900
    MaxRecord       \* bound: length of a record

LOG_USER == 8
NoSocket == -1

VARIABLES
    up,             \* the appender is constructed
    open,           \* descriptors the appender has opened and not closed
    socket,         \* _socket
    ipAddr,         \* _ipAddr is known
    facility,       \* _facility
    buf,            \* buf, from the preamble on
    left,           \* messageLength
    record,         \* ghost: the record that is sent
    packets         \* ghost: its packets

vars == <<up, open, socket, ipAddr, facility, buf, left, record, packets>>

\* The characters of a record, and of a priority.
Text(k) == <<"text", k>>
Mark(n) == <<"priority", n>>

\* The priority in front of a record takes the room of its digits and brackets.
ToSyslogPriority(p) ==
    LET q == (p + 1) \div 100 IN
    IF q < 0 THEN 0 ELSE IF q > 7 THEN 7 ELSE q

DigitsOf(n) == IF n < 0 THEN 1 + (IF n > -10 THEN 1 ELSE 2)
               ELSE IF n < 10 THEN 1 ELSE IF n < 100 THEN 2 ELSE 3

Preamble(p) ==
    LET n == facility + ToSyslogPriority(p)
    IN  [k \in 1..(DigitsOf(n) + 2) |-> Mark(n)]

Init ==
    /\ up = FALSE /\ open = {} /\ socket = 0 /\ ipAddr = FALSE /\ facility = 0
    /\ buf = <<>> /\ left = 0 /\ record = <<>> /\ packets = <<>>

Free == Fd \ (open \cup (IF StdinOpen THEN {0} ELSE {}))
MinOf(S) == CHOOSE n \in S : \A m \in S : n <= m

-----------------------------------------------------------------------------
(* Slips a programmer could make.  No behaviour of Spec takes one: each     *)
(* stands for a definition below in a variant of this module in which       *)
(* RecordSent must fail.                                                    *)

\* The rest of a record is moved over the preamble.
SendsPartOver ==
    /\ left > 0 /\ Len(buf) > MaxPacket
    /\ packets' = Append(packets, SubSeq(buf, 1, MaxPacket))
    /\ buf' = SubSeq(buf, MaxPacket + 1, Len(buf))
    /\ left' = left - (MaxPacket - (Len(buf) - left))
    /\ UNCHANGED <<up, open, socket, ipAddr, facility, record>>

\* reopen does not close.
ReopenOpens ==
    /\ up /\ left = 0
    /\ ipAddr /\ Free # {}
    /\ socket' = MinOf(Free) /\ open' = open \cup {socket'}
    /\ UNCHANGED <<up, ipAddr, facility, buf, left, record, packets>>

-----------------------------------------------------------------------------
\* close on a descriptor that was never opened does nothing.
Closed(fds) == IF socket = 0 THEN fds ELSE fds \ {socket}

\* open, called with the descriptors that are then in use.
Opened(fds) ==
    \E r \in Resolves :
        /\ ipAddr' = (ipAddr \/ r)
        /\ IF ~ipAddr'
           THEN socket' = 0 /\ open' = fds
           ELSE LET free == (Free \cup open) \ fds IN
                \/ /\ free # {}
                   /\ socket' = MinOf(free) /\ open' = fds \cup {socket'}
                \/ socket' = NoSocket /\ open' = fds

\* -1 stands for the default, but a caller that multiplies by 8 gives -8.
Construct ==
    /\ ~up /\ up' = TRUE
    /\ \E f \in Facility : facility' = IF f = -1 THEN LOG_USER ELSE f
    /\ Opened(open)
    /\ UNCHANGED <<buf, left, record, packets>>

Reopen ==
    /\ up /\ left = 0
    /\ Opened(Closed(open))
    /\ UNCHANGED <<up, facility, buf, left, record, packets>>

Close ==
    /\ up /\ left = 0
    /\ open' = Closed(open) /\ socket' = 0
    /\ UNCHANGED <<up, ipAddr, facility, buf, left, record, packets>>

Destroy ==
    /\ up /\ left = 0
    /\ up' = FALSE /\ ipAddr' = FALSE
    /\ open' = Closed(open) /\ socket' = 0
    /\ UNCHANGED <<facility, buf, left, record, packets>>

\* _append up to its loop.
Log ==
    /\ up /\ left = 0
    /\ \E n \in 0..MaxRecord : \E p \in Priority :
          /\ record' = [k \in 1..n |-> Text(k)]
          /\ buf' = Preamble(p) \o record'
          /\ left' = n
    /\ packets' = <<>>
    /\ UNCHANGED <<up, open, socket, ipAddr, facility>>

\* sendto whose result is ignored, and memmove to behind the preamble.
SendsPart ==
    /\ left > 0 /\ Len(buf) > MaxPacket
    /\ packets' = Append(packets, SubSeq(buf, 1, MaxPacket))
    /\ buf' = SubSeq(buf, 1, Len(buf) - left) \o SubSeq(buf, MaxPacket + 1, Len(buf))
    /\ left' = left - (MaxPacket - (Len(buf) - left))
    /\ UNCHANGED <<up, open, socket, ipAddr, facility, record>>

SendsRest ==
    /\ left > 0 /\ Len(buf) <= MaxPacket
    /\ packets' = Append(packets, buf)
    /\ left' = 0
    /\ UNCHANGED <<up, open, socket, ipAddr, facility, buf, record>>

Next == Construct \/ Reopen \/ Close \/ Destroy \/ Log \/ SendsPart \/ SendsRest

Spec == Init /\ [][Next]_vars

-----------------------------------------------------------------------------
(* Properties.                                                             *)

\* Each packet is no longer than allowed, begins with the same priority and brings
\* some of the record, and nothing else.
PacketsFit ==
    \A k \in DOMAIN packets :
        /\ Len(packets[k]) <= MaxPacket
        /\ packets[k][1] = packets[1][1] /\ packets[1][1][1] = "priority"
        /\ \E i \in DOMAIN packets[k] : packets[k][i] \in ToSet(record)
        /\ \A i \in DOMAIN packets[k] : packets[k][i] \in ToSet(record) \cup {packets[1][1]}

AllSent == \A x \in ToSet(record) : \E k \in DOMAIN packets : x \in ToSet(packets[k])

\* The characters come in their order, so each of them once.
InOrder ==
    \A k, m \in DOMAIN packets : \A i \in DOMAIN packets[k], j \in DOMAIN packets[m] :
        (k < m \/ (k = m /\ i < j)) /\ {packets[k][i], packets[m][j]} \subseteq ToSet(record)
        => packets[k][i][2] < packets[m][j][2]

\* The packets of a record are, without the priority in front of each, the
\* record; and the appender has no socket open but the one it sends to
\* (RemoteSyslogAppender.cpp:84-176).
RecordSent ==
    /\ left = 0 /\ record # <<>> => PacketsFit /\ AllSent /\ InOrder
    /\ StdinOpen => open \subseteq {socket}

\* A socket is never left open.
NoneLeftOpen == open \subseteq {socket}

\* Packets go to a socket of the appender.
SendsToSocket == left > 0 => socket \in open \cup {NoSocket}

\* The comment on the constructor says of facility: "Value '-1' implies to use
\* the default."
PriorityValid == up => facility >= 0
=============================================================================
