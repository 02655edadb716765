------------------------------ MODULE CommLoop ------------------------------
(***************************************************************************)
(* The event loop of demo/epoll/epoll_framework (comm.c, comm_epoll.c) and *)
(* the echo server that runs on it (main.c).                               *)
(*                                                                         *)
(* One thread runs comm_select for ever: it checks the timers when the     *)
(* clock has moved, waits in epoll_wait, calls the handlers of each event  *)
(* that was ready, and reads the clock.  The clients and the clock run     *)
(* beside it: an event is a snapshot, and the socket may have changed when *)
(* its handler is called.                                                  *)
(*                                                                         *)
(* Time is counted in seconds.  It passes in epoll_wait, one second at     *)
(* most in a turn of the loop (MAX_POLL_TIME), and not in the handlers,    *)
(* which do not block.  Sockets behave as TCP sockets of Linux do: a reset *)
(* is reported once by a read or a write, later reads return 0, and later  *)
(* writes raise SIGPIPE, which nobody handles.  A write to a live peer     *)
(* takes the whole of the short messages of this server.                   *)
(***************************************************************************)
EXTENDS Integers, FiniteSets

CONSTANTS
    Fd,             \* descriptors accept can return
    Listen,         \* the listening descriptor
    BiggestFD,      \* Biggest_FD, the length of fd_table
    Stat,           \* ConnectStat objects malloc can return
    NoStat,         \* a null pointer
    AcceptTimeout,  \* the 30 seconds of accept_connection
    EchoTimeout,    \* the 10 seconds of the other handlers
    StartTime,      \* the time of day when the server starts
    MaxTime,        \* bound on the clock
    MaxBacklog      \* the backlog given to listen

ASSUME FdAssumption ==
    /\ BiggestFD \in Nat
    /\ Fd \cup {Listen} \subseteq 1..(BiggestFD - 1)
    /\ Listen \notin Fd
ASSUME TimeAssumption ==
    /\ AcceptTimeout \in Nat \ {0} /\ EchoTimeout \in Nat \ {0}
    /\ StartTime \in Nat /\ MaxTime \in Nat
    /\ AcceptTimeout < StartTime /\ EchoTimeout < StartTime
ASSUME StatAssumption == NoStat \notin Stat /\ MaxBacklog \in Nat

VARIABLES
    fde,        \* fd_table: handlers, their data and the timer of each fd
    state,      \* epoll_state: what the program believes is registered
    kernel,     \* what epoll_ctl has registered in the kernel
    sock,       \* the connections: open here, what the peer did, unread data
    backlog,    \* connections waiting for accept
    heap,       \* the ConnectStat objects
    now,        \* the time of day
    curtime,    \* sys_curtime and current_dtime: the time as last read
    lastCheck,  \* last_timeout of comm_select
    phase,      \* where the loop is
    batch,      \* events of epoll_wait still to be handled
    event,      \* the event being handled
    due,        \* ghost: the time each timer was meant for when it was set
    probed      \* ghost: the last index checkTimeouts looked at

server == <<fde, state, kernel, heap, due>>
clock  == <<now, curtime, lastCheck>>
vars   == <<server, sock, backlog, clock, phase, batch, event, probed>>

Reader == {"null", "do_echo_handler"}
Writer == {"null", "do_welcome_handler", "do_echo_response"}

EmptyFde == [reader |-> "null", readData |-> NoStat,
             writer |-> "null", writeData |-> NoStat,
             timer |-> "null", timerData |-> NoStat, timeout |-> 0]
Closed   == [open |-> FALSE, peer |-> "none", inbox |-> "empty"]
Accepted == [open |-> TRUE, peer |-> "open", inbox |-> "empty"]
NoEvent  == [fd |-> 0, in |-> FALSE, out |-> FALSE]

Open == {f \in Fd : sock[f].open}

-----------------------------------------------------------------------------
(* Slips a programmer could make.  No behaviour of Spec takes one: each     *)
(* stands for a definition below in a variant of this module in which the   *)
(* property named with it must fail.                                        *)

\* The time is subtracted (StatOwned).
WithTimeoutBack(e, d, s) ==
    [e EXCEPT !.timer = "do_echo_timeout", !.timerData = s, !.timeout = curtime - d]

\* The time is stored without the handler (Attended).
WithTimeoutOnly(e, d, s) == [e EXCEPT !.timerData = s, !.timeout = curtime + d]

\* comm_close forgets epollSetEvents (TablesExact).
CloseUnregistered(fs, ss) ==
    /\ fde' = [f \in Fd |-> IF f \in fs THEN EmptyFde ELSE fde[f]]
    /\ kernel' = [f \in Fd |-> IF f \in fs THEN "none" ELSE kernel[f]]
    /\ sock' = [f \in Fd |-> IF f \in fs THEN Closed ELSE sock[f]]
    /\ heap' = [s \in Stat |-> IF s \in ss THEN "free" ELSE heap[s]]
    /\ UNCHANGED <<state, due>>

\* comm_close leaves the table entry as it is (TablesExact).
CloseUncleared(fs, ss) ==
    /\ state' = [f \in Fd |-> IF f \in fs THEN "none" ELSE state[f]]
    /\ kernel' = [f \in Fd |-> IF f \in fs THEN "none" ELSE kernel[f]]
    /\ sock' = [f \in Fd |-> IF f \in fs THEN Closed ELSE sock[f]]
    /\ heap' = [s \in Stat |-> IF s \in ss THEN "free" ELSE heap[s]]
    /\ UNCHANGED <<fde, due>>

\* The stat is not freed with its connection (StatOwned).
CloseUnfreed(fs, ss) ==
    /\ fde' = [f \in Fd |-> IF f \in fs THEN EmptyFde ELSE fde[f]]
    /\ state' = [f \in Fd |-> IF f \in fs THEN "none" ELSE state[f]]
    /\ kernel' = [f \in Fd |-> IF f \in fs THEN "none" ELSE kernel[f]]
    /\ sock' = [f \in Fd |-> IF f \in fs THEN Closed ELSE sock[f]]
    /\ UNCHANGED <<heap, due>>

\* A timer fires in the second before it is due (TimersKept).
ExpiredSoon == {f \in Fd : fde[f].timeout # 0 /\ fde[f].timeout - 1 <= curtime}

\* A timer fires in the second after it is due (TimersKept).
ExpiredLate == {f \in Fd : fde[f].timeout # 0 /\ fde[f].timeout < curtime}

\* The reader is installed, but writing is waited for (Served).
WrittenStillWriting(h) ==
    LET f == event.fd
        s == fde[f].writeData
    IN  /\ phase = "write"
        /\ fde[f].writer = h
        /\ event.out
        /\ sock[f].peer \in {"open", "fin"}
        /\ fde' = [fde EXCEPT ![f].reader = "do_echo_handler", ![f].readData = s,
                              ![f].timeout = curtime + EchoTimeout]
        /\ due' = [due EXCEPT ![f] = now + EchoTimeout]
        /\ phase' = "batch"
        /\ event' = NoEvent
        /\ UNCHANGED <<state, kernel, sock, heap, backlog, clock, batch, probed>>

-----------------------------------------------------------------------------
(* The operations of the framework, as the next value of what they change. *)

\* epollSetEvents: nothing when the program believes it is registered so;
\* otherwise ADD, MOD or DEL, of which the kernel refuses an ADD of what it has
\* and a MOD of what it has not.
EpollCtl(f, want) ==
    IF want = state[f] THEN kernel[f]
    ELSE IF want = "none" THEN "none"
    ELSE IF state[f] = "none" /\ kernel[f] = "none" THEN want
    ELSE IF state[f] # "none" /\ kernel[f] # "none" THEN want
    ELSE kernel[f]

SetEvents(f, want) ==
    /\ state' = [state EXCEPT ![f] = want]
    /\ kernel' = [kernel EXCEPT ![f] = EpollCtl(f, want)]

\* commUpdateReadHandler and commUpdateWriteHandler install one handler and wait
\* for that direction only; the other handler stays where it is.
WithReader(e, h, s) == [e EXCEPT !.reader = h, !.readData = s]
WithWriter(e, h, s) == [e EXCEPT !.writer = h, !.writeData = s]

\* commSetTimeout with a handler: relative to the time as last read.
WithTimeout(e, d, s) ==
    [e EXCEPT !.timer = "do_echo_timeout", !.timerData = s, !.timeout = curtime + d]

\* free(s): nothing for a null pointer.
FreeAll(ss) ==
    [s \in Stat |-> IF s \notin ss THEN heap[s]
                    ELSE IF heap[s] = "live" THEN "free" ELSE "corrupt"]

\* comm_close of several descriptors and free of their stats: the table entry is
\* cleared, the descriptor leaves epoll, and close removes it from the kernel.
CloseAndFree(fs, ss) ==
    /\ fde' = [f \in Fd |-> IF f \in fs THEN EmptyFde ELSE fde[f]]
    /\ state' = [f \in Fd |-> IF f \in fs THEN "none" ELSE state[f]]
    /\ kernel' = [f \in Fd |-> IF f \in fs THEN "none" ELSE kernel[f]]
    /\ sock' = [f \in Fd |-> IF f \in fs THEN Closed ELSE sock[f]]
    /\ heap' = FreeAll(ss)
    /\ UNCHANGED due

-----------------------------------------------------------------------------
(* main: the listening socket is registered with accept_connection as its   *)
(* read handler and no timer, and the clock has not been read yet.          *)

Init ==
    /\ fde = [f \in Fd |-> EmptyFde]
    /\ state = [f \in Fd |-> "none"]
    /\ kernel = [f \in Fd |-> "none"]
    /\ sock = [f \in Fd |-> Closed]
    /\ backlog = 0
    /\ heap = [s \in Stat |-> "free"]
    /\ now = StartTime
    /\ curtime = 0
    /\ lastCheck = 0
    /\ phase = "select"
    /\ batch = {}
    /\ event = NoEvent
    /\ due = [f \in Fd |-> 0]
    /\ probed = 0

-----------------------------------------------------------------------------
(* comm_select.                                                            *)

Expired == {f \in Fd : fde[f].timeout # 0 /\ fde[f].timeout <= curtime}

\* checkTimeouts: call the timeout handler of what has expired, which closes the
\* descriptor and frees its stat; without a handler only close it.  The loop runs
\* to Biggest_FD inclusive; the entry behind the table reads as zero.
CheckTimeouts ==
    /\ phase = "select"
    /\ lastCheck < curtime
    /\ lastCheck' = curtime
    /\ CloseAndFree(Expired,
          {fde[f].timerData : f \in {g \in Expired : fde[g].timer # "null"}} \ {NoStat})
    /\ probed' = BiggestFD
    /\ phase' = "wait"
    /\ UNCHANGED <<backlog, now, curtime, batch, event>>

\* Less than a second since the last check.
SkipTimeouts ==
    /\ phase = "select"
    /\ lastCheck = curtime
    /\ phase' = "wait"
    /\ UNCHANGED <<server, sock, backlog, clock, batch, event, probed>>

\* EPOLLHUP and EPOLLERR are always reported and count for both directions.
Broken(f) == sock[f].peer \in {"reset", "dead"}
Readable(f) == sock[f].inbox # "empty" \/ sock[f].peer # "open"

EventOf(f) == [fd |-> f,
               in |-> (kernel[f] = "in" /\ Readable(f)) \/ Broken(f),
               out |-> kernel[f] = "out" \/ Broken(f)]

Ready ==
    {EventOf(f) : f \in {g \in Open : /\ kernel[g] # "none"
                                      /\ EventOf(g).in \/ EventOf(g).out}}
    \cup (IF backlog > 0 THEN {[fd |-> Listen, in |-> TRUE, out |-> FALSE]} ELSE {})

\* epoll_wait returns what is ready after at most a second, or nothing.
EpollWait(seconds) ==
    /\ phase = "wait"
    /\ now + seconds <= MaxTime
    /\ now' = now + seconds
    /\ batch' = Ready
    /\ phase' = "batch"
    /\ UNCHANGED <<server, sock, backlog, curtime, lastCheck, event, probed>>

\* comm_call_handlers for the next event of a connection.
NextEvent(e) ==
    /\ phase = "batch"
    /\ e.fd # Listen
    /\ event' = e
    /\ batch' = batch \ {e}
    /\ phase' = "read"
    /\ UNCHANGED <<server, sock, backlog, clock, probed>>

\* The batch is done: getCurrentTime.
ReadClock ==
    /\ phase = "batch"
    /\ batch = {}
    /\ curtime' = now
    /\ phase' = "select"
    /\ UNCHANGED <<server, sock, backlog, now, lastCheck, batch, event, probed>>

-----------------------------------------------------------------------------
(* The handlers of main.c.                                                 *)

\* accept_connection: a new stat, the welcome handler for the first writable
\* event, and a timer.  accept returns -1 when no descriptor is free; malloc may
\* return NULL, and the stat is then a null pointer.
AcceptConnection(e) ==
    /\ phase = "batch"
    /\ e.fd = Listen
    /\ batch' = batch \ {e}
    /\ \/ /\ Open = Fd
          /\ UNCHANGED <<server, sock, backlog>>
       \/ \E f \in Fd \ Open :
          \E s \in {x \in Stat : heap[x] = "free"} \cup {NoStat} :
             /\ backlog' = backlog - 1
             /\ sock' = [sock EXCEPT ![f] = Accepted]
             /\ heap' = [x \in Stat |-> IF x = s THEN "live" ELSE heap[x]]
             /\ fde' = [fde EXCEPT ![f] =
                    WithTimeout(WithWriter(@, "do_welcome_handler", s), AcceptTimeout, s)]
             /\ SetEvents(f, "out")
             /\ due' = [due EXCEPT ![f] = now + AcceptTimeout]
    /\ UNCHANGED <<clock, phase, event, probed>>

\* A read error reports a reset once; the end of the stream is read as 0.
AfterError(f) ==
    [sock EXCEPT ![f].peer = IF @ = "reset" THEN "dead" ELSE @]

\* comm_call_handlers: no read handler, or no event for it.
NoRead ==
    /\ phase = "read"
    /\ fde[event.fd].reader = "null" \/ ~event.in
    /\ phase' = "write"
    /\ UNCHANGED <<server, sock, backlog, clock, batch, event, probed>>

CallsEcho ==
    /\ phase = "read"
    /\ fde[event.fd].reader = "do_echo_handler"
    /\ event.in

\* assert(stat != NULL): the process aborts.
EchoAsserts ==
    /\ CallsEcho
    /\ fde[event.fd].readData = NoStat
    /\ phase' = "stopped"
    /\ UNCHANGED <<server, sock, backlog, clock, batch, event, probed>>

\* A message: keep it for do_echo_response, wait until it can be written.
EchoReads ==
    LET f == event.fd
        s == fde[f].readData
    IN  /\ CallsEcho
        /\ s # NoStat
        /\ sock[f].inbox = "message"
        /\ sock' = [sock EXCEPT ![f].inbox = "empty"]
        /\ fde' = [fde EXCEPT ![f] =
               WithTimeout(WithWriter(@, "do_echo_response", s), EchoTimeout, s)]
        /\ SetEvents(f, "out")
        /\ due' = [due EXCEPT ![f] = now + EchoTimeout]
        /\ phase' = "write"
        /\ UNCHANGED <<heap, backlog, clock, batch, event, probed>>

\* "quit", or the end of the stream: close the descriptor and free the stat.
EchoCloses ==
    LET f == event.fd
        s == fde[f].readData
    IN  /\ CallsEcho
        /\ s # NoStat
        /\ \/ sock[f].inbox = "quit"
           \/ sock[f].inbox = "empty" /\ sock[f].peer \in {"fin", "dead"}
        /\ CloseAndFree({f}, {s})
        /\ phase' = "write"
        /\ UNCHANGED <<backlog, clock, batch, event, probed>>

\* read returns -1: nothing is closed and no handler or timer changes.
EchoFails ==
    /\ CallsEcho
    /\ fde[event.fd].readData # NoStat
    /\ sock[event.fd].inbox = "empty"
    /\ sock[event.fd].peer \in {"open", "reset"}
    /\ sock' = AfterError(event.fd)
    /\ phase' = "write"
    /\ UNCHANGED <<server, backlog, clock, batch, event, probed>>

\* The write handler is looked up again after the read handler has run.
NoWrite ==
    /\ phase = "write"
    /\ fde[event.fd].writer = "null" \/ ~event.out
    /\ phase' = "batch"
    /\ event' = NoEvent
    /\ UNCHANGED <<server, sock, backlog, clock, batch, probed>>

CallsWriter(h) ==
    /\ phase = "write"
    /\ fde[event.fd].writer = h
    /\ event.out

\* do_welcome_handler or do_echo_response has written: wait for a message.
Written(h) ==
    LET f == event.fd
        s == fde[f].writeData
    IN  /\ CallsWriter(h)
        /\ sock[f].peer \in {"open", "fin"}
        /\ fde' = [fde EXCEPT ![f] =
               WithTimeout(WithReader(@, "do_echo_handler", s), EchoTimeout, s)]
        /\ SetEvents(f, "in")
        /\ due' = [due EXCEPT ![f] = now + EchoTimeout]
        /\ phase' = "batch"
        /\ event' = NoEvent
        /\ UNCHANGED <<sock, heap, backlog, clock, batch, probed>>

\* write returns -1: as for read, nothing is closed or changed.
WriteFails(h) ==
    /\ CallsWriter(h)
    /\ sock[event.fd].peer = "reset"
    /\ sock' = AfterError(event.fd)
    /\ phase' = "batch"
    /\ event' = NoEvent
    /\ UNCHANGED <<server, backlog, clock, batch, probed>>

\* The error has been reported before: SIGPIPE ends the process.
WriteKilled(h) ==
    /\ CallsWriter(h)
    /\ sock[event.fd].peer = "dead"
    /\ phase' = "stopped"
    /\ UNCHANGED <<server, sock, backlog, clock, batch, event, probed>>

DoWelcome == \/ Written("do_welcome_handler") \/ WriteFails("do_welcome_handler")
             \/ WriteKilled("do_welcome_handler")
DoResponse == \/ Written("do_echo_response") \/ WriteFails("do_echo_response")
              \/ WriteKilled("do_echo_response")

-----------------------------------------------------------------------------
(* The clients.                                                            *)

OnlySockets == UNCHANGED <<server, clock, phase, batch, event, probed>>

ClientConnects ==
    /\ backlog < MaxBacklog
    /\ backlog' = backlog + 1
    /\ UNCHANGED sock
    /\ OnlySockets

ClientSends(f, m) ==
    /\ sock[f].peer = "open"
    /\ sock[f].inbox = "empty"
    /\ sock' = [sock EXCEPT ![f].inbox = m]
    /\ UNCHANGED backlog
    /\ OnlySockets

\* The client closes its end, or resets the connection.  A reset that follows
\* the end of the stream is no read error any more: read returns 0, write fails.
ClientLeaves(f, how) ==
    /\ \/ /\ sock[f].peer = "open"
          /\ sock' = [sock EXCEPT ![f].peer = how]
       \/ /\ sock[f].peer = "fin" /\ how = "reset"
          /\ sock' = [sock EXCEPT ![f].peer = "dead"]
    /\ UNCHANGED backlog
    /\ OnlySockets

\* The process is gone.
Stopped ==
    /\ phase = "stopped"
    /\ UNCHANGED vars

Loop ==
    \/ CheckTimeouts \/ SkipTimeouts
    \/ \E seconds \in 0..1 : EpollWait(seconds)
    \/ \E e \in batch : NextEvent(e) \/ AcceptConnection(e)
    \/ ReadClock
    \/ NoRead \/ EchoAsserts \/ EchoReads \/ EchoCloses \/ EchoFails
    \/ NoWrite \/ DoWelcome \/ DoResponse

Client ==
    \/ ClientConnects
    \/ \E f \in Fd : \/ \E m \in {"message", "quit"} : ClientSends(f, m)
                     \/ \E how \in {"fin", "reset"} : ClientLeaves(f, how)

Next == Loop \/ Client \/ Stopped

Spec == Init /\ [][Next]_vars

\* The loop has a thread of its own; clients do as they please.
FairSpec == Spec /\ WF_vars(Loop)

-----------------------------------------------------------------------------
(* Properties.                                                             *)

\* Every variable keeps the shape of globals.h:45-61 and comm_epoll.c:7-10.
TypeOK ==
    /\ \A f \in Fd :
          /\ fde[f].reader \in Reader /\ fde[f].writer \in Writer
          /\ {fde[f].readData, fde[f].writeData, fde[f].timerData}
                \subseteq Stat \cup {NoStat}
          /\ fde[f].timeout \in Nat
          /\ state[f] \in {"none", "in", "out"}
    /\ heap \in [Stat -> {"free", "live", "corrupt"}]
    /\ backlog \in 0..MaxBacklog
    /\ phase \in {"select", "wait", "batch", "read", "write", "stopped"}
    /\ curtime <= now /\ lastCheck <= curtime

\* A ConnectStat belongs to one open connection and is freed with it, once: by
\* quit, by the end of the stream or by the timer (main.c:122-123, :152-153,
\* :186-187), whatever events and timers coincide.
StatOwned ==
    /\ TypeOK
    /\ \A s \in Stat :
          /\ heap[s] # "corrupt"
          /\ heap[s] = "live" => \E f \in Open : fde[f].timerData = s
    /\ \A f, g \in Open :
          fde[f].timerData = fde[g].timerData /\ fde[f].timerData # NoStat => f = g

\* What a handler would be called with is the live stat of its connection, a
\* closed descriptor has no handler left (comm.c:22-29, :55-76), and the
\* program's record of what is registered is the kernel's, so that the next ADD
\* or MOD will be accepted (comm_epoll.c:77-90).
TablesExact ==
    /\ \A f \in Fd : kernel[f] = state[f]
    /\ \A f \in Fd :
           /\ f \notin Open => fde[f] = EmptyFde
           /\ f \in Open =>
                 LET s == fde[f].timerData
                 IN  /\ s = NoStat \/ heap[s] = "live"
                     /\ fde[f].reader # "null" => fde[f].readData = s
                     /\ fde[f].writer # "null" => fde[f].writeData = s

\* No open connection is forgotten: the kernel watches it in the direction its
\* next handler waits for, and a timer will close it.
Attended ==
    \A f \in Open :
        /\ \/ kernel[f] = "in" /\ fde[f].reader = "do_echo_handler"
           \/ kernel[f] = "out" /\ fde[f].writer # "null"
        /\ fde[f].timeout # 0 /\ fde[f].timer # "null"

\* A timer does not fire more than the second of one turn before its time,
\* although it counts from a clock read before the wait (comm.c:100, :183); the
\* exception is a timer set before the clock was ever read.  And when the loop
\* goes to sleep, no open connection is past its time (:136-150, :170-172).
TimersKept ==
    [][/\ \A f \in Fd :
             phase = "select" /\ sock[f].open /\ ~sock'[f].open =>
                now >= due[f] - 1 \/ fde[f].timeout < StartTime
       /\ phase' = "wait" => \A f \in Open' : now' < due'[f]]_vars

MessagesRead ==
    \A f \in Fd : sock[f].inbox = "message"
        ~> sock[f].inbox = "empty" \/ ~sock[f].open \/ phase = "stopped"
Welcomed ==
    \A f \in Fd : fde[f].writer = "do_welcome_handler" /\ kernel[f] = "out"
        ~> kernel[f] # "out" \/ phase = "stopped"

\* A message that has arrived is read, or its connection is closed, or the
\* process has ended; and a new connection is welcomed and comes to read
\* (main.c:83-99, :102-134).
Served == MessagesRead /\ Welcomed

\* sys_curtime is the "system time ... for use by all modules" (globals.h:68):
\* a timer set from it does not fire more than a turn of the loop early.
TimersKeepTime ==
    [][\A f \in Fd :
          phase = "select" /\ sock[f].open /\ ~sock'[f].open => now >= due[f] - 1]_vars

\* assert(fd < Biggest_FD) in comm.c:86: the table has no entry beyond that.
ProbesInTable == probed < BiggestFD
=============================================================================
