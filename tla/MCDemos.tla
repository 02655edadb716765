------------------------------- MODULE MCDemos -------------------------------
(***************************************************************************)
(* The small demos for TLC: a behaviour is one of the semaphore, or one of *)
(* the message queue, of the two threads with a buffer, of the ticket      *)
(* stations, of the forked processes, of the poll server or of the select  *)
(* server.  The descriptors of the servers are numbers, because both scan  *)
(* them in their order.                                                    *)
(***************************************************************************)
EXTENDS SysVSemaphore, FiniteSets

CONSTANTS
    Sender, Receiver, Single, Capacity, MaxMessage,     \* of the message queue
    MaxLine, Station, Nobody, Stock, Rounds,            \* of the threads
    PollFd, SelectFd, Listen,       \* descriptors of the servers
    Bytes, MaxInbox, MaxBacklog     \* bounds of the servers

VARIABLES
    part,
    key, queue, removed, at, id, sent, printed,
    buff, sem, main, printer, line, stock, owner, round, station, sold,
    pipe, dad, kid, dadGot, kidGot, text, writers, sender, od, alarm, sleeper, waker,
    fds, cur_max_fd, revents, ch, pollSock, pollBacklog, pollPhase, due, got, mixed,
    readfds, testfds, selectSock, selectBacklog, selectPhase, fd

queueVars  == <<key, queue, removed, at, id, sent, printed>>
lineVars   == <<buff, sem, main, printer, line>>
ticketVars == <<stock, owner, round, station, sold>>
forkVars   == <<pipe, dad, kid, dadGot, kidGot, text, writers, sender, od, alarm, sleeper, waker>>
pollVars   == <<fds, cur_max_fd, revents, ch, pollSock, pollBacklog, pollPhase, due, got, mixed>>
selectVars == <<readfds, testfds, selectSock, selectBacklog, selectPhase, fd>>
demoVars   == <<vars, queueVars, lineVars, ticketVars, forkVars>>

Queue == INSTANCE MsgQueue WITH MaxLine <- MaxMessage, pc <- at

Threads == INSTANCE ThreadDemos WITH printed <- line

Forks == INSTANCE ForkDemos WITH Prompt <- TRUE

Poll == INSTANCE PollServer WITH
    Fd <- PollFd,
    sock <- pollSock, backlog <- pollBacklog, phase <- pollPhase

Select == INSTANCE SelectServer WITH
    Fd <- SelectFd,
    sock <- selectSock, backlog <- selectBacklog, phase <- selectPhase

\* There are stations, each with a round or more, and an owner that is none.
TicketsOK ==
    /\ Stock \in Nat /\ Rounds \in Nat \ {0}
    /\ IsFiniteSet(Station) /\ Nobody \notin Station

ASSUME QueueAssumption == Sender \cap Receiver = {}
ASSUME ThreadsAssumption == MaxLine \in Nat /\ TicketsOK
ASSUME ServersAssumption == Poll!ConstantsOK /\ Select!ConstantsOK

MCInit ==
    /\ part \in {"semaphore", "queue", "lines", "tickets", "forks", "poll", "select"}
    /\ Init
    /\ Queue!Init
    /\ Threads!LinesInit /\ Threads!TicketsInit
    /\ Forks!Init
    /\ Poll!Init /\ (part = "poll" \/ ch = 0)
    /\ Select!Init

\* A step of one part: nothing else moves.
DemoStep(A) == A /\ UNCHANGED <<part, pollVars, selectVars>>
SemaphoreStep(A) ==
    part = "semaphore" /\ DemoStep(A) /\ UNCHANGED <<queueVars, lineVars, ticketVars, forkVars>>
QueueStep(A) ==
    part = "queue" /\ DemoStep(A) /\ UNCHANGED <<vars, lineVars, ticketVars, forkVars>>
LinesStep(A) ==
    part = "lines" /\ DemoStep(A) /\ UNCHANGED <<vars, queueVars, ticketVars, forkVars>>
TicketsStep(A) ==
    part = "tickets" /\ DemoStep(A) /\ UNCHANGED <<vars, queueVars, lineVars, forkVars>>
ForksStep(A) ==
    part = "forks" /\ DemoStep(A) /\ UNCHANGED <<vars, queueVars, lineVars, ticketVars>>
PollStep(A) == part = "poll" /\ A /\ UNCHANGED <<part, demoVars, selectVars>>
SelectStep(A) == part = "select" /\ A /\ UNCHANGED <<part, demoVars, pollVars>>

MCNext ==
    \/ SemaphoreStep(Next)
    \/ QueueStep(Queue!Next)
    \/ LinesStep(Threads!LinesNext)
    \/ TicketsStep(Threads!TicketsNext)
    \/ ForksStep(Forks!Next)
    \/ PollStep(Poll!Next)
    \/ SelectStep(Select!Next)

MCvars == <<part, demoVars, pollVars, selectVars>>

MCSpec ==
    /\ MCInit /\ [][MCNext]_MCvars
    /\ WF_MCvars(SemaphoreStep(\E p \in Process : SemP(p)))
    /\ \A p \in Process : WF_MCvars(SemaphoreStep(SemV(p)))
    /\ \A p \in Sender \cup Receiver : WF_MCvars(QueueStep(Queue!Works(p)))
    /\ WF_MCvars(LinesStep(Threads!LinesNext))
    /\ WF_MCvars(ForksStep(Forks!Next))
    /\ WF_MCvars(PollStep(Poll!Loop))
    /\ WF_MCvars(SelectStep(Select!Loop))

-----------------------------------------------------------------------------
\* What comes is delivered, sold and printed once: Delivers of MsgQueue, TicketsOnce
\* and LinesSound of ThreadDemos.
DemosSound == Queue!Delivers /\ Threads!TicketsOnce /\ Threads!LinesSound

\* Each demo comes to its end: see Stops of MsgQueue, LinesEnd of ThreadDemos and
\* ForksEnd of ForkDemos.
DemosEnd == Queue!Stops /\ Threads!LinesEnd /\ (part = "forks" => Forks!ForksEnd)

\* TableExact of the poll server: every entry of its table asks for what its
\* connection needs (poll/server.c:55-88).
TableExact == Poll!TableExact

\* SelectReady of the select server: what it watches is open, and what select has
\* reported stays true through its slow scan (select/server.c:48-82).
SelectReady == Select!SelectReady

\* Served of the poll server, and Heard of the select server: a client is read
\* and answered whatever the others do.
Served == Poll!Served /\ Select!Heard
=============================================================================
