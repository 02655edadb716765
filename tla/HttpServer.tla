----------------------------- MODULE HttpServer -----------------------------
(***************************************************************************)
(* The HTTP server of demo/epoll: one loop over epoll, one ConnectStat for *)
(* each connection, a page to ask for and a form to commit.                *)
(*                                                                         *)
(* The server exists twice.  In test.c, and in test/ where the functions   *)
(* stand in the header, all of it is one translation unit.  In main.c and  *)
(* epoll_server.c it is two, and epfd, static in epoll_server.h, is a      *)
(* variable of each: the one epoll_server.c uses is never assigned.  The   *)
(* constant Shared says which of the two is modelled.                      *)
(*                                                                         *)
(* A request is read whole by one read; name stands for name and age.  The *)
(* result of write is ignored by the code, so a short write is a write.    *)
(***************************************************************************)
EXTENDS Integers, Sequences, FiniteSets

CONSTANTS
    Fd,             \* descriptors accept can return
    Listen,         \* listen_sock
    Stat,           \* ConnectStat objects malloc can return
    Name,           \* names a form can carry
    Blank,          \* an empty name
    Shared,         \* main and the handlers use the same epfd
    MaxBacklog      \* the backlog given to listen

\* listen_sock has a stat of its own, which is never freed: Listen stands for
\* that one too.
ASSUME FdAssumption == Listen \notin Fd \cup Stat /\ MaxBacklog \in Nat
ASSUME NameAssumption == Blank \notin Name
ASSUME SharedAssumption == Shared \in BOOLEAN

VARIABLES
    stat,       \* contents of each ConnectStat, kept by free and malloc
    heap,       \* whether it is allocated
    kernel,     \* what main's epfd has registered: events and data.ptr
    sock,       \* the connections: open here, what the peer did, unread request
    backlog,    \* connections waiting for accept
    phase,      \* "wait", "batch", or "stopped" when the process has died
    batch,      \* revs: events still to be handled
    asked,      \* ghost: the request read last and not answered yet
    told        \* ghost: the names received on the connection

server == <<stat, heap, kernel>>
ghosts == <<asked, told>>
vars   == <<server, sock, backlog, phase, batch, ghosts>>

\* Requests, as do_http_request tells them apart.
NoRequest == [page |-> "none", name |-> Blank]
GetPage   == [page |-> "welcome", name |-> Blank]
Commit(m) == [page |-> "commit", name |-> m]
Request   == {GetPage} \cup {Commit(m) : m \in Name \cup {Blank}}

Unregistered == [on |-> "none", ptr |-> Blank]
Closed   == [open |-> FALSE, peer |-> "none", inbox |-> NoRequest]
Accepted == [open |-> TRUE, peer |-> "open", inbox |-> NoRequest]

Open == {f \in Fd : sock[f].open}

-----------------------------------------------------------------------------
(* Slips a programmer could make.  No behaviour of Spec takes one: each     *)
(* stands for a definition below in a variant of this module in which the   *)
(* property named with it must fail.                                        *)

\* No memset after malloc (StatOwned).
StatInitUncleared(f, s) == [stat[s] EXCEPT !.fd = f]

\* The handler is chosen for a form only, and stays otherwise (PagesMatch).
AfterRequestKeepsPage(s, r) ==
    [s EXCEPT !.handler = IF r.page = "commit" THEN r.page ELSE @,
              !.name = IF r.name = Blank THEN @ ELSE r.name]

\* The response goes on waiting for the write event (Served).
RespondsForEver(e) ==
    LET f == stat[e.ptr].fd
    IN  /\ phase = "batch" /\ e \in batch /\ e.out /\ ~e.in
        /\ sock[f].peer # "dead"
        /\ sock' = [sock EXCEPT ![f].peer = IF @ = "reset" THEN "dead" ELSE @]
        /\ kernel' = [kernel EXCEPT ![f].on = "out"]
        /\ batch' = batch \ {e}
        /\ UNCHANGED <<stat, heap, backlog, phase, ghosts>>

\* The end of a connection frees nothing (StatOwned).
ClosesUnfreed(e) ==
    LET f == stat[e.ptr].fd
    IN  /\ phase = "batch" /\ e \in batch /\ e.in /\ e.ptr \in Stat
        /\ sock[f].inbox = NoRequest
        /\ sock[f].peer \in {"fin", "dead"}
        /\ kernel' = [kernel EXCEPT ![f] = Unregistered]
        /\ sock' = [sock EXCEPT ![f] = Closed]
        /\ asked' = [asked EXCEPT ![f] = NoRequest]
        /\ told' = [told EXCEPT ![f] = {}]
        /\ batch' = batch \ {e}
        /\ UNCHANGED <<stat, heap, backlog, phase>>

\* The branch of the failed read frees the stat as the end does (StatOwned).
ReadFailsFreed(e) ==
    LET f == stat[e.ptr].fd
    IN  /\ phase = "batch" /\ e \in batch /\ e.in /\ e.ptr \in Stat
        /\ sock[f].inbox = NoRequest
        /\ sock[f].peer = "reset"
        /\ sock' = [sock EXCEPT ![f].peer = "dead"]
        /\ heap' = [heap EXCEPT ![e.ptr] = "free"]
        /\ batch' = batch \ {e}
        /\ UNCHANGED <<stat, kernel, backlog, phase, ghosts>>

-----------------------------------------------------------------------------
\* epoll_ctl of the handlers: on another descriptor it fails and does nothing.
Registered(f, entry) ==
    IF Shared THEN [kernel EXCEPT ![f] = entry] ELSE kernel

Init ==
    /\ stat = [s \in Stat |-> [fd |-> Listen, name |-> Blank, handler |-> "none"]]
    /\ heap = [s \in Stat |-> "free"]
    /\ kernel = [f \in Fd |-> Unregistered]
    /\ sock = [f \in Fd |-> Closed]
    /\ backlog = 0
    /\ phase = "wait"
    /\ batch = {}
    /\ asked = [f \in Fd |-> NoRequest]
    /\ told = [f \in Fd |-> {}]

-----------------------------------------------------------------------------
(* The loop of main.                                                       *)

\* EPOLLIN is reported with unread data, at the end and after a reset; EPOLLOUT
\* always.  Only what is registered counts; EPOLLERR and EPOLLHUP, which come
\* unasked, do not change which branch main takes.
Readable(f) == sock[f].inbox # NoRequest \/ sock[f].peer # "open"

Ready ==
    {[ptr |-> kernel[f].ptr, in |-> kernel[f].on = "in", out |-> kernel[f].on = "out"] :
        f \in {g \in Open : \/ kernel[g].on = "in" /\ Readable(g)
                            \/ kernel[g].on = "out"}}
    \cup (IF backlog > 0
          THEN {[ptr |-> Listen, in |-> TRUE, out |-> FALSE]} ELSE {})

\* epoll_wait without a timeout.
EpollWait ==
    /\ phase = "wait"
    /\ Ready # {}
    /\ batch' = Ready
    /\ phase' = "batch"
    /\ UNCHANGED <<server, sock, backlog, ghosts>>

BatchDone ==
    /\ phase = "batch"
    /\ batch = {}
    /\ phase' = "wait"
    /\ UNCHANGED <<server, sock, backlog, batch, ghosts>>

\* stat_init: malloc, memset and fd.  The object is returned although the
\* return statement is missing: it is the last value the function computes.
StatInit(f, s) == [fd |-> f, name |-> Blank, handler |-> "none"]

\* accept, connect_handle: a stat for the connection, registered for reading.
AcceptConnection(e) ==
    /\ phase = "batch" /\ e \in batch
    /\ e.ptr = Listen
    /\ \E f \in Fd \ Open : \E s \in {x \in Stat : heap[x] = "free"} :
          /\ backlog' = backlog - 1
          /\ sock' = [sock EXCEPT ![f] = Accepted]
          /\ heap' = [heap EXCEPT ![s] = "live"]
          /\ stat' = [stat EXCEPT ![s] = StatInit(f, s)]
          /\ kernel' = Registered(f, [on |-> "in", ptr |-> s])
    /\ batch' = batch \ {e}
    /\ UNCHANGED <<phase, ghosts>>

\* No descriptor is left: accept returns -1 and the connection waits on.
AcceptFails(e) ==
    /\ phase = "batch" /\ e \in batch
    /\ e.ptr = Listen
    /\ Open = Fd
    /\ batch' = batch \ {e}
    /\ UNCHANGED <<server, sock, backlog, phase, ghosts>>

\* malloc returns NULL, which connect_handle uses: the process dies.
AcceptCrashes(e) ==
    /\ phase = "batch" /\ e \in batch
    /\ e.ptr = Listen
    /\ Open # Fd
    /\ phase' = "stopped"
    /\ UNCHANGED <<server, sock, backlog, batch, ghosts>>

-----------------------------------------------------------------------------
(* do_http_request.                                                        *)

Reads(e) == phase = "batch" /\ e \in batch /\ e.in /\ e.ptr \in Stat

\* The page the request is answered with; an empty field leaves the name alone.
AfterRequest(s, r) ==
    [s EXCEPT !.handler = r.page,
              !.name = IF r.name = Blank THEN @ ELSE r.name]

ReadsRequest(e) ==
    LET f == stat[e.ptr].fd
        r == sock[f].inbox
    IN  /\ Reads(e)
        /\ r # NoRequest
        /\ sock' = [sock EXCEPT ![f].inbox = NoRequest]
        /\ stat' = [stat EXCEPT ![e.ptr] = AfterRequest(@, r)]
        /\ kernel' = Registered(f, [on |-> "out", ptr |-> e.ptr])
        /\ asked' = [asked EXCEPT ![f] = r]
        /\ told' = [told EXCEPT ![f] = @ \cup ({r.name} \ {Blank})]
        /\ batch' = batch \ {e}
        /\ UNCHANGED <<heap, backlog, phase>>

\* read returns 0: leave epoll, close, free.
ReadsEnd(e) ==
    LET f == stat[e.ptr].fd
    IN  /\ Reads(e)
        /\ sock[f].inbox = NoRequest
        /\ sock[f].peer \in {"fin", "dead"}
        /\ kernel' = [kernel EXCEPT ![f] = Unregistered]
        /\ sock' = [sock EXCEPT ![f] = Closed]
        /\ heap' = [heap EXCEPT ![e.ptr] = IF @ = "live" THEN "free" ELSE "corrupt"]
        /\ asked' = [asked EXCEPT ![f] = NoRequest]
        /\ told' = [told EXCEPT ![f] = {}]
        /\ batch' = batch \ {e}
        /\ UNCHANGED <<stat, backlog, phase>>

\* read returns -1: a reset is reported once, and nothing is closed.
ReadFails(e) ==
    LET f == stat[e.ptr].fd
    IN  /\ Reads(e)
        /\ sock[f].inbox = NoRequest
        /\ sock[f].peer = "reset"
        /\ sock' = [sock EXCEPT ![f].peer = "dead"]
        /\ batch' = batch \ {e}
        /\ UNCHANGED <<server, backlog, phase, ghosts>>

-----------------------------------------------------------------------------
(* do_http_respone: welcome_response_handler or commit_respone_handler.    *)

Writes(e) == phase = "batch" /\ e \in batch /\ e.out /\ ~e.in

\* Write the page, whatever write returns, and wait for the next request.
Responds(e) ==
    LET f == stat[e.ptr].fd
    IN  /\ Writes(e)
        /\ sock[f].peer # "dead"
        /\ sock' = [sock EXCEPT ![f].peer = IF @ = "reset" THEN "dead" ELSE @]
        /\ kernel' = Registered(f, [on |-> "in", ptr |-> e.ptr])
        /\ asked' = [asked EXCEPT ![f] = NoRequest]
        /\ batch' = batch \ {e}
        /\ UNCHANGED <<stat, heap, backlog, phase, told>>

\* The error of the connection has been reported before: SIGPIPE.
ResponseKilled(e) ==
    /\ Writes(e)
    /\ sock[stat[e.ptr].fd].peer = "dead"
    /\ phase' = "stopped"
    /\ UNCHANGED <<server, sock, backlog, batch, ghosts>>

-----------------------------------------------------------------------------
(* The clients.                                                            *)

OnlySockets == UNCHANGED <<server, phase, batch, ghosts>>

ClientConnects ==
    /\ backlog < MaxBacklog
    /\ backlog' = backlog + 1
    /\ UNCHANGED sock
    /\ OnlySockets

\* A client may send its next request before it has seen the answer.
ClientSends(f, r) ==
    /\ sock[f].peer = "open"
    /\ sock[f].inbox = NoRequest
    /\ sock' = [sock EXCEPT ![f].inbox = r]
    /\ UNCHANGED backlog
    /\ OnlySockets

\* A reset that follows the end of the stream is no read error any more.
ClientLeaves(f, how) ==
    /\ \/ /\ sock[f].peer = "open"
          /\ sock' = [sock EXCEPT ![f].peer = how]
       \/ /\ sock[f].peer = "fin" /\ how = "reset"
          /\ sock' = [sock EXCEPT ![f].peer = "dead"]
    /\ UNCHANGED backlog
    /\ OnlySockets

\* The process is gone.
Stopped ==
    /\ phase = "stopped"
    /\ UNCHANGED vars

Loop ==
    \/ EpollWait \/ BatchDone
    \/ \E e \in batch :
          \/ AcceptConnection(e) \/ AcceptFails(e) \/ AcceptCrashes(e)
          \/ ReadsRequest(e) \/ ReadsEnd(e) \/ ReadFails(e)
          \/ Responds(e) \/ ResponseKilled(e)

Client ==
    \/ ClientConnects
    \/ \E f \in Fd : \/ \E r \in Request : ClientSends(f, r)
                     \/ \E how \in {"fin", "reset"} : ClientLeaves(f, how)

Next == Loop \/ Client \/ Stopped

Spec == Init /\ [][Next]_vars

\* The loop has a thread of its own; clients do as they please.
FairSpec == Spec /\ WF_vars(Loop)

-----------------------------------------------------------------------------
(* Properties.                                                             *)

\* Every variable keeps the shape of epoll_server.h:19-26, and an event leads to
\* the stat of an open connection.
TypeOK ==
    /\ stat \in [Stat -> [fd : Fd \cup {Listen}, name : Name \cup {Blank},
                          handler : {"none", "welcome", "commit"}]]
    /\ heap \in [Stat -> {"free", "live", "corrupt"}]
    /\ backlog \in 0..MaxBacklog
    /\ phase \in {"wait", "batch", "stopped"}
    /\ \A e \in batch : e.ptr = Listen \/ (e.ptr \in Stat /\ heap[e.ptr] = "live")

\* Live stats and open connections correspond one to one through what epoll
\* hands back: nothing is leaked, freed twice or used by another connection when
\* descriptors and memory are reused, and the name a page shows was given on
\* this very connection (epoll_server.c:61, :68-77, :113-115, :145-150).
StatOwned ==
    /\ TypeOK
    /\ \A s \in Stat : heap[s] # "corrupt"
    /\ \A f \in Open : /\ kernel[f].on # "none"
                       /\ heap[kernel[f].ptr] = "live"
                       /\ stat[kernel[f].ptr].fd = f
    /\ \A s \in Stat : heap[s] = "live" =>
          stat[s].fd \in Open /\ kernel[stat[s].fd].ptr = s
    /\ \A f \in Open : stat[kernel[f].ptr].name \in told[f] \cup {Blank}

\* A connection that has asked waits to be written to, and the handler is that
\* of the page it asked for last; one that has not waits to be read
\* (epoll_server.c:94-144, :186-190, :223-227).
PagesMatch ==
    \A f \in Open :
        LET s == stat[kernel[f].ptr]
        IN  IF asked[f] = NoRequest THEN kernel[f].on = "in"
            ELSE /\ kernel[f].on = "out"
                 /\ s.handler = asked[f].page
                 /\ asked[f].name \in {Blank, s.name}

RequestsRead ==
    \A f \in Fd : []<>(sock[f].inbox = NoRequest \/ phase = "stopped")

Answered ==
    \A f \in Fd : []<>(asked[f] = NoRequest \/ phase = "stopped")

\* No request lies unread for ever, and none that has been read stays without its
\* page for ever, unless the connection is closed or the process ends
\* (epoll_server.c:85-89, :157-228).
Served == RequestsRead /\ Answered

\* epoll_server.h:41 says of connect_handle that it initialises the connection
\* and then waits for the browser's request.
AwaitsRequest == \A f \in Open : kernel[f].on # "none"
=============================================================================
