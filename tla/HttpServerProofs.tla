-------------------------- MODULE HttpServerProofs --------------------------
(***************************************************************************)
(* Proofs about the HTTP server built as one translation unit: who owns a  *)
(* ConnectStat, and which page a connection gets, for any number of        *)
(* descriptors, stats, names and clients.                                  *)
(***************************************************************************)
EXTENDS HttpServer, TLAPS

Page == {"none", "welcome", "commit"}
Inbox == Request \cup {NoRequest}
Conn == [fd : Fd \cup {Listen}, name : Name \cup {Blank}, handler : Page]
Entry == [on : {"none", "in", "out"}, ptr : Stat \cup {Blank}]
Socket == [open : BOOLEAN, peer : {"none", "open", "fin", "reset", "dead"}, inbox : Inbox]
Accepts == [ptr |-> Listen, in |-> TRUE, out |-> FALSE]

Typed ==
    /\ stat \in [Stat -> Conn]
    /\ heap \in [Stat -> {"free", "live", "corrupt"}]
    /\ kernel \in [Fd -> Entry]
    /\ sock \in [Fd -> Socket]
    /\ asked \in [Fd -> Inbox] /\ told \in [Fd -> SUBSET Name]
    /\ backlog \in 0..MaxBacklog
    /\ phase \in {"wait", "batch", "stopped"}

\* What a connection was told and has asked shows in its stat.
ClosedSound(f) == f \notin Open => asked[f] = NoRequest /\ told[f] = {}
OpenSound(f) == f \in Open =>
    /\ kernel[f].on # "none" /\ kernel[f].ptr \in Stat
    /\ heap[kernel[f].ptr] = "live" /\ stat[kernel[f].ptr].fd = f
    /\ stat[kernel[f].ptr].name \in told[f] \cup {Blank}
    /\ asked[f] = NoRequest => kernel[f].on = "in"
    /\ asked[f] # NoRequest =>
          /\ kernel[f].on = "out"
          /\ stat[kernel[f].ptr].handler = asked[f].page
          /\ asked[f].name \in {Blank, stat[kernel[f].ptr].name}
StatSound(s) ==
    /\ heap[s] # "corrupt"
    /\ heap[s] = "live" => stat[s].fd \in Open /\ kernel[stat[s].fd].ptr = s

\* An event is that of the connection it leads to, as it is registered still.
EventSound(e) ==
    \/ e = Accepts /\ backlog > 0
    \/ /\ e.ptr \in Stat /\ heap[e.ptr] = "live"
       /\ e = [ptr |-> e.ptr, in |-> kernel[stat[e.ptr].fd].on = "in",
               out |-> kernel[stat[e.ptr].fd].on = "out"]

HttpInv ==
    /\ Typed
    /\ \A f \in Fd : ClosedSound(f) /\ OpenSound(f)
    /\ \A s \in Stat : StatSound(s)
    /\ \A e \in batch : EventSound(e)

-----------------------------------------------------------------------------
(* Requests and events.                                                    *)

\* What do_http_request tells apart.
LEMMA RequestFacts ==
  /\ \A r \in Inbox : r.page \in Page /\ r.name \in Name \cup {Blank}
  /\ \A m \in Name \cup {Blank} : m # Blank => m \in Name
  /\ NoRequest \in Inbox /\ NoRequest \notin Request
<1>1. ASSUME NEW r \in Inbox
      PROVE  r.page \in Page /\ r.name \in Name \cup {Blank}
  <2>1. CASE r = NoRequest \/ r = GetPage
    BY <2>1 DEF NoRequest, GetPage, Page
  <2>2. CASE \E m \in Name \cup {Blank} : r = Commit(m)
    BY <2>2 DEF Commit, Page
  <2> QED BY <2>1, <2>2 DEF Inbox, Request
<1>2. NoRequest # GetPage /\ \A m \in Name \cup {Blank} : NoRequest # Commit(m)
  <2>1. NoRequest.page = "none" /\ GetPage.page = "welcome"
    BY DEF NoRequest, GetPage
  <2>2. \A m : Commit(m).page = "commit"
    BY DEF Commit
  <2> QED BY <2>1, <2>2
<1>3. NoRequest \in Inbox /\ NoRequest \notin Request
  BY <1>2 DEF Inbox, Request
<1> QED BY <1>1, <1>3

\* An event that is no accept leads to an open connection and its live stat.
LEMMA EventLeads ==
  ASSUME HttpInv, NEW e \in batch, e.ptr # Listen
  PROVE  /\ e.ptr \in Stat /\ heap[e.ptr] = "live"
         /\ stat[e.ptr] \in Conn /\ stat[e.ptr].fd \in Open /\ stat[e.ptr].fd \in Fd
         /\ kernel[stat[e.ptr].fd].ptr = e.ptr
         /\ e.in = (kernel[stat[e.ptr].fd].on = "in")
         /\ e.out = (kernel[stat[e.ptr].fd].on = "out")
<1>1. /\ e.ptr \in Stat /\ heap[e.ptr] = "live"
      /\ e.in = (kernel[stat[e.ptr].fd].on = "in")
      /\ e.out = (kernel[stat[e.ptr].fd].on = "out")
  BY DEF HttpInv, EventSound, Accepts
<1> QED BY <1>1 DEF HttpInv, StatSound, Open, Typed

\* The other events lead to other connections.
LEMMA OtherEvents ==
  ASSUME HttpInv, NEW e \in batch, e.ptr # Listen, NEW x \in batch \ {e}, x.ptr # Listen
  PROVE  x.ptr # e.ptr /\ stat[x.ptr].fd # stat[e.ptr].fd
<1>1. x.ptr # e.ptr
  BY DEF HttpInv, EventSound, Accepts
<1> QED BY <1>1, EventLeads

\* Steps that touch no stat and no registration, and only what is to come on
\* the sockets.
LEMMA TrafficKeeps ==
  ASSUME HttpInv, UNCHANGED <<server, ghosts>>, sock' \in [Fd -> Socket],
         \A f \in Fd : sock'[f].open = sock[f].open,
         batch' \subseteq batch, backlog' \in backlog..MaxBacklog,
         phase' \in {"wait", "batch", "stopped"}
  PROVE  HttpInv'
<1>1. Open' = Open
  BY DEF Open
<1>2. Typed'
  BY FdAssumption DEF HttpInv, Typed, server, ghosts
<1>3. \A f \in Fd : ClosedSound(f)' /\ OpenSound(f)'
  BY <1>1 DEF HttpInv, ClosedSound, OpenSound, server, ghosts
<1>4. \A s \in Stat : StatSound(s)'
  BY <1>1 DEF HttpInv, StatSound, server
<1>5. \A e \in batch' : EventSound(e)'
  BY FdAssumption DEF HttpInv, Typed, EventSound, server
<1> QED BY <1>2, <1>3, <1>4, <1>5 DEF HttpInv

-----------------------------------------------------------------------------
(* The steps.                                                              *)

\* The invariant in the initial state.
LEMMA InitHttpInv == Init => HttpInv
<1> SUFFICES ASSUME Init PROVE HttpInv
  OBVIOUS
<1>1. Typed
  BY FdAssumption, RequestFacts
     DEF Init, Typed, Conn, Entry, Unregistered, Socket, Closed, Page
<1> QED BY <1>1 DEF Init, HttpInv, ClosedSound, OpenSound, StatSound, Open, Closed

\* epoll_wait collects events of live stats, and the batch is done when it is
\* empty.
LEMMA WaitingKeeps ==
  ASSUME HttpInv, EpollWait \/ BatchDone
  PROVE  HttpInv'
<1>1. CASE BatchDone
  BY <1>1, TrafficKeeps DEF BatchDone, HttpInv, Typed
<1>2. CASE EpollWait
  <2>1. ASSUME NEW e \in Ready PROVE EventSound(e)
    <3>1. CASE backlog > 0 /\ e = Accepts
      BY <3>1 DEF EventSound
    <3>2. CASE \E f \in Open : e = [ptr |-> kernel[f].ptr, in |-> kernel[f].on = "in",
                                    out |-> kernel[f].on = "out"]
      <4>1. PICK f \in Open : e = [ptr |-> kernel[f].ptr, in |-> kernel[f].on = "in",
                                  out |-> kernel[f].on = "out"]
        BY <3>2
      <4>2. /\ kernel[f].ptr \in Stat /\ heap[kernel[f].ptr] = "live"
            /\ stat[kernel[f].ptr].fd = f
        <5>1. f \in Fd
          BY DEF Open
        <5> QED BY <5>1 DEF HttpInv, OpenSound
      <4>3. e.ptr = kernel[f].ptr
        BY <4>1
      <4> QED BY <4>1, <4>2, <4>3, ZenonT(60) DEF EventSound
    <3> QED BY <3>1, <3>2 DEF Ready, Accepts
  <2>2. UNCHANGED <<server, sock, backlog, ghosts>> /\ batch' = Ready /\ phase' = "batch"
    BY <1>2 DEF EpollWait
  <2>3. \A e \in batch' : EventSound(e)'
    BY <2>1, <2>2 DEF EventSound, server
  <2> QED BY <2>2, <2>3
         DEF HttpInv, Typed, ClosedSound, OpenSound, StatSound, Open, server, ghosts
<1> QED BY <1>1, <1>2

\* connect_handle: a free stat and a closed descriptor become a connection.
LEMMA AcceptingKeeps ==
  ASSUME HttpInv, Shared, NEW e \in batch, AcceptConnection(e)
  PROVE  HttpInv'
<1>1. PICK f \in Fd \ Open, s \in {x \in Stat : heap[x] = "free"} :
         /\ backlog' = backlog - 1
         /\ sock' = [sock EXCEPT ![f] = Accepted]
         /\ heap' = [heap EXCEPT ![s] = "live"]
         /\ stat' = [stat EXCEPT ![s] = StatInit(f, s)]
         /\ kernel' = Registered(f, [on |-> "in", ptr |-> s])
  BY DEF AcceptConnection
<1>2. /\ Typed /\ e = Accepts /\ backlog > 0 /\ batch' = batch \ {e}
      /\ UNCHANGED <<phase, ghosts>>
      /\ \A x \in batch : EventSound(x)
  BY FdAssumption DEF AcceptConnection, HttpInv, EventSound
<1>3. /\ \A g \in Fd : sock'[g] = IF g = f THEN Accepted ELSE sock[g]
      /\ \A x \in Stat : heap'[x] = IF x = s THEN "live" ELSE heap[x]
      /\ \A x \in Stat : stat'[x] =
            IF x = s THEN [fd |-> f, name |-> Blank, handler |-> "none"] ELSE stat[x]
      /\ \A g \in Fd : kernel'[g] = IF g = f THEN [on |-> "in", ptr |-> s] ELSE kernel[g]
  BY <1>1, <1>2 DEF Typed, StatInit, Registered
<1>4. Open' = Open \cup {f}
  BY <1>3 DEF Open, Accepted
<1>5. Typed'
  <2>1. sock' \in [Fd -> Socket]
    BY <1>1, <1>2, RequestFacts DEF Typed, Socket, Accepted
  <2>2. stat' \in [Stat -> Conn]
    BY <1>1, <1>2 DEF Typed, Conn, StatInit, Page
  <2>3. kernel' \in [Fd -> Entry]
    BY <1>1, <1>2 DEF Typed, Entry, Registered
  <2>4. heap' \in [Stat -> {"free", "live", "corrupt"}] /\ backlog' \in 0..MaxBacklog
    BY <1>1, <1>2, FdAssumption DEF Typed
  <2> QED BY <1>2, <2>1, <2>2, <2>3, <2>4 DEF Typed, ghosts
<1>6. ASSUME NEW g \in Fd PROVE ClosedSound(g)' /\ OpenSound(g)'
  <2>1. CASE g = f
    BY <1>2, <1>3, <1>4, <2>1 DEF HttpInv, ClosedSound, OpenSound, ghosts
  <2>2. CASE g # f
    <3>1. g \in Open => kernel[g].ptr # s
      BY DEF HttpInv, OpenSound
    <3> QED BY <1>2, <1>3, <1>4, <2>2, <3>1 DEF HttpInv, ClosedSound, OpenSound, ghosts
  <2> QED BY <2>1, <2>2
<1>7. ASSUME NEW x \in Stat PROVE StatSound(x)'
  <2>1. CASE x = s
    BY <1>3, <1>4, <2>1 DEF StatSound
  <2>2. CASE x # s
    BY <1>3, <1>4, <2>2 DEF HttpInv, StatSound, Open
  <2> QED BY <2>1, <2>2
<1>8. ASSUME NEW x \in batch' PROVE EventSound(x)'
  <2>1. x \in batch /\ x.ptr # Listen
    BY <1>2, FdAssumption DEF EventSound
  <2>2. x.ptr # s /\ stat[x.ptr].fd # f /\ stat[x.ptr].fd \in Fd /\ x.ptr \in Stat
    BY <2>1, EventLeads
  <2> QED BY <1>2, <1>3, <2>1, <2>2 DEF EventSound, Accepts
<1> QED BY <1>5, <1>6, <1>7, <1>8 DEF HttpInv

\* The handlers of a connection that stays open change its stat, its
\* registration and what it has asked, and nothing of another one.
LEMMA HandlingKeeps ==
  ASSUME HttpInv, NEW e \in batch, e.ptr # Listen, NEW c \in Conn, NEW on \in {"in", "out"},
         NEW f, f = stat[e.ptr].fd, c.fd = f,
         stat' = [stat EXCEPT ![e.ptr] = c],
         kernel' = [kernel EXCEPT ![f] = [on |-> on, ptr |-> e.ptr]],
         sock' \in [Fd -> Socket], \A g \in Fd : sock'[g].open = sock[g].open,
         asked' \in [Fd -> Inbox], \A g \in Fd \ {f} : asked'[g] = asked[g],
         told' \in [Fd -> SUBSET Name], \A g \in Fd \ {f} : told'[g] = told[g],
         c.name \in told'[f] \cup {Blank},
         asked'[f] = NoRequest => on = "in",
         asked'[f] # NoRequest =>
             on = "out" /\ c.handler = asked'[f].page /\ asked'[f].name \in {Blank, c.name},
         batch' = batch \ {e}, UNCHANGED <<heap, backlog, phase>>
  PROVE  HttpInv'
<1>1. /\ Typed /\ e.ptr \in Stat /\ heap[e.ptr] = "live"
      /\ f \in Open /\ f \in Fd /\ kernel[f].ptr = e.ptr
  BY EventLeads DEF HttpInv
<1>2. /\ \A x \in Stat : stat'[x] = IF x = e.ptr THEN c ELSE stat[x]
      /\ \A g \in Fd : kernel'[g] = IF g = f THEN [on |-> on, ptr |-> e.ptr] ELSE kernel[g]
  BY <1>1 DEF Typed
<1>3. Open' = Open
  BY DEF Open
<1>4. Typed'
  <2>1. [on |-> on, ptr |-> e.ptr] \in Entry
    BY <1>1 DEF Entry
  <2> QED BY <1>1, <2>1 DEF Typed
<1>5. ASSUME NEW g \in Fd PROVE ClosedSound(g)' /\ OpenSound(g)'
  <2>1. CASE g = f
    <3>1. /\ kernel'[g] = [on |-> on, ptr |-> e.ptr] /\ stat'[e.ptr] = c
          /\ heap'[e.ptr] = "live" /\ g \in Open' /\ e.ptr \in Stat
      BY <1>1, <1>2, <1>3, <2>1
    <3>2. kernel'[g].on = on /\ kernel'[g].ptr = e.ptr
      BY <3>1
    <3>3. ClosedSound(g)'
      BY <3>1 DEF ClosedSound
    <3>4. OpenSound(g)'
      BY <2>1, <3>1, <3>2, ZenonT(60) DEF OpenSound
    <3> QED BY <3>3, <3>4
  <2>2. CASE g # f
    <3>1. g \in Open => kernel[g].ptr # e.ptr
      BY <2>2 DEF HttpInv, OpenSound
    <3> QED BY <1>2, <1>3, <2>2, <3>1 DEF HttpInv, ClosedSound, OpenSound
  <2> QED BY <2>1, <2>2
<1>6. ASSUME NEW x \in Stat PROVE StatSound(x)'
  <2>1. CASE x = e.ptr
    BY <1>1, <1>2, <1>3, <2>1 DEF StatSound
  <2>2. CASE x # e.ptr
    BY <1>1, <1>2, <1>3, <2>2 DEF HttpInv, StatSound, Open
  <2> QED BY <2>1, <2>2
<1>7. ASSUME NEW x \in batch' PROVE EventSound(x)'
  <2>1. CASE x.ptr = Listen
    BY <2>1, FdAssumption DEF HttpInv, EventSound
  <2>2. CASE x.ptr # Listen
    <3>1. x.ptr # e.ptr /\ stat[x.ptr].fd # f
      BY <2>2, OtherEvents
    <3>2. x.ptr \in Stat /\ stat[x.ptr].fd \in Fd
      BY <2>2, EventLeads
    <3> QED BY <1>2, <2>2, <3>1, <3>2 DEF HttpInv, EventSound, Accepts
  <2> QED BY <2>1, <2>2
<1> QED BY <1>4, <1>5, <1>6, <1>7 DEF HttpInv

\* do_http_request with a request.
LEMMA RequestKeeps ==
  ASSUME HttpInv, Shared, NEW e \in batch, ReadsRequest(e)
  PROVE  HttpInv'
<1> DEFINE f == stat[e.ptr].fd
           r == sock[f].inbox
           c == AfterRequest(stat[e.ptr], r)
<1>0. /\ e.ptr # Listen /\ r # NoRequest
      /\ stat' = [stat EXCEPT ![e.ptr] = c]
      /\ kernel' = [kernel EXCEPT ![f] = [on |-> "out", ptr |-> e.ptr]]
      /\ sock' = [sock EXCEPT ![f].inbox = NoRequest]
      /\ asked' = [asked EXCEPT ![f] = r]
      /\ told' = [told EXCEPT ![f] = told[f] \cup ({r.name} \ {Blank})]
      /\ batch' = batch \ {e} /\ UNCHANGED <<heap, backlog, phase>>
  BY FdAssumption DEF ReadsRequest, Registered, Reads
<1>1. /\ Typed /\ e.ptr \in Stat
      /\ f \in Open /\ f \in Fd /\ kernel[f].ptr = e.ptr
      /\ stat[e.ptr] \in Conn
  BY <1>0, EventLeads, SMTT(60) DEF HttpInv
<1>2. stat[e.ptr].name \in told[f] \cup {Blank}
  BY <1>1 DEF HttpInv, OpenSound
<1>3. /\ sock \in [Fd -> Socket] /\ asked \in [Fd -> Inbox] /\ told \in [Fd -> SUBSET Name]
      /\ sock[f] \in Socket
  BY <1>1 DEF Typed
<1>4. r \in Inbox
  BY <1>3 DEF Socket
<1>5. r.page \in Page /\ r.name \in Name \cup {Blank}
  BY <1>4, RequestFacts
<1>6. /\ c \in Conn /\ c.fd = f /\ c.handler = r.page
      /\ c.name = IF r.name = Blank THEN stat[e.ptr].name ELSE r.name
  BY <1>1, <1>5, ZenonT(60) DEF AfterRequest, Conn
<1>7. sock' \in [Fd -> Socket] /\ \A g \in Fd : sock'[g].open = sock[g].open
  BY <1>0, <1>1, <1>3, RequestFacts, ZenonT(60) DEF Socket
<1> DEFINE n == told[f] \cup ({r.name} \ {Blank})
<1>8. n \in SUBSET Name
  <2>1. told[f] \in SUBSET Name
    BY <1>1, <1>3
  <2> HIDE DEF r, f
  <2> QED BY <1>5, <2>1
<1>9. c.name \in n \cup {Blank} /\ r.name \in {Blank, c.name}
  <2> HIDE DEF c, r, f
  <2>1. CASE r.name = Blank
    BY <1>2, <1>6, <2>1
  <2>2. CASE r.name # Blank
    BY <1>6, <2>2
  <2> QED BY <2>1, <2>2
<1> HIDE DEF f, r, c, n
<1>10. told' = [told EXCEPT ![f] = n]
  BY <1>0 DEF n
<1>11. /\ told' \in [Fd -> SUBSET Name] /\ told'[f] = n
       /\ \A g \in Fd \ {f} : told'[g] = told[g]
  BY <1>1, <1>3, <1>8, <1>10
<1>12. asked' \in [Fd -> Inbox] /\ asked'[f] = r /\ \A g \in Fd \ {f} : asked'[g] = asked[g]
  BY <1>0, <1>1, <1>3, <1>4
<1>13. "out" \in {"in", "out"} /\ c.name \in told'[f] \cup {Blank} /\ asked'[f] # NoRequest
       /\ c.handler = asked'[f].page /\ asked'[f].name \in {Blank, c.name}
  BY <1>0, <1>6, <1>9, <1>11, <1>12
<1> QED BY <1>0, <1>1, <1>6, <1>7, <1>11, <1>12, <1>13, HandlingKeeps, ZenonT(60) DEF f

\* do_http_respone.
LEMMA ResponseKeeps ==
  ASSUME HttpInv, Shared, NEW e \in batch, Responds(e)
  PROVE  HttpInv'
<1> DEFINE f == stat[e.ptr].fd
           c == stat[e.ptr]
<1>0. e.ptr # Listen
  BY FdAssumption DEF Responds, Writes, HttpInv, EventSound, Accepts
<1>1. /\ Typed /\ e.ptr \in Stat
      /\ f \in Open /\ f \in Fd /\ kernel[f].ptr = e.ptr
      /\ c \in Conn /\ c.fd = f
      /\ c.name \in told[f] \cup {Blank}
  BY <1>0, EventLeads DEF HttpInv, OpenSound
<1>2. /\ stat' = [stat EXCEPT ![e.ptr] = c]
      /\ kernel' = [kernel EXCEPT ![f] = [on |-> "in", ptr |-> e.ptr]]
      /\ batch' = batch \ {e} /\ UNCHANGED <<heap, backlog, phase, told>>
  <2>1. stat \in [Stat -> Conn]
    BY <1>1 DEF Typed
  <2> QED BY <1>1, <2>1 DEF Responds, Registered
<1>3. sock' \in [Fd -> Socket] /\ \A g \in Fd : sock'[g].open = sock[g].open
  <2>1. sock \in [Fd -> Socket] /\ sock[f] \in Socket
    BY <1>1 DEF Typed
  <2>2. sock' = [sock EXCEPT ![f].peer = IF @ = "reset" THEN "dead" ELSE @]
    BY DEF Responds
  <2> QED BY <1>1, <2>1, <2>2, ZenonT(60) DEF Socket
<1>4. /\ asked' \in [Fd -> Inbox] /\ asked'[f] = NoRequest
      /\ \A g \in Fd \ {f} : asked'[g] = asked[g]
  BY <1>1, RequestFacts, SMTT(60) DEF Responds, Typed
<1>5. told' \in [Fd -> SUBSET Name]
  BY <1>1, <1>2 DEF Typed
<1> HIDE DEF f, c
<1> QED BY <1>0, <1>1, <1>2, <1>3, <1>4, <1>5, HandlingKeeps, ZenonT(60) DEF f, c

\* do_http_request at the end of the stream.
LEMMA EndKeeps ==
  ASSUME HttpInv, NEW e \in batch, ReadsEnd(e)
  PROVE  HttpInv'
<1> DEFINE f == stat[e.ptr].fd
<1>1. /\ Typed /\ e.ptr \in Stat /\ e.ptr # Listen /\ heap[e.ptr] = "live"
      /\ f \in Open /\ f \in Fd /\ kernel[f].ptr = e.ptr
  BY EventLeads, FdAssumption DEF HttpInv, ReadsEnd, Reads
<1>2. /\ batch' = batch \ {e} /\ UNCHANGED <<stat, backlog, phase>>
      /\ \A g \in Fd : kernel'[g] = IF g = f THEN Unregistered ELSE kernel[g]
      /\ \A g \in Fd : sock'[g] = IF g = f THEN Closed ELSE sock[g]
      /\ \A g \in Fd : asked'[g] = IF g = f THEN NoRequest ELSE asked[g]
      /\ \A g \in Fd : told'[g] = IF g = f THEN {} ELSE told[g]
      /\ \A x \in Stat : heap'[x] = IF x = e.ptr THEN "free" ELSE heap[x]
  BY <1>1 DEF ReadsEnd, Typed
<1>3. Open' = Open \ {f}
  BY <1>1, <1>2 DEF Open, Closed
<1>4. Typed'
  <2>1. Unregistered \in Entry /\ Closed \in Socket
    BY RequestFacts DEF Unregistered, Entry, Closed, Socket
  <2> QED BY <1>1, <2>1, RequestFacts DEF ReadsEnd, Typed
<1>5. ASSUME NEW g \in Fd PROVE ClosedSound(g)' /\ OpenSound(g)'
  <2>1. CASE g = f
    BY <1>2, <1>3, <2>1 DEF ClosedSound, OpenSound
  <2>2. CASE g # f
    <3>1. g \in Open => kernel[g].ptr # e.ptr
      BY <2>2 DEF HttpInv, OpenSound
    <3> QED BY <1>2, <1>3, <2>2, <3>1 DEF HttpInv, ClosedSound, OpenSound
  <2> QED BY <2>1, <2>2
<1>6. ASSUME NEW x \in Stat PROVE StatSound(x)'
  <2>1. CASE x = e.ptr
    BY <1>2, <2>1 DEF StatSound
  <2>2. CASE x # e.ptr
    <3>1. heap[x] = "live" => stat[x].fd \in Open /\ stat[x].fd # f
      BY <1>1, <2>2 DEF HttpInv, StatSound
    <3> QED BY <1>2, <1>3, <2>2, <3>1 DEF HttpInv, StatSound, Open
  <2> QED BY <2>1, <2>2
<1>7. ASSUME NEW x \in batch' PROVE EventSound(x)'
  <2>1. CASE x.ptr = Listen
    BY <1>2, <2>1, FdAssumption DEF HttpInv, EventSound
  <2>2. CASE x.ptr # Listen
    <3>1. x \in batch \ {e}
      BY <1>2
    <3>2. x.ptr # e.ptr /\ stat[x.ptr].fd # f
      BY <1>1, <2>2, <3>1, OtherEvents
    <3>3. x.ptr \in Stat /\ stat[x.ptr].fd \in Fd
      BY <2>2, <3>1, EventLeads
    <3> QED BY <1>2, <2>2, <3>1, <3>2, <3>3 DEF HttpInv, EventSound, Accepts
  <2> QED BY <2>1, <2>2
<1> QED BY <1>4, <1>5, <1>6, <1>7 DEF HttpInv

\* Steps of which only the sockets, the backlog and the batch take notice.
LEMMA QuietKeeps ==
  ASSUME HttpInv,
         \/ \E e \in batch : \/ AcceptFails(e) \/ AcceptCrashes(e)
                             \/ ReadFails(e) \/ ResponseKilled(e)
         \/ Client
  PROVE  HttpInv'
<1>a. Typed /\ backlog \in Nat /\ MaxBacklog \in Nat /\ backlog <= MaxBacklog
  BY FdAssumption DEF HttpInv, Typed
<1> DEFINE OnlyTraffic ==
        sock' \in [Fd -> Socket] /\ \A f \in Fd : sock'[f].open = sock[f].open
<1>b. ASSUME NEW f \in Fd, NEW p \in {"none", "open", "fin", "reset", "dead"},
             sock' = [sock EXCEPT ![f].peer = p]
      PROVE  OnlyTraffic
  BY <1>a, <1>b DEF Typed, Socket
<1>1. ASSUME NEW e \in batch,
             AcceptFails(e) \/ AcceptCrashes(e) \/ ReadFails(e) \/ ResponseKilled(e)
      PROVE  HttpInv'
  <2>1. OnlyTraffic
    <3>1. CASE ReadFails(e)
      <4>1. stat[e.ptr].fd \in Fd
        <5>1. e.ptr \in Stat
          BY <3>1, ZenonT(60) DEF ReadFails, Reads
        <5>2. e.ptr # Listen
          BY <5>1, FdAssumption
        <5> QED BY <5>2, EventLeads
      <4> QED BY <1>b, <3>1, <4>1, ZenonT(60) DEF ReadFails
    <3>2. CASE ~ReadFails(e)
      BY <1>1, <1>a, <3>2 DEF AcceptFails, AcceptCrashes, ResponseKilled, Typed
    <3> QED BY <3>1, <3>2
  <2>2. /\ UNCHANGED <<server, ghosts, backlog>> /\ batch' \subseteq batch
        /\ phase' \in {"wait", "batch", "stopped"}
    <3>1. phase \in {"wait", "batch", "stopped"}
      BY <1>a DEF Typed
    <3>2. CASE AcceptFails(e)
      BY <3>1, <3>2 DEF AcceptFails
    <3>3. CASE AcceptCrashes(e)
      BY <3>1, <3>3 DEF AcceptCrashes
    <3>4. CASE ReadFails(e)
      <4>1. UNCHANGED <<server, ghosts, backlog, phase>> /\ batch' = batch \ {e}
        BY <3>4, ZenonT(60) DEF ReadFails
      <4> QED BY <3>1, <4>1
    <3>5. CASE ResponseKilled(e)
      BY <3>1, <3>5 DEF ResponseKilled
    <3> QED BY <1>1, <3>2, <3>3, <3>4, <3>5
  <2> QED BY <1>a, <2>1, <2>2, TrafficKeeps
<1>2. CASE Client
  <2>1. OnlyTraffic
    <3>1. CASE ClientConnects
      BY <1>a, <3>1 DEF ClientConnects, Typed
    <3>2. ASSUME NEW f \in Fd, NEW r \in Request, ClientSends(f, r) PROVE OnlyTraffic
      BY <1>a, <3>2 DEF ClientSends, Typed, Socket, Inbox
    <3>3. ASSUME NEW f \in Fd, NEW how \in {"fin", "reset"}, ClientLeaves(f, how)
          PROVE  OnlyTraffic
      BY <1>b, <3>3 DEF ClientLeaves
    <3> QED BY <1>2, <3>1, <3>2, <3>3 DEF Client
  <2>2. /\ UNCHANGED <<server, ghosts>> /\ batch' = batch /\ phase' = phase
        /\ backlog' \in backlog..MaxBacklog
    BY <1>2, <1>a DEF Client, ClientConnects, ClientSends, ClientLeaves, OnlySockets
  <2> QED BY <1>a, <2>1, <2>2, TrafficKeeps DEF Typed
<1> QED BY <1>1, <1>2

\* Every step of the server as one translation unit keeps the invariant.
LEMMA NextHttpInv == HttpInv /\ Shared /\ [Next]_vars => HttpInv'
<1> SUFFICES ASSUME HttpInv, Shared, [Next]_vars PROVE HttpInv'
  OBVIOUS
<1>1. CASE Loop
  BY <1>1, WaitingKeeps, AcceptingKeeps, RequestKeeps, ResponseKeeps, EndKeeps, QuietKeeps
     DEF Loop
<1>2. CASE Client
  BY <1>2, QuietKeeps
<1>3. CASE UNCHANGED vars
  BY <1>3 DEF vars, server, ghosts, HttpInv, Typed, ClosedSound, OpenSound, StatSound,
              EventSound, Open
<1> QED BY <1>1, <1>2, <1>3 DEF Next, Stopped

\* The invariant of the server as one translation unit.
LEMMA HttpInvariance == ASSUME Shared PROVE Spec => []HttpInv
<1>1. Init => HttpInv
  BY InitHttpInv
<1>2. HttpInv /\ [Next]_vars => HttpInv'
  BY NextHttpInv
<1> QED BY <1>1, <1>2, PTL DEF Spec

-----------------------------------------------------------------------------
(* What follows.                                                           *)

\* In the server that is one translation unit, live stats and open connections
\* correspond one to one, and the name a page shows was given on its connection
\* (connect_handle, do_http_request).
THEOREM StatsAreOwned == ASSUME Shared PROVE Spec => []StatOwned
<1>1. HttpInv => StatOwned
  <2> SUFFICES ASSUME HttpInv PROVE StatOwned
    OBVIOUS
  <2>1. TypeOK
    BY DEF HttpInv, Typed, TypeOK, Conn, Page, EventSound, Accepts
  <2> QED BY <2>1 DEF HttpInv, OpenSound, StatSound, Open, StatOwned
<1> QED BY <1>1, HttpInvariance, PTL

\* There a connection that has asked waits for the page it asked for last, and
\* one that has not waits to be read (do_http_request, do_http_respone).
THEOREM PagesFollowRequests == ASSUME Shared PROVE Spec => []PagesMatch
<1>1. HttpInv => PagesMatch
  BY DEF HttpInv, OpenSound, Open, PagesMatch
<1> QED BY <1>1, HttpInvariance, PTL

=============================================================================
