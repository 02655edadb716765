--------------------------- MODULE CommLoopProofs ---------------------------
(***************************************************************************)
(* Proofs about the event loop of the echo server: who owns a ConnectStat, *)
(* what the tables of the framework and the kernel agree on, and when a    *)
(* timer fires, for any number of descriptors, stats and clients.          *)
(***************************************************************************)
EXTENDS CommLoop, TLAPS

Directions == {"none", "in", "out"}
Entry == [reader : Reader, readData : Stat \cup {NoStat},
          writer : Writer, writeData : Stat \cup {NoStat},
          timer : {"null", "do_echo_timeout"}, timerData : Stat \cup {NoStat},
          timeout : Nat]
Socket == [open : BOOLEAN, peer : {"none", "open", "fin", "reset", "dead"},
           inbox : {"empty", "message", "quit"}]
Event == [fd : Fd \cup {Listen}, in : BOOLEAN, out : BOOLEAN]
Accepts == [fd |-> Listen, in |-> TRUE, out |-> FALSE]

TableTyped ==
    /\ fde \in [Fd -> Entry]
    /\ state \in [Fd -> Directions] /\ kernel \in [Fd -> Directions]
    /\ sock \in [Fd -> Socket]
    /\ heap \in [Stat -> {"free", "live", "corrupt"}]
    /\ due \in [Fd -> Nat]

\* What is in the tables about one descriptor.
ClosedSound(f) == f \notin Open => fde[f] = EmptyFde
OpenSound(f) == f \in Open =>
    /\ fde[f].timerData # NoStat => heap[fde[f].timerData] = "live"
    /\ fde[f].reader # "null" => fde[f].readData = fde[f].timerData
    /\ fde[f].writer # "null" => fde[f].writeData = fde[f].timerData
    /\ fde[f].timeout # 0 /\ fde[f].timer # "null"
    /\ \/ kernel[f] = "in" /\ fde[f].reader = "do_echo_handler"
       \/ kernel[f] = "out" /\ fde[f].writer # "null"

TableInv ==
    /\ TableTyped
    /\ \A f \in Fd : kernel[f] = state[f] /\ ClosedSound(f) /\ OpenSound(f)
    /\ \A s \in Stat :
          /\ heap[s] # "corrupt"
          /\ heap[s] = "live" => \E f \in Open : fde[f].timerData = s
    /\ \A f, g \in Open :
          fde[f].timerData = fde[g].timerData /\ fde[f].timerData # NoStat => f = g

\* The events of a batch, and the one that is handled.
EventInv ==
    /\ backlog \in 0..MaxBacklog
    /\ phase \in {"select", "wait", "batch", "read", "write", "stopped"}
    /\ batch \subseteq Event
    /\ phase \in {"read", "write"} => event \in Event /\ event.fd \in Fd
    /\ \A e \in batch : e.fd = Listen => e = Accepts /\ backlog > 0

\* The clock as the program knows it is the time of day, or a second behind
\* while events are handled; before its first reading there is no connection
\* that waits.
ClockInv ==
    /\ now \in Nat /\ curtime \in Nat /\ lastCheck \in Nat
    /\ lastCheck <= curtime /\ curtime <= now
    /\ StartTime <= now
    /\ curtime # 0 => now <= curtime + 1
    /\ phase \in {"select", "wait"} => curtime = now \/ (curtime = 0 /\ Open = {})

\* A timer that was set counts from that clock, and has survived every check.
TimerInv ==
    /\ \A f \in Open :
          /\ lastCheck < fde[f].timeout
          /\ fde[f].timeout <= due[f]
          /\ due[f] <= fde[f].timeout + 1 \/ fde[f].timeout < StartTime
    /\ phase = "wait" => \A f \in Open : now < due[f]

LoopInv == TableInv /\ EventInv /\ ClockInv /\ TimerInv

-----------------------------------------------------------------------------
(* The operations of the framework.                                        *)

\* With tables that agree, the kernel accepts what SetEvents asks of it.
LEMMA EventsAccepted ==
  ASSUME TableInv, NEW f \in Fd, NEW want \in Directions, SetEvents(f, want)
  PROVE  /\ state' = [state EXCEPT ![f] = want]
         /\ kernel' = [kernel EXCEPT ![f] = want]
<1>1. EpollCtl(f, want) = want
  BY DEF EpollCtl, TableInv
<1> QED BY <1>1 DEF SetEvents

\* The fields of an entry after a handler is installed with its timer.
LEMMA TimeoutFacts ==
  ASSUME NEW e \in Entry, NEW s \in Stat \cup {NoStat}, NEW d \in Nat, curtime \in Nat
  PROVE  /\ WithTimeout(e, d, s) \in Entry
         /\ WithTimeout(e, d, s).timer = "do_echo_timeout"
         /\ WithTimeout(e, d, s).timerData = s
         /\ WithTimeout(e, d, s).timeout = curtime + d
         /\ WithTimeout(e, d, s).reader = e.reader
         /\ WithTimeout(e, d, s).readData = e.readData
         /\ WithTimeout(e, d, s).writer = e.writer
         /\ WithTimeout(e, d, s).writeData = e.writeData
<1>1. curtime + d \in Nat
  OBVIOUS
<1> QED BY <1>1, ZenonT(60) DEF WithTimeout, Entry

\* The fields of an entry after commUpdateReadHandler or
\* commUpdateWriteHandler.
LEMMA HandlerFacts ==
  ASSUME NEW e \in Entry, NEW s \in Stat \cup {NoStat}
  PROVE  /\ \A h \in Writer :
               /\ WithWriter(e, h, s) \in Entry
               /\ WithWriter(e, h, s).reader = e.reader
               /\ WithWriter(e, h, s).readData = e.readData
               /\ WithWriter(e, h, s).writer = h
               /\ WithWriter(e, h, s).writeData = s
         /\ \A h \in Reader :
               /\ WithReader(e, h, s) \in Entry
               /\ WithReader(e, h, s).reader = h
               /\ WithReader(e, h, s).readData = s
               /\ WithReader(e, h, s).writer = e.writer
               /\ WithReader(e, h, s).writeData = e.writeData
  BY DEF WithWriter, WithReader, Entry

\* A cleared entry, and a closed descriptor.
LEMMA EmptyEntry == NoStat \notin Stat /\ EmptyFde \in Entry /\ Closed \in Socket
                    /\ EmptyFde.timeout = 0 /\ EmptyFde.reader = "null"
                    /\ EmptyFde.writer = "null"
  BY StatAssumption DEF EmptyFde, Entry, Reader, Writer, Closed, Socket

\* Only the data or the peer of a connection changes.
LEMMA TrafficKeepsTables ==
  ASSUME TableInv, UNCHANGED server, sock' \in [Fd -> Socket],
         \A f \in Fd : sock'[f].open = sock[f].open
  PROVE  TableInv' /\ Open' = Open
<1>1. Open' = Open
  BY DEF Open
<1> QED BY <1>1 DEF TableInv, TableTyped, ClosedSound, OpenSound, server

\* Connections are closed, and their stats are freed with them.
LEMMA ClosingKeepsTables ==
  ASSUME TableInv, NEW fs \in SUBSET Open,
         CloseAndFree(fs, {fde[f].timerData : f \in fs} \ {NoStat})
  PROVE  TableInv' /\ Open' = Open \ fs /\ fs \subseteq Fd
<1> DEFINE ss == {fde[f].timerData : f \in fs} \ {NoStat}
<1>a. TableTyped /\ fs \subseteq Fd /\ Open \subseteq Fd
  BY DEF TableInv, Open
<1>1. /\ \A f \in Fd : fde'[f] = IF f \in fs THEN EmptyFde ELSE fde[f]
      /\ \A f \in Fd : state'[f] = IF f \in fs THEN "none" ELSE state[f]
      /\ \A f \in Fd : kernel'[f] = IF f \in fs THEN "none" ELSE kernel[f]
      /\ \A f \in Fd : sock'[f] = IF f \in fs THEN Closed ELSE sock[f]
      /\ due' = due
  BY DEF CloseAndFree
<1>2. Open' = Open \ fs
  BY <1>1, <1>a DEF Open, Closed
<1>3. \A s \in ss : s \in Stat /\ heap[s] = "live"
  BY <1>a, EmptyEntry DEF TableInv, OpenSound, TableTyped, Entry
<1>4. \A s \in Stat : heap'[s] = IF s \in ss THEN "free" ELSE heap[s]
  BY <1>3 DEF CloseAndFree, FreeAll
<1>5. TableTyped'
  <2>1. fde' \in [Fd -> Entry] /\ sock' \in [Fd -> Socket]
    BY <1>a, EmptyEntry DEF CloseAndFree, TableTyped
  <2>2. state' \in [Fd -> Directions] /\ kernel' \in [Fd -> Directions]
    BY <1>a DEF CloseAndFree, TableTyped, Directions
  <2>3. heap' \in [Stat -> {"free", "live", "corrupt"}] /\ due' \in [Fd -> Nat]
    BY <1>a DEF CloseAndFree, FreeAll, TableTyped
  <2> QED BY <2>1, <2>2, <2>3 DEF TableTyped
<1>6. ASSUME NEW f \in Fd
      PROVE  kernel'[f] = state'[f] /\ ClosedSound(f)' /\ OpenSound(f)'
  <2>1. CASE f \in fs
    BY <1>1, <1>2, <2>1 DEF ClosedSound, OpenSound
  <2>2. CASE f \notin fs
    <3>1. f \in Open => fde[f].timerData \notin ss
      BY <1>a, <2>2 DEF TableInv
    <3>2. f \in Open /\ fde[f].timerData # NoStat => fde[f].timerData \in Stat
      BY <1>a, <1>6 DEF TableTyped, Entry
    <3> QED BY <1>1, <1>2, <1>4, <2>2, <3>1, <3>2 DEF TableInv, ClosedSound, OpenSound
  <2> QED BY <2>1, <2>2
<1>7. ASSUME NEW s \in Stat
      PROVE  /\ heap'[s] # "corrupt"
             /\ heap'[s] = "live" => \E f \in Open' : fde'[f].timerData = s
  <2>1. heap'[s] # "corrupt"
    BY <1>4 DEF TableInv
  <2>2. ASSUME heap'[s] = "live" PROVE \E f \in Open' : fde'[f].timerData = s
    <3>1. heap[s] = "live" /\ s \notin ss
      BY <1>4, <2>2
    <3>2. PICK f \in Open : fde[f].timerData = s
      BY <3>1 DEF TableInv
    <3>3. f \notin fs
      BY <3>1, <3>2, EmptyEntry
    <3> QED BY <1>a, <1>1, <1>2, <3>2, <3>3
  <2> QED BY <2>1, <2>2
<1>8. \A f, g \in Open' :
         fde'[f].timerData = fde'[g].timerData /\ fde'[f].timerData # NoStat => f = g
  BY <1>a, <1>1, <1>2 DEF TableInv
<1> QED BY <1>a, <1>2, <1>5, <1>6, <1>7, <1>8 DEF TableInv

\* A handler of an open connection installs the next one and a timer.
LEMMA RearmingKeepsTables ==
  ASSUME TableInv, NEW f \in Open, NEW want \in {"in", "out"},
         fde' = [fde EXCEPT ![f] = fde'[f]], fde'[f] \in Entry,
         fde'[f].timerData = fde[f].timerData,
         fde'[f].timeout # 0, fde'[f].timer # "null",
         fde'[f].reader # "null" => fde'[f].readData = fde[f].timerData,
         fde'[f].writer # "null" => fde'[f].writeData = fde[f].timerData,
         want = "in" => fde'[f].reader = "do_echo_handler",
         want = "out" => fde'[f].writer # "null",
         SetEvents(f, want), heap' = heap,
         sock' \in [Fd -> Socket], \A g \in Fd : sock'[g].open = sock[g].open,
         due' \in [Fd -> Nat]
  PROVE  TableInv' /\ Open' = Open
<1>a. TableTyped /\ f \in Fd
  BY DEF TableInv, Open
<1>1. Open' = Open
  BY DEF Open
<1>2. /\ state' = [state EXCEPT ![f] = want]
      /\ kernel' = [kernel EXCEPT ![f] = want]
  BY <1>a, EventsAccepted DEF Directions
<1>3. TableTyped'
  BY <1>a, <1>2 DEF TableTyped, Directions
<1>4. \A g \in Fd \ {f} : fde'[g] = fde[g] /\ state'[g] = state[g] /\ kernel'[g] = kernel[g]
  BY <1>a, <1>2 DEF TableTyped
<1>5. kernel'[f] = want /\ state'[f] = want
  BY <1>a, <1>2 DEF TableTyped
<1>6. ASSUME NEW g \in Fd
      PROVE  kernel'[g] = state'[g] /\ ClosedSound(g)' /\ OpenSound(g)'
  BY <1>a, <1>1, <1>4, <1>5 DEF TableInv, ClosedSound, OpenSound
<1>7. \A g \in Open : fde'[g].timerData = fde[g].timerData
  BY <1>4 DEF Open
<1> QED BY <1>1, <1>3, <1>6, <1>7 DEF TableInv

\* A connection is accepted on a free descriptor, with a stat of its own or
\* none.
LEMMA AcceptingKeepsTables ==
  ASSUME TableInv, NEW f \in Fd \ Open,
         NEW s \in {x \in Stat : heap[x] = "free"} \cup {NoStat},
         fde' = [fde EXCEPT ![f] = fde'[f]], fde'[f] \in Entry,
         fde'[f].timerData = s, fde'[f].timeout # 0, fde'[f].timer # "null",
         fde'[f].reader = "null",
         fde'[f].writer # "null", fde'[f].writeData = s,
         SetEvents(f, "out"),
         heap' = [x \in Stat |-> IF x = s THEN "live" ELSE heap[x]],
         sock' = [sock EXCEPT ![f] = Accepted],
         due' \in [Fd -> Nat]
  PROVE  TableInv' /\ Open' = Open \cup {f}
<1>a. TableTyped /\ f \in Fd
  BY DEF TableInv
<1>1. \A g \in Fd : sock'[g] = IF g = f THEN Accepted ELSE sock[g]
  BY <1>a DEF TableTyped
<1>2. Open' = Open \cup {f}
  BY <1>a, <1>1 DEF Open, Accepted
<1>3. /\ state' = [state EXCEPT ![f] = "out"]
      /\ kernel' = [kernel EXCEPT ![f] = "out"]
  BY <1>a, EventsAccepted DEF Directions
<1>4. TableTyped'
  <2>1. sock' \in [Fd -> Socket]
    BY <1>a DEF TableTyped, Socket, Accepted
  <2> QED BY <1>a, <1>3, <2>1 DEF TableTyped, Directions
<1>5. \A g \in Fd \ {f} : fde'[g] = fde[g] /\ state'[g] = state[g] /\ kernel'[g] = kernel[g]
  BY <1>a, <1>3 DEF TableTyped
<1>6. kernel'[f] = "out" /\ state'[f] = "out"
  BY <1>a, <1>3 DEF TableTyped
<1>7. \A g \in Open : fde[g].timerData \in Stat \cup {NoStat}
  BY <1>a DEF TableTyped, Entry, Open
<1>8. \A g \in Open : fde[g].timerData # NoStat => fde[g].timerData # s
  BY <1>7 DEF TableInv, OpenSound, Open
<1>9. ASSUME NEW g \in Fd
      PROVE  kernel'[g] = state'[g] /\ ClosedSound(g)' /\ OpenSound(g)'
  <2>1. CASE g = f
    BY <1>2, <1>6, <2>1, EmptyEntry DEF ClosedSound, OpenSound
  <2>2. CASE g # f
    BY <1>2, <1>5, <1>7, <2>2 DEF TableInv, ClosedSound, OpenSound
  <2> QED BY <2>1, <2>2
<1>10. ASSUME NEW x \in Stat
       PROVE  /\ heap'[x] # "corrupt"
              /\ heap'[x] = "live" => \E g \in Open' : fde'[g].timerData = x
  <2>1. CASE x = s
    BY <1>2, <2>1
  <2>2. CASE x # s
    <3>1. heap'[x] = heap[x]
      BY <2>2
    <3>2. \A g \in Open : g \in Fd \ {f}
      BY DEF Open
    <3> QED BY <1>2, <1>5, <3>1, <3>2 DEF TableInv
  <2> QED BY <2>1, <2>2
<1>11. ASSUME NEW g \in Open', NEW h \in Open',
              fde'[g].timerData = fde'[h].timerData, fde'[g].timerData # NoStat
       PROVE  g = h
  <2>1. \A k \in Open' \ {f} : k \in Open /\ fde'[k].timerData = fde[k].timerData
    BY <1>2, <1>5 DEF Open
  <2>2. CASE g # f /\ h # f
    BY <1>11, <2>1, <2>2 DEF TableInv
  <2>3. CASE g = f \/ h = f
    BY <1>8, <1>11, <2>1, <2>3
  <2> QED BY <2>2, <2>3
<1> QED BY <1>2, <1>4, <1>9, <1>10, <1>11 DEF TableInv

\* A timer is set while events are handled.
LEMMA SettingKeepsTimers ==
  ASSUME ClockInv, TimerInv, TableTyped, NEW f \in Fd,
         NEW d \in {AcceptTimeout, EchoTimeout},
         \A g \in Fd \ {f} : fde'[g] = fde[g],
         fde'[f].timeout = curtime + d,
         due' = [due EXCEPT ![f] = now + d],
         Open' \subseteq Open \cup {f},
         UNCHANGED clock, phase' \notin {"select", "wait"}
  PROVE  ClockInv' /\ TimerInv'
<1>1. ClockInv'
  BY DEF ClockInv, clock
<1>2. d \in Nat \ {0} /\ d < StartTime /\ StartTime \in Nat
  BY TimeAssumption
<1>3. /\ lastCheck' < fde'[f].timeout
      /\ fde'[f].timeout <= due'[f]
      /\ due'[f] <= fde'[f].timeout + 1 \/ fde'[f].timeout < StartTime
  BY <1>2 DEF ClockInv, clock, TableTyped
<1>4. \A g \in Open' \ {f} : g \in Open /\ fde'[g] = fde[g] /\ due'[g] = due[g]
  BY DEF TableTyped, Open
<1>5. \A g \in Open' \ {f} :
         /\ lastCheck' < fde'[g].timeout
         /\ fde'[g].timeout <= due'[g]
         /\ due'[g] <= fde'[g].timeout + 1 \/ fde'[g].timeout < StartTime
  BY <1>4 DEF TimerInv, clock
<1> QED BY <1>1, <1>3, <1>5 DEF TimerInv

-----------------------------------------------------------------------------
(* The steps.                                                              *)

\* The invariant in the initial state.
LEMMA InitLoopInv == Init => LoopInv
<1> SUFFICES ASSUME Init PROVE LoopInv
  OBVIOUS
<1>1. Open = {}
  BY DEF Init, Open, Closed
<1>2. TableInv
  <2>1. TableTyped
    BY EmptyEntry DEF Init, TableTyped, Directions
  <2> QED BY <1>1, <2>1 DEF Init, TableInv, ClosedSound, OpenSound
<1>3. EventInv
  BY StatAssumption DEF Init, EventInv
<1>4. ClockInv /\ TimerInv
  BY <1>1, TimeAssumption DEF Init, ClockInv, TimerInv
<1> QED BY <1>2, <1>3, <1>4 DEF LoopInv

\* checkTimeouts runs only when the clock has been read, and keeps the
\* invariant.
LEMMA CheckingKeeps ==
  ASSUME LoopInv, CheckTimeouts
  PROVE  LoopInv' /\ curtime = now
<1>a. /\ TableInv /\ TableTyped /\ EventInv /\ ClockInv /\ TimerInv
      /\ \A f \in Open : f \in Fd /\ fde[f].timeout \in Nat
  BY DEF LoopInv, TableInv, TableTyped, Entry, Open
<1>1. Expired \in SUBSET Open
  BY <1>a, EmptyEntry DEF Expired, TableInv, ClosedSound
<1>2. {g \in Expired : fde[g].timer # "null"} = Expired
  BY <1>a, <1>1 DEF TableInv, OpenSound
<1>3. CloseAndFree(Expired, {fde[f].timerData : f \in Expired} \ {NoStat})
  BY <1>2 DEF CheckTimeouts
<1>4. TableInv' /\ Open' = Open \ Expired
  BY <1>a, <1>1, <1>3, ClosingKeepsTables
<1>5. EventInv'
  BY <1>a DEF EventInv, CheckTimeouts
<1>6. curtime = now
  BY <1>a DEF CheckTimeouts, ClockInv
<1>7. ClockInv'
  BY <1>a, <1>6 DEF ClockInv, CheckTimeouts
<1>8. \A f \in Open' : fde'[f] = fde[f] /\ due'[f] = due[f] /\ curtime < fde[f].timeout
  BY <1>a, <1>1, <1>3, <1>4 DEF Expired, CloseAndFree, ClockInv, TableInv, OpenSound
<1>9. TimerInv'
  BY <1>a, <1>4, <1>6, <1>8 DEF TimerInv, CheckTimeouts, ClockInv, TableTyped
<1> QED BY <1>4, <1>5, <1>6, <1>7, <1>9 DEF LoopInv

\* The steps of the loop that only move on in it.
LEMMA LoopingKeeps ==
  ASSUME LoopInv,
         \/ SkipTimeouts \/ ReadClock \/ \E seconds \in 0..1 : EpollWait(seconds)
         \/ \E e \in batch : NextEvent(e)
         \/ NoRead \/ EchoAsserts \/ NoWrite
         \/ \E h \in Writer \ {"null"} : WriteKilled(h)
  PROVE  LoopInv'
<1>a. TableInv /\ TableTyped /\ EventInv /\ ClockInv /\ TimerInv
  BY DEF LoopInv, TableInv
<1>1. UNCHANGED <<server, sock>>
  BY DEF SkipTimeouts, ReadClock, EpollWait, NextEvent, NoRead, EchoAsserts, NoWrite, WriteKilled
<1>2. TableInv' /\ Open' = Open
  BY <1>a, <1>1, TrafficKeepsTables DEF TableTyped
<1>3. fde' = fde /\ due' = due
  BY <1>1 DEF server
<1>4. \A f \in Open : f \in Fd /\ fde[f].timeout \in Nat /\ due[f] \in Nat
  BY <1>a DEF TableTyped, Entry, Open
<1>5. CASE SkipTimeouts
  <2>1. EventInv' /\ ClockInv'
    BY <1>2, <1>5, <1>a DEF SkipTimeouts, EventInv, ClockInv, clock
  <2>2. TimerInv'
    BY <1>2, <1>3, <1>4, <1>5, <1>a DEF SkipTimeouts, ClockInv, TimerInv, clock
  <2> QED BY <1>2, <2>1, <2>2 DEF LoopInv
<1>6. CASE ReadClock
  <2>1. EventInv' /\ ClockInv'
    BY <1>2, <1>6, <1>a, TimeAssumption DEF ReadClock, EventInv, ClockInv
  <2>2. TimerInv'
    BY <1>2, <1>3, <1>6, <1>a DEF ReadClock, TimerInv
  <2> QED BY <1>2, <2>1, <2>2 DEF LoopInv
<1>7. ASSUME NEW seconds \in 0..1, EpollWait(seconds) PROVE LoopInv'
  <2>1. \A e \in Ready : e \in Event /\ (e.fd = Listen => e = Accepts /\ backlog > 0)
    <3> SUFFICES ASSUME NEW e \in Ready
                 PROVE  e \in Event /\ (e.fd = Listen => e = Accepts /\ backlog > 0)
      OBVIOUS
    <3>1. CASE \E f \in Fd : e = EventOf(f)
      <4>1. PICK f \in Fd : e = EventOf(f)
        BY <3>1
      <4>2. e \in Event /\ e.fd = f
        BY <4>1 DEF EventOf, Event, Broken
      <4> QED BY <4>2, FdAssumption
    <3>2. CASE backlog > 0 /\ e = Accepts
      BY <3>2 DEF Event, Accepts
    <3> QED BY <3>1, <3>2 DEF Ready, Open, Accepts
  <2>2. EventInv'
    BY <1>7, <1>a, <2>1 DEF EpollWait, EventInv
  <2>3. ClockInv'
    <3>1. curtime # 0 => now' <= curtime + 1
      BY <1>7, <1>a DEF EpollWait, ClockInv
    <3>2. now' \in Nat /\ now <= now' /\ phase' = "batch" /\ UNCHANGED <<curtime, lastCheck>>
      BY <1>7, <1>a DEF EpollWait, ClockInv
    <3> QED BY <1>a, <3>1, <3>2, TimeAssumption DEF ClockInv
  <2>4. TimerInv'
    BY <1>2, <1>3, <1>7, <1>a DEF EpollWait, TimerInv
  <2> QED BY <1>2, <2>2, <2>3, <2>4 DEF LoopInv
<1>8. ASSUME \/ \E e \in batch : NextEvent(e)
             \/ NoRead \/ EchoAsserts \/ NoWrite
             \/ \E h \in Writer \ {"null"} : WriteKilled(h)
      PROVE  LoopInv'
  <2>1. /\ phase' \in {"batch", "read", "write", "stopped"}
        /\ batch' \subseteq batch
        /\ UNCHANGED <<clock, backlog>>
    BY <1>8 DEF NextEvent, NoRead, EchoAsserts, NoWrite, CallsEcho, CallsWriter, WriteKilled
  <2>2. phase' \in {"read", "write"} => event' \in Event /\ event'.fd \in Fd
    BY <1>8, <1>a
       DEF NextEvent, NoRead, EchoAsserts, NoWrite, WriteKilled, EventInv, Event
  <2>3. EventInv'
    BY <1>a, <2>1, <2>2 DEF EventInv
  <2>4. ClockInv' /\ TimerInv'
    BY <1>2, <1>3, <1>a, <2>1 DEF ClockInv, TimerInv, clock
  <2> QED BY <1>2, <2>3, <2>4 DEF LoopInv
<1> QED BY <1>5, <1>6, <1>7, <1>8

\* A read or a write that reports an error, and what the clients do.
LEMMA TrafficKeeps ==
  ASSUME LoopInv,
         \/ EchoFails \/ \E h \in Writer \ {"null"} : WriteFails(h)
         \/ Client
  PROVE  LoopInv'
<1>a. TableInv /\ TableTyped /\ EventInv /\ ClockInv /\ TimerInv
  BY DEF LoopInv, TableInv
<1>1. /\ UNCHANGED <<server, clock, batch>>
      /\ phase' # phase => phase' \in {"batch", "write"} /\ phase \in {"read", "write"}
      /\ event' = event \/ phase' = "batch"
      /\ backlog' \in backlog..MaxBacklog
  <2>0. backlog \in Nat /\ MaxBacklog \in Nat /\ backlog <= MaxBacklog
    BY <1>a, StatAssumption DEF EventInv
  <2>1. CASE EchoFails \/ \E h \in Writer \ {"null"} : WriteFails(h)
    BY <2>0, <2>1 DEF EchoFails, WriteFails, CallsEcho, CallsWriter
  <2>2. CASE ClientConnects
    BY <2>0, <2>2 DEF ClientConnects, OnlySockets
  <2>3. CASE \E f \in Fd : \/ \E m \in {"message", "quit"} : ClientSends(f, m)
                          \/ \E how \in {"fin", "reset"} : ClientLeaves(f, how)
    BY <2>0, <2>3 DEF ClientSends, ClientLeaves, OnlySockets
  <2> QED BY <2>1, <2>2, <2>3 DEF Client
<1> DEFINE OnlyTraffic ==
        sock' \in [Fd -> Socket] /\ \A f \in Fd : sock'[f].open = sock[f].open
<1>2. OnlyTraffic
  <2>1. ASSUME NEW f \in Fd, sock' = AfterError(f) PROVE OnlyTraffic
    BY <1>a, <2>1 DEF AfterError, TableTyped, Socket
  <2>2. CASE EchoFails \/ \E h \in Writer \ {"null"} : WriteFails(h)
    BY <1>a, <2>1, <2>2 DEF EchoFails, WriteFails, CallsEcho, CallsWriter, EventInv
  <2>3. CASE ClientConnects
    BY <1>a, <2>3 DEF ClientConnects, TableTyped
  <2>4. ASSUME NEW f \in Fd, NEW m \in {"message", "quit"}, ClientSends(f, m) PROVE OnlyTraffic
    BY <1>a, <2>4 DEF ClientSends, TableTyped, Socket
  <2>5. ASSUME NEW f \in Fd, NEW how \in {"fin", "reset"}, ClientLeaves(f, how) PROVE OnlyTraffic
    BY <1>a, <2>5, SMTT(150) DEF ClientLeaves, TableTyped, Socket
  <2> QED BY <2>2, <2>3, <2>4, <2>5 DEF Client
<1>3. TableInv' /\ Open' = Open
  BY <1>a, <1>1, <1>2, TrafficKeepsTables
<1>4. EventInv'
  BY <1>a, <1>1 DEF EventInv
<1>5. ClockInv' /\ TimerInv'
  BY <1>a, <1>1, <1>3 DEF ClockInv, TimerInv, clock, server
<1> QED BY <1>3, <1>4, <1>5 DEF LoopInv

\* accept_connection.
LEMMA AcceptingKeeps ==
  ASSUME LoopInv, NEW e \in batch, AcceptConnection(e)
  PROVE  LoopInv'
<1>a. /\ TableInv /\ TableTyped /\ EventInv /\ ClockInv /\ TimerInv
      /\ curtime \in Nat /\ now \in Nat
      /\ AcceptTimeout \in Nat \ {0}
  BY TimeAssumption DEF LoopInv, TableInv, ClockInv
<1>1. /\ phase = "batch" /\ e = Accepts /\ backlog > 0
      /\ batch' = batch \ {e}
      /\ UNCHANGED <<clock, phase, event, probed>>
  BY <1>a DEF AcceptConnection, EventInv
<1>2. \A x \in batch' : x.fd # Listen
  BY <1>a, <1>1 DEF EventInv
<1>3. backlog' \in {backlog, backlog - 1}
  BY DEF AcceptConnection
<1>4. EventInv'
  BY <1>a, <1>1, <1>2, <1>3, StatAssumption DEF EventInv
<1>5. CASE UNCHANGED <<server, sock, backlog>>
  <2>1. TableInv' /\ Open' = Open
    BY <1>a, <1>5, TrafficKeepsTables DEF TableTyped
  <2>2. ClockInv' /\ TimerInv'
    BY <1>a, <1>1, <1>5, <2>1 DEF ClockInv, TimerInv, clock, server
  <2> QED BY <1>4, <2>1, <2>2 DEF LoopInv
<1>6. ASSUME NEW f \in Fd \ Open,
             NEW s \in {x \in Stat : heap[x] = "free"} \cup {NoStat},
             sock' = [sock EXCEPT ![f] = Accepted],
             heap' = [x \in Stat |-> IF x = s THEN "live" ELSE heap[x]],
             fde' = [fde EXCEPT ![f] =
                 WithTimeout(WithWriter(@, "do_welcome_handler", s), AcceptTimeout, s)],
             SetEvents(f, "out"),
             due' = [due EXCEPT ![f] = now + AcceptTimeout]
      PROVE  LoopInv'
  <2> DEFINE x == WithTimeout(WithWriter(fde[f], "do_welcome_handler", s), AcceptTimeout, s)
  <2>1. fde[f] = EmptyFde /\ fde[f] \in Entry /\ s \in Stat \cup {NoStat}
    BY <1>a, EmptyEntry DEF TableInv, ClosedSound
  <2>2. /\ x \in Entry /\ x.timer = "do_echo_timeout" /\ x.timerData = s
        /\ x.timeout = curtime + AcceptTimeout
        /\ x.reader = "null" /\ x.writer = "do_welcome_handler" /\ x.writeData = s
    <3> DEFINE y == WithWriter(fde[f], "do_welcome_handler", s)
    <3>0. /\ y \in Entry /\ y.reader = fde[f].reader
          /\ y.writer = "do_welcome_handler" /\ y.writeData = s
      BY <2>1, HandlerFacts DEF Writer
    <3>1. y.reader = "null"
      BY <2>1, <3>0, EmptyEntry
    <3>2. x = WithTimeout(y, AcceptTimeout, s)
      OBVIOUS
    <3> HIDE DEF x, y
    <3> QED BY <1>a, <2>1, <3>0, <3>1, <3>2, TimeoutFacts
  <2>3. fde'[f] = x /\ fde' = [fde EXCEPT ![f] = x] /\ \A g \in Fd \ {f} : fde'[g] = fde[g]
    BY <1>a, <1>6 DEF TableTyped
  <2> HIDE DEF x
  <2>4. due' \in [Fd -> Nat] /\ fde' = [fde EXCEPT ![f] = fde'[f]] /\ x.timeout # 0
    BY <1>a, <1>6, <2>2, <2>3 DEF TableTyped
  <2>7. /\ fde'[f] \in Entry /\ fde'[f].timerData = s
        /\ fde'[f].timeout # 0 /\ fde'[f].timer # "null"
        /\ fde'[f].reader = "null" /\ fde'[f].writer # "null" /\ fde'[f].writeData = s
    BY <2>2, <2>3, <2>4
  <2>5. TableInv' /\ Open' = Open \cup {f}
    BY <1>a, <1>6, <2>4, <2>7, AcceptingKeepsTables, ZenonT(60)
  <2>6. ClockInv' /\ TimerInv'
    BY <1>a, <1>1, <1>6, <2>2, <2>3, <2>5, SettingKeepsTimers
  <2> QED BY <1>4, <2>5, <2>6 DEF LoopInv
<1> QED BY <1>5, <1>6 DEF AcceptConnection

\* do_echo_handler reads a message; do_welcome_handler or do_echo_response has
\* written.
LEMMA HandlingKeeps ==
  ASSUME LoopInv, EchoReads \/ \E h \in Writer \ {"null"} : Written(h)
  PROVE  LoopInv'
<1>a. /\ TableInv /\ TableTyped /\ EventInv /\ ClockInv /\ TimerInv
      /\ curtime \in Nat /\ now \in Nat /\ EchoTimeout \in Nat \ {0}
      /\ phase \in {"read", "write"} /\ event.fd \in Fd
  BY TimeAssumption DEF LoopInv, TableInv, ClockInv, EventInv, EchoReads, CallsEcho,
                        Written, CallsWriter
<1> DEFINE f == event.fd
           s == fde[f].timerData
<1>1. /\ f \in Open /\ f \in Fd /\ s \in Stat \cup {NoStat} /\ fde[f] \in Entry
      /\ fde[f].reader # "null" => fde[f].readData = s
      /\ fde[f].writer # "null" => fde[f].writeData = s
  <2>1. f \in Open
    BY <1>a, EmptyEntry
       DEF EchoReads, CallsEcho, Written, CallsWriter, TableInv, ClosedSound
  <2> QED BY <1>a, <2>1 DEF TableInv, OpenSound, TableTyped, Entry
<1>2. ASSUME NEW x \in Entry, NEW want \in {"in", "out"},
             fde' = [fde EXCEPT ![f] = x],
             x.timer = "do_echo_timeout", x.timerData = s,
             x.timeout = curtime + EchoTimeout,
             x.reader # "null" => x.readData = s,
             x.writer # "null" => x.writeData = s,
             want = "in" => x.reader = "do_echo_handler",
             want = "out" => x.writer # "null",
             SetEvents(f, want),
             due' = [due EXCEPT ![f] = now + EchoTimeout],
             sock' \in [Fd -> Socket], \A g \in Fd : sock'[g].open = sock[g].open,
             phase' \in {"write", "batch"}, phase' = "batch" \/ event' = event,
             UNCHANGED <<heap, backlog, clock, batch>>
      PROVE  LoopInv'
  <2>1. fde'[f] = x /\ \A g \in Fd \ {f} : fde'[g] = fde[g]
    BY <1>a, <1>1, <1>2 DEF TableTyped
  <2>2. due' \in [Fd -> Nat] /\ x.timeout # 0
    BY <1>a, <1>2 DEF TableTyped
  <2>3. TableInv' /\ Open' = Open
    BY <1>a, <1>1, <1>2, <2>1, <2>2, RearmingKeepsTables, ZenonT(60)
  <2>4. ClockInv' /\ TimerInv'
    BY <1>a, <1>1, <1>2, <2>1, <2>3, SettingKeepsTimers, ZenonT(60)
  <2>5. EventInv'
    BY <1>a, <1>2 DEF EventInv
  <2> QED BY <2>3, <2>4, <2>5 DEF LoopInv
<1>3. CASE EchoReads
  <2> DEFINE x == WithTimeout(WithWriter(fde[f], "do_echo_response", s), EchoTimeout, s)
  <2>1. /\ x \in Entry /\ x.timer = "do_echo_timeout" /\ x.timerData = s
        /\ x.timeout = curtime + EchoTimeout
        /\ x.reader = fde[f].reader /\ x.readData = fde[f].readData
        /\ x.writer = "do_echo_response" /\ x.writeData = s
    <3> DEFINE y == WithWriter(fde[f], "do_echo_response", s)
    <3>1. /\ y \in Entry /\ y.reader = fde[f].reader /\ y.readData = fde[f].readData
          /\ y.writer = "do_echo_response" /\ y.writeData = s
      BY <1>1, HandlerFacts, SMTT(60) DEF Writer
    <3>2. x = WithTimeout(y, EchoTimeout, s)
      OBVIOUS
    <3>3. EchoTimeout \in Nat /\ curtime \in Nat /\ s \in Stat \cup {NoStat}
      BY <1>a, <1>1
    <3> HIDE DEF s, x, y
    <3>4. /\ x \in Entry /\ x.timer = "do_echo_timeout" /\ x.timerData = s
          /\ x.timeout = curtime + EchoTimeout
          /\ x.reader = y.reader /\ x.readData = y.readData
          /\ x.writer = y.writer /\ x.writeData = y.writeData
      BY <3>1, <3>2, <3>3, TimeoutFacts
    <3> QED BY <3>1, <3>4
  <2>2. fde' = [fde EXCEPT ![f] = x]
    BY <1>1, <1>3 DEF EchoReads, CallsEcho
  <2>3. sock' \in [Fd -> Socket] /\ \A g \in Fd : sock'[g].open = sock[g].open
    BY <1>a, <1>3 DEF EchoReads, TableTyped, Socket
  <2>4. /\ SetEvents(f, "out") /\ due' = [due EXCEPT ![f] = now + EchoTimeout]
        /\ phase' = "write"
        /\ UNCHANGED <<heap, backlog, clock, batch, event>>
    BY <1>3 DEF EchoReads
  <2> HIDE DEF x
  <2> QED BY <1>1, <1>2, <2>1, <2>2, <2>3, <2>4, ZenonT(60)
<1>4. ASSUME NEW h \in Writer \ {"null"}, Written(h) PROVE LoopInv'
  <2> DEFINE x == WithTimeout(WithReader(fde[f], "do_echo_handler", s), EchoTimeout, s)
  <2>1. /\ x \in Entry /\ x.timer = "do_echo_timeout" /\ x.timerData = s
        /\ x.timeout = curtime + EchoTimeout
        /\ x.reader = "do_echo_handler" /\ x.readData = s
        /\ x.writer = fde[f].writer /\ x.writeData = fde[f].writeData
    <3> DEFINE y == WithReader(fde[f], "do_echo_handler", s)
    <3>1. /\ y \in Entry /\ y.reader = "do_echo_handler" /\ y.readData = s
          /\ y.writer = fde[f].writer /\ y.writeData = fde[f].writeData
      BY <1>1, HandlerFacts, SMTT(60) DEF Reader
    <3>2. x = WithTimeout(y, EchoTimeout, s)
      OBVIOUS
    <3> HIDE DEF x, y
    <3>3. /\ x \in Entry /\ x.timer = "do_echo_timeout" /\ x.timerData = s
          /\ x.timeout = curtime + EchoTimeout
          /\ x.reader = y.reader /\ x.readData = y.readData
          /\ x.writer = y.writer /\ x.writeData = y.writeData
      <4>1. curtime \in Nat /\ EchoTimeout \in Nat /\ s \in Stat \cup {NoStat}
        BY <1>a, <1>1
      <4> HIDE DEF s, f
      <4> QED BY <3>1, <3>2, <4>1, TimeoutFacts
    <3> QED BY <3>1, <3>3
  <2>2. fde' = [fde EXCEPT ![f] = x]
    BY <1>1, <1>4 DEF Written, CallsWriter
  <2>3. sock' \in [Fd -> Socket] /\ \A g \in Fd : sock'[g].open = sock[g].open
    BY <1>a, <1>4 DEF Written, TableTyped
  <2>4. /\ SetEvents(f, "in") /\ due' = [due EXCEPT ![f] = now + EchoTimeout]
        /\ phase' = "batch"
        /\ UNCHANGED <<heap, backlog, clock, batch>>
    BY <1>4 DEF Written
  <2> HIDE DEF x
  <2> QED BY <1>1, <1>2, <2>1, <2>2, <2>3, <2>4, ZenonT(60)
<1> QED BY <1>3, <1>4

\* do_echo_handler at quit and at the end of the stream.
LEMMA EchoClosingKeeps ==
  ASSUME LoopInv, EchoCloses
  PROVE  LoopInv'
<1>a. /\ TableInv /\ TableTyped /\ EventInv /\ ClockInv /\ TimerInv
      /\ phase = "read" /\ event.fd \in Fd
  BY DEF LoopInv, TableInv, EventInv, EchoCloses, CallsEcho
<1> DEFINE f == event.fd
           s == fde[f].timerData
<1>1. /\ f \in Open /\ fde[f].readData = s /\ s # NoStat
  <2>1. f \in Open
    BY <1>a, EmptyEntry DEF EchoCloses, CallsEcho, TableInv, ClosedSound
  <2> QED BY <1>a, <2>1 DEF EchoCloses, CallsEcho, TableInv, OpenSound
<1>2. {s} = {fde[g].timerData : g \in {f}} \ {NoStat}
  BY <1>1
<1>3. TableInv' /\ Open' = Open \ {f}
  BY <1>a, <1>1, <1>2, ClosingKeepsTables DEF EchoCloses
<1>4. \A g \in Open' : fde'[g] = fde[g] /\ due'[g] = due[g]
  BY <1>a, <1>3 DEF EchoCloses, CloseAndFree, Open
<1>5. ClockInv' /\ TimerInv'
  BY <1>a, <1>3, <1>4 DEF EchoCloses, ClockInv, TimerInv, clock
<1>6. EventInv'
  BY <1>a DEF EchoCloses, EventInv
<1> QED BY <1>3, <1>5, <1>6 DEF LoopInv

\* Every step keeps the invariant.
LEMMA NextLoopInv == LoopInv /\ [Next]_vars => LoopInv'
<1> SUFFICES ASSUME LoopInv, [Next]_vars PROVE LoopInv'
  OBVIOUS
<1>1. CASE Loop
  <2>1. DoWelcome \/ DoResponse =>
           \E h \in Writer \ {"null"} : Written(h) \/ WriteFails(h) \/ WriteKilled(h)
    BY DEF DoWelcome, DoResponse, Writer
  <2> QED BY <1>1, <2>1, CheckingKeeps, LoopingKeeps, TrafficKeeps, AcceptingKeeps,
             HandlingKeeps, EchoClosingKeeps DEF Loop
<1>2. CASE Client
  BY <1>2, TrafficKeeps
<1>3. CASE UNCHANGED vars
  BY <1>3 DEF vars, server, clock, LoopInv, TableInv, TableTyped, ClosedSound, OpenSound,
              Open, EventInv, ClockInv, TimerInv
<1> QED BY <1>1, <1>2, <1>3 DEF Next, Stopped

\* The invariant of the loop.
LEMMA LoopInvariance == Spec => []LoopInv
  BY InitLoopInv, NextLoopInv, PTL DEF Spec

-----------------------------------------------------------------------------
(* What follows.                                                           *)

\* A ConnectStat belongs to one open connection and is freed with it, once,
\* whatever events and timers coincide (do_echo_handler and do_echo_timeout in
\* main.c, checkTimeouts in comm.c).
THEOREM StatsAreOwned == Spec => []StatOwned
<1>1. LoopInv => StatOwned
  <2> SUFFICES ASSUME LoopInv PROVE StatOwned
    OBVIOUS
  <2>1. TypeOK
    BY DEF LoopInv, TableInv, TableTyped, EventInv, ClockInv, TypeOK, Entry, Directions
  <2> QED BY <2>1 DEF LoopInv, TableInv, StatOwned
<1> QED BY <1>1, LoopInvariance, PTL

\* A handler is called with the live stat of its connection, and the record of
\* comm_epoll.c agrees with the kernel, so that no epoll_ctl is refused.
THEOREM TablesAgree == Spec => []TablesExact
<1>1. LoopInv => TablesExact
  BY DEF LoopInv, TableInv, ClosedSound, OpenSound, TablesExact
<1> QED BY <1>1, LoopInvariance, PTL

\* No open connection is forgotten: it is watched in the direction its next
\* handler waits for, and a timer will close it (commUpdateReadHandler,
\* commUpdateWriteHandler, commSetTimeout).
THEOREM ConnectionsAreAttended == Spec => []Attended
<1>1. LoopInv => Attended
  BY DEF LoopInv, TableInv, OpenSound, Attended, Open
<1> QED BY <1>1, LoopInvariance, PTL

\* No timer fires more than the second of one turn early, except one set before
\* the clock was read, and none is late when the loop goes to sleep
\* (checkTimeouts and comm_select in comm.c).
THEOREM TimersAreKept == Spec => TimersKept
<1> DEFINE Kept ==
        /\ \A f \in Fd :
             phase = "select" /\ sock[f].open /\ ~sock'[f].open =>
                now >= due[f] - 1 \/ fde[f].timeout < StartTime
        /\ phase' = "wait" => \A f \in Open' : now' < due'[f]
<1>1. LoopInv /\ LoopInv' /\ [Next]_vars => [Kept]_vars
  <2> SUFFICES ASSUME LoopInv, LoopInv', Next PROVE Kept
    BY DEF vars
  <2>1. phase' = "wait" => \A f \in Open' : now' < due'[f]
    BY DEF LoopInv, TimerInv
  <2>2. ASSUME NEW f \in Fd, phase = "select", sock[f].open, ~sock'[f].open
        PROVE  now >= due[f] - 1 \/ fde[f].timeout < StartTime
    <3>1. CheckTimeouts
      <4>1. ~(\E g \in Fd, m \in {"message", "quit"} : ClientSends(g, m))
        BY <2>2, SMTT(60) DEF ClientSends, LoopInv, TableInv, TableTyped, Socket
      <4>2. ~(\E g \in Fd, how \in {"fin", "reset"} : ClientLeaves(g, how))
        BY <2>2, SMTT(60) DEF ClientLeaves, LoopInv, TableInv, TableTyped, Socket
      <4>3. ~ClientConnects /\ ~SkipTimeouts /\ ~Stopped
        BY <2>2 DEF ClientConnects, SkipTimeouts, Stopped
      <4> QED BY <2>2, <4>1, <4>2, <4>3
             DEF Next, Loop, Client, EpollWait, NextEvent, AcceptConnection, ReadClock,
                 NoRead, EchoAsserts, EchoReads, EchoCloses, EchoFails, CallsEcho, NoWrite,
                 DoWelcome, DoResponse, Written, WriteFails, WriteKilled, CallsWriter
    <3>2. curtime = now /\ f \in Open /\ fde[f].timeout \in Nat /\ due[f] \in Nat /\ now \in Nat
      BY <2>2, <3>1, CheckingKeeps
         DEF Open, LoopInv, TableInv, TableTyped, Entry, ClockInv
    <3>3. fde[f].timeout <= curtime
      BY <2>2, <3>1 DEF CheckTimeouts, CloseAndFree, Expired
    <3> QED BY <3>2, <3>3, TimeAssumption DEF LoopInv, TimerInv
  <2> QED BY <2>1, <2>2
<1> QED BY <1>1, LoopInvariance, PTL DEF Spec, TimersKept

=============================================================================
