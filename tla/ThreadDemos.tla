----------------------------- MODULE ThreadDemos -----------------------------
(***************************************************************************)
(* Two of the thread demos.  In main2.c the main thread reads lines into a *)
(* buffer and posts a semaphore for each, and a thread prints the buffer   *)
(* whenever it gets the semaphore, until it says end.  In main3.c two      *)
(* stations sell tickets from one stock under a mutex.                     *)
(***************************************************************************)
EXTENDS Integers, FiniteSets

CONSTANTS
    MaxLine,        \* bound: lines typed before end
    Stock,          \* global_value at the start: 1000
    Rounds,         \* rounds of a station: 10
    Station,        \* the two threads of main3.c
    Nobody          \* the owner of the free mutex

End == MaxLine + 1

VARIABLES
    buff,           \* main2: the buffer, by the number of its line
    sem,            \* main2: the semaphore
    main,           \* main2: "read", "post", "test", "join", "destroy", "done"
    printer,        \* main2: "wait", "print", "test", "ended"
    printed,        \* ghost, main2: the number of the line printed last
    stock,          \* main3: global_value
    owner,          \* main3: owner of lock
    round,          \* main3: i of each station
    station,        \* main3: "lock", "sell", "take", "unlock" or "ended"
    sold            \* ghost, main3: pairs of a station and a ticket

lineVars   == <<buff, sem, main, printer, printed>>
ticketVars == <<stock, owner, round, station, sold>>

LinesInit ==
    /\ buff = 0 /\ sem = 0 /\ main = "read" /\ printer = "wait" /\ printed = 0

TicketsInit ==
    /\ stock = Stock /\ owner = Nobody
    /\ round = [s \in Station |-> 0]
    /\ station = [s \in Station |-> "lock"]
    /\ sold = {}

-----------------------------------------------------------------------------
(* Slips a programmer could make.  No behaviour of the specification takes   *)
(* one: each stands for an action below in a variant of this module in which *)
(* the property named with it must fail.                                    *)

\* The mutex is given up before the ticket is taken from the stock (TicketsOnce).
SellUnlocks(s) ==
    /\ station[s] = "sell"
    /\ sold' = IF stock > 0 THEN sold \cup {<<s, stock>>} ELSE sold
    /\ owner' = Nobody
    /\ station' = [station EXCEPT ![s] = "take"]
    /\ UNCHANGED <<stock, round>>

\* The semaphore is posted only after the line is found not to be end
\* (DemosEnd).
PostLate ==
    /\ main = "post"
    /\ sem' = IF buff = End THEN sem ELSE sem + 1
    /\ main' = "test"
    /\ UNCHANGED <<buff, printer, printed>>

-----------------------------------------------------------------------------
(* main2.c.                                                                 *)

\* fgets.
Read ==
    /\ main = "read"
    /\ \E n \in {End} \cup {k \in 1..MaxLine : k = buff + 1} : buff' = n
    /\ main' = "post"
    /\ UNCHANGED <<sem, printer, printed>>

Post ==
    /\ main = "post"
    /\ sem' = sem + 1
    /\ main' = "test"
    /\ UNCHANGED <<buff, printer, printed>>

Test ==
    /\ main = "test"
    /\ main' = IF buff = End THEN "join" ELSE "read"
    /\ UNCHANGED <<buff, sem, printer, printed>>

\* pthread_join and sem_destroy.
Join ==
    /\ main = "join" /\ printer = "ended"
    /\ main' = "destroy"
    /\ UNCHANGED <<buff, sem, printer, printed>>

SemDestroy ==
    /\ main = "destroy"
    /\ main' = "done"
    /\ UNCHANGED <<buff, sem, printer, printed>>

SemWait ==
    /\ printer = "wait" /\ sem > 0
    /\ sem' = sem - 1
    /\ printer' = "print"
    /\ UNCHANGED <<buff, main, printed>>

\* The buffer may change between the printing and the test.
PrintBuff ==
    /\ printer = "print"
    /\ printed' = buff
    /\ printer' = "test"
    /\ UNCHANGED <<buff, sem, main>>

PrinterTest ==
    /\ printer = "test"
    /\ printer' = IF buff = End THEN "ended" ELSE "wait"
    /\ UNCHANGED <<buff, sem, main, printed>>

LinesNext ==
    \/ Read \/ Post \/ Test \/ Join \/ SemDestroy
    \/ SemWait \/ PrintBuff \/ PrinterTest

LinesSpec == LinesInit /\ [][LinesNext]_lineVars

-----------------------------------------------------------------------------
(* main3.c.                                                                 *)

Lock(s) ==
    /\ station[s] = "lock" /\ owner = Nobody
    /\ owner' = s
    /\ station' = [station EXCEPT ![s] = "sell"]
    /\ UNCHANGED <<stock, round, sold>>

Sell(s) ==
    /\ station[s] = "sell"
    /\ sold' = IF stock > 0 THEN sold \cup {<<s, stock>>} ELSE sold
    /\ station' = [station EXCEPT ![s] = "take"]
    /\ UNCHANGED <<stock, owner, round>>

\* global_value--, also when there is none left.
Take(s) ==
    /\ station[s] = "take"
    /\ stock' = stock - 1
    /\ station' = [station EXCEPT ![s] = "unlock"]
    /\ UNCHANGED <<owner, round, sold>>

Unlock(s) ==
    /\ station[s] = "unlock"
    /\ owner' = Nobody
    /\ round' = [round EXCEPT ![s] = @ + 1]
    /\ station' = [station EXCEPT ![s] = IF round'[s] = Rounds THEN "ended" ELSE "lock"]
    /\ UNCHANGED <<stock, sold>>

TicketsNext == \E s \in Station : Lock(s) \/ Sell(s) \/ Take(s) \/ Unlock(s)

TicketsSpec == TicketsInit /\ [][TicketsNext]_ticketVars

-----------------------------------------------------------------------------
(* Properties.                                                             *)

\* A ticket is sold once, in a row from the first, and a station that tried when
\* there were tickets sold one (main3.c:16-29, :53-67).
TicketsOnce ==
    /\ \A x, y \in sold : x[2] = y[2] => x = y
    /\ (\A s \in Station : station[s] = "ended") =>
          {x[2] : x \in sold} =
             {n \in 1..Stock : n > Stock - Cardinality(Station) * Rounds}

\* The semaphore is destroyed when nobody waits for it any more, and the printer
\* has not gone before end was typed (main2.c:47-71).
LinesSound ==
    /\ main \in {"destroy", "done"} => printer = "ended"
    /\ printer = "ended" => buff = End

\* Once end is typed the program ends (main2.c:56-61).
LinesEnd == buff = End ~> main = "done"

\* Every line is printed.
LinesPrinted == printer = "ended" => printed = End
=============================================================================
