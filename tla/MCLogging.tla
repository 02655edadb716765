------------------------------ MODULE MCLogging ------------------------------
(***************************************************************************)
(* The two appenders that roll over, one of them chosen at the start.      *)
(***************************************************************************)
EXTENDS RollingFile

CONSTANTS DayLength, MaxDays, Modulus, MaxClock, MaxPause, DailyRecords, DailyCrashes

VARIABLES
    part,
    clock, log, dated, hasFd, logsDay, dailyPc, t, called, dailyUp, when, dailyLast,
    dailyMissed, crashes

dailyVars == <<clock, log, dated, hasFd, logsDay, dailyPc, t, called, dailyUp, when,
               dailyLast, dailyMissed, crashes>>

Daily == INSTANCE DailyFile WITH
    ClockBack <- FALSE, Rolls <- FALSE, MaxRecord <- DailyRecords, MaxCrash <- DailyCrashes,
    pc <- dailyPc, up <- dailyUp, last <- dailyLast, missed <- dailyMissed

ASSUME DaysAssumption ==
    /\ DayLength \in Nat \ {0} /\ MaxDays \in Nat /\ Modulus \in Nat /\ MaxClock \in Nat
    /\ MaxPause \in Nat

MCInit ==
    /\ part \in {"rolling", "daily"}
    /\ Init /\ (part = "rolling" \/ maxBackupIndex = 1)
    /\ Daily!Init

MCNext ==
    /\ UNCHANGED part
    /\ \/ part = "rolling" /\ Next /\ UNCHANGED dailyVars
       \/ part = "daily" /\ Daily!Next /\ UNCHANGED vars

MCSpec == MCInit /\ [][MCNext]_<<part, vars, dailyVars>>

\* The files of either kind are the end of what was logged
\* (RollingFileAppender.cpp:61-94, DailyRollingFileAppender.cpp:73-170).
LogTails == ImplementsLogTail /\ Daily!ImplementsLogTail

\* What is dropped is old enough to go: see RetainsEnough of RollingFile and
\* DaysKept of DailyFile.
OldGoFirst == RetainsEnough /\ Daily!DaysKept
=============================================================================
