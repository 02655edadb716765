------------------------------ MODULE DailyFile ------------------------------
(***************************************************************************)
(* The DailyRollingFileAppender of git/log4cpp.                            *)
(*                                                                         *)
(* The first record of a day renames the log file to the date it was       *)
(* written on and then deletes the files that were last written too long   *)
(* ago.  Nothing but the time of the last write, read by the constructor,  *)
(* tells a new process which day the file belongs to.  Every system call   *)
(* is a step; the clock runs on between them, and the process may be       *)
(* killed.                                                                 *)
(***************************************************************************)
EXTENDS Integers, Sequences, FiniteSets, SequencesExt

CONSTANTS
    DayLength,      \* ticks of the clock in a day
    MaxDays,        \* _maxDaysToKeep
    Modulus,        \* 2^w for the w bits of unsigned int
    ClockBack,      \* the clock may be set back
    Rolls,          \* the program calls rollOver also when there are records to lose
    MaxClock,       \* bound: the clock
    MaxPause,       \* bound: ticks within one call
    MaxRecord,      \* bound: records logged
    MaxCrash        \* bound: crashes

Day == 0..(MaxClock \div DayLength)
Today(t) == t \div DayLength

NoFile == [exists |-> FALSE, records |-> <<>>, mtime |-> 0]
NewFile(t) == [exists |-> TRUE, records |-> <<>>, mtime |-> t]

VARIABLES
    clock,
    log,        \* the file of name _fileName
    dated,      \* the files with a date in their name
    hasFd,      \* _fd is not -1
    logsDay,    \* the day of _logsTime
    pc,
    t,          \* what time said at the start of _append or in rollOver
    called,     \* rollOver was called by the program
    up,
    when,       \* ghost: of each record, what time said when it was logged
    last, missed, crashes   \* ghosts

files  == <<log, dated>>
locals == <<pc, t, called>>
ghosts == <<when, last, missed, crashes>>
vars   == <<clock, files, hasFd, logsDay, locals, up, ghosts>>

Kept == FlattenSeq([k \in 1..Cardinality(Day) |-> dated[k - 1].records]) \o log.records

Init ==
    /\ clock = 0
    /\ log = NoFile
    /\ dated = [d \in Day |-> NoFile]
    /\ hasFd = FALSE
    /\ logsDay = 0
    /\ pc = "idle" /\ t = 0 /\ called = FALSE
    /\ up = FALSE
    /\ when = <<>> /\ last = 0 /\ missed = {} /\ crashes = 0

Tick ==
    /\ clock' \in IF ClockBack THEN {clock - 1, clock + 1} ELSE {clock + 1}
    /\ clock' \in 0..MaxClock
    /\ pc # "idle" => clock' - t <= MaxPause
    /\ UNCHANGED <<files, hasFd, logsDay, locals, up, ghosts>>

-----------------------------------------------------------------------------
(* Slips a programmer could make.  No behaviour of Spec takes one: each     *)
(* stands for an action below in a variant of this module in which the      *)
(* property named with it must fail.                                        *)

\* The day is noted before the file is renamed (DaysKept).
BeginNotes ==
    /\ up /\ pc = "idle"
    /\ last < MaxRecord
    /\ t' = clock
    /\ pc' = IF Today(clock) # logsDay THEN "rename" ELSE "write"
    /\ logsDay' = Today(clock)
    /\ UNCHANGED <<clock, files, hasFd, called, up, ghosts>>

\* The constructor takes the day of the clock (DaysKept).
StartToday ==
    /\ ~up
    /\ up' = TRUE
    /\ log' = IF log.exists THEN log ELSE NewFile(clock)
    /\ hasFd' = TRUE
    /\ logsDay' = Today(clock)
    /\ UNCHANGED <<clock, dated, locals, ghosts>>

-----------------------------------------------------------------------------
(* The constructor opens the file first and then asks for its time, which   *)
(* is the present if it has just been created or cannot be opened.          *)

Start ==
    /\ ~up
    /\ up' = TRUE
    /\ \/ /\ log' = IF log.exists THEN log ELSE NewFile(clock)
          /\ hasFd' = TRUE
       \/ hasFd' = FALSE /\ UNCHANGED log
    /\ logsDay' = Today(IF log'.exists THEN log'.mtime ELSE clock)
    /\ UNCHANGED <<clock, dated, locals, ghosts>>

Crash ==
    /\ up
    /\ crashes < MaxCrash
    /\ crashes' = crashes + 1
    /\ up' = FALSE
    /\ hasFd' = FALSE
    /\ pc' = "idle" /\ t' = 0 /\ called' = FALSE
    /\ UNCHANGED <<clock, files, logsDay, when, last, missed>>

-----------------------------------------------------------------------------
(* _append: time, rollOver on another day, FileAppender::_append.           *)

Begin ==
    /\ up /\ pc = "idle"
    /\ last < MaxRecord
    /\ t' = clock
    /\ pc' = IF Today(clock) # logsDay THEN "rename" ELSE "write"
    /\ UNCHANGED <<clock, files, hasFd, logsDay, called, up, ghosts>>

\* rollOver, called by the program.
RollOver ==
    /\ Rolls \/ (log.records = <<>> /\ dated[logsDay].records = <<>>)
    /\ up /\ pc = "idle"
    /\ called' = TRUE
    /\ t' = clock
    /\ pc' = "rename"
    /\ UNCHANGED <<clock, files, hasFd, logsDay, up, ghosts>>

\* close and rename; a file of the new name is replaced, and that there is no
\* log file is reported and ignored.
Rename ==
    /\ pc = "rename"
    /\ IF log.exists
       THEN dated' = [dated EXCEPT ![logsDay] = log] /\ log' = NoFile
       ELSE UNCHANGED files
    /\ pc' = "open"
    /\ UNCHANGED <<clock, hasFd, logsDay, t, called, up, ghosts>>

Open ==
    /\ pc = "open"
    /\ \/ /\ log' = IF log.exists THEN log ELSE NewFile(clock)
          /\ hasFd' = TRUE
       \/ hasFd' = FALSE /\ UNCHANGED log
    /\ pc' = "delete"
    /\ UNCHANGED <<clock, dated, logsDay, t, called, up, ghosts>>

\* The days are multiplied as unsigned integers.
Oldest == clock - ((MaxDays * DayLength) % Modulus)

\* One pass over the directory; then _append notes the day, a call from outside
\* does not.
Delete ==
    /\ pc = "delete"
    /\ dated' = [d \in Day |-> IF dated[d].mtime < Oldest THEN NoFile ELSE dated[d]]
    /\ log' = IF log.mtime < Oldest THEN NoFile ELSE log
    /\ pc' = IF called THEN "idle" ELSE "write"
    /\ logsDay' = IF called THEN logsDay ELSE Today(t)
    /\ t' = IF called THEN 0 ELSE t
    /\ called' = FALSE
    /\ UNCHANGED <<clock, hasFd, up, ghosts>>

\* What is written to a file that Delete has taken the name from is lost.
Write ==
    /\ pc = "write"
    /\ last' = last + 1
    /\ when' = Append(when, t)
    /\ log' = IF hasFd /\ log.exists
              THEN [log EXCEPT !.records = Append(@, last'), !.mtime = clock]
              ELSE log
    /\ missed' = IF hasFd THEN missed ELSE missed \cup {last'}
    /\ pc' = "idle" /\ t' = 0
    /\ UNCHANGED <<clock, dated, hasFd, logsDay, called, up, crashes>>

Done == clock = MaxClock /\ last = MaxRecord /\ UNCHANGED vars

Next == Tick \/ Start \/ Crash \/ Begin \/ RollOver \/ Rename \/ Open \/ Delete \/ Write \/ Done

Spec == Init /\ [][Next]_vars

-----------------------------------------------------------------------------
(* Properties.                                                             *)

\* Days of the records of file f.
DaysOf(f) == {Today(when[f.records[k]]) : k \in DOMAIN f.records}

\* A step that keeps dated files as they should be.
KeepsDays ==
    /\ \A d \in Day : DaysOf(dated[d])' \subseteq (d - crashes)..d
    /\ \A d \in Day : dated'[d].records = <<>> =>
          \A k \in DOMAIN dated[d].records :
             when[dated[d].records[k]] < clock - MaxDays * DayLength

\* A file with a date holds records of that day, or, for each crash and where
\* midnight fell between time and write, of one day before; and no record goes
\* before it is maxDaysToKeep old (DailyRollingFileAppender.cpp:40-63, :73-170).
DaysKept == [][KeepsDays]_vars

\* Read in the order of their dates, the files are the end of what was logged,
\* whenever the process is killed and restarted (LogTail).
Abstract == INSTANCE LogTail WITH kept <- Kept, writable <- hasFd
ImplementsLogTail == Abstract!Spec
=============================================================================
