------------------------------ MODULE ForkDemos ------------------------------
(***************************************************************************)
(* Demos of a parent and the child it has forked: pipe/main2.c, where the  *)
(* two share both ends of one pipe, pipe/main5.c, where the child becomes  *)
(* od and reads to the end of the pipe, and signal/main6.c, where the      *)
(* child sends the parent an alarm.                                        *)
(*                                                                         *)
(* The first and the last order their steps by sleeping five seconds:      *)
(* Prompt says that the other process needs less to come to its read or    *)
(* its pause.                                                              *)
(***************************************************************************)
EXTENDS Sequences

CONSTANT Prompt

VARIABLES
    pipe,           \* main2: messages in the pipe
    dad, kid,       \* main2: where the processes are
    dadGot, kidGot, \* main2: buff2 of each
    text,           \* main5: what is in the pipe
    writers,        \* main5: the processes that have the write end
    sender, od,     \* main5: where the processes are
    alarm,          \* main6: "none", "pending" or "caught"
    sleeper, waker  \* main6: where the processes are

pipeVars == <<pipe, dad, kid, dadGot, kidGot>>
odVars   == <<text, writers, sender, od>>
wakeVars == <<alarm, sleeper, waker>>
vars     == <<pipeVars, odVars, wakeVars>>

Init ==
    /\ pipe = <<>> /\ dad = "write" /\ kid = "read" /\ dadGot = "" /\ kidGot = ""
    /\ text = "" /\ writers = {"sender", "od"} /\ sender = "write" /\ od = "close"
    /\ alarm = "none" /\ sleeper = "install" /\ waker = "sleep"

-----------------------------------------------------------------------------
(* A slip a programmer could make.  No behaviour of the specification takes  *)
(* it: it stands for the action below in a variant of this module in which  *)
(* the property named with it must fail.                                    *)

\* The child keeps the write end it was forked with (DemosEnd).
ChildKeeps ==
    /\ od = "close"
    /\ od' = "exec"
    /\ UNCHANGED <<pipeVars, text, writers, sender, wakeVars>>

-----------------------------------------------------------------------------
(* pipe/main2.c.                                                            *)

DadWrites ==
    /\ dad = "write"
    /\ pipe' = Append(pipe, "Hello Kid")
    /\ dad' = "sleep"
    /\ UNCHANGED <<kid, dadGot, kidGot, odVars, wakeVars>>

DadWakes ==
    /\ dad = "sleep"
    /\ Prompt => kid # "read"
    /\ dad' = "read"
    /\ UNCHANGED <<pipe, kid, dadGot, kidGot, odVars, wakeVars>>

DadReads ==
    /\ dad = "read" /\ pipe # <<>>
    /\ dadGot' = Head(pipe) /\ pipe' = Tail(pipe)
    /\ dad' = "wait"
    /\ UNCHANGED <<kid, kidGot, odVars, wakeVars>>

DadWaits ==
    /\ dad = "wait" /\ kid = "ended"
    /\ dad' = "ended"
    /\ UNCHANGED <<pipe, kid, dadGot, kidGot, odVars, wakeVars>>

KidReads ==
    /\ kid = "read" /\ pipe # <<>>
    /\ kidGot' = Head(pipe) /\ pipe' = Tail(pipe)
    /\ kid' = "write"
    /\ UNCHANGED <<dad, dadGot, odVars, wakeVars>>

KidWrites ==
    /\ kid = "write"
    /\ pipe' = Append(pipe, "Hello Dad!")
    /\ kid' = "ended"
    /\ UNCHANGED <<dad, dadGot, kidGot, odVars, wakeVars>>

-----------------------------------------------------------------------------
(* pipe/main5.c and od.c.                                                   *)

\* write, close of the write end and exit; without a reader SIGPIPE ends the
\* parent.
SenderWrites ==
    /\ sender = "write"
    /\ IF od = "failed"
       THEN sender' = "ended" /\ writers' = writers \ {"sender"} /\ UNCHANGED text
       ELSE sender' = "close" /\ text' = "Hello!" /\ UNCHANGED writers
    /\ UNCHANGED <<pipeVars, od, wakeVars>>

SenderCloses ==
    /\ sender = "close"
    /\ writers' = writers \ {"sender"}
    /\ sender' = "ended"
    /\ UNCHANGED <<pipeVars, text, od, wakeVars>>

\* The child closes the write end and puts the read end in the place of stdin.
ChildCloses ==
    /\ od = "close"
    /\ writers' = writers \ {"od"}
    /\ od' = "exec"
    /\ UNCHANGED <<pipeVars, text, sender, wakeVars>>

Exec ==
    /\ od = "exec"
    /\ od' \in {"first", "failed"}
    /\ writers' = IF od' = "failed" THEN writers \ {"od"} ELSE writers
    /\ UNCHANGED <<pipeVars, text, sender, wakeVars>>

\* scanf of a word: there is no blank after it, so it ends at the end of the pipe.
Scan ==
    /\ od \in {"first", "second"}
    /\ writers = {}
    /\ text' = ""
    /\ od' = IF od = "first" THEN "second" ELSE "ended"
    /\ UNCHANGED <<pipeVars, writers, sender, wakeVars>>

-----------------------------------------------------------------------------
(* signal/main6.c.                                                          *)

Installs ==
    /\ sleeper = "install"
    /\ sleeper' = "pause"
    /\ UNCHANGED <<pipeVars, odVars, alarm, waker>>

Pauses ==
    /\ sleeper = "pause"
    /\ sleeper' = "paused"
    /\ UNCHANGED <<pipeVars, odVars, alarm, waker>>

Kills ==
    /\ waker = "sleep"
    /\ Prompt => sleeper = "paused"
    /\ alarm' = "pending"
    /\ waker' = "ended"
    /\ UNCHANGED <<pipeVars, odVars, sleeper>>

\* The signal: it ends a process without the handler, and pause returns only to
\* one that comes while it waits.
Delivered ==
    /\ alarm = "pending"
    /\ sleeper # "ended"
    /\ alarm' = "caught"
    /\ sleeper' = CASE sleeper = "install" -> "killed"
                    [] sleeper = "paused"  -> "ended"
                    [] OTHER               -> sleeper
    /\ UNCHANGED <<pipeVars, odVars, waker>>

-----------------------------------------------------------------------------
Next ==
    \/ DadWrites \/ DadWakes \/ DadReads \/ DadWaits \/ KidReads \/ KidWrites
    \/ SenderWrites \/ SenderCloses \/ ChildCloses \/ Exec \/ Scan
    \/ Installs \/ Pauses \/ Kills \/ Delivered

-----------------------------------------------------------------------------
(* Properties.                                                             *)

\* Parent and child get each other's message and not their own; od ends by
\* itself; the alarm wakes the parent (pipe/main2.c:22-46, pipe/main5.c:27-45 and
\* od.c, signal/main6.c:19-34).
ForksEnd ==
    /\ <>(dad = "ended" /\ dadGot = "Hello Dad!" /\ kidGot = "Hello Kid")
    /\ <>(sender = "ended" /\ od \in {"ended", "failed"})
    /\ <>(sleeper = "ended")
=============================================================================
