------------------------------- MODULE LogTail -------------------------------
(***************************************************************************)
(* What the rolling file appenders of git/log4cpp promise to a reader of   *)
(* their files: taken together, from the oldest file to the one in use,    *)
(* they are the end of what was logged, in order and without gaps, except  *)
(* for records logged while no file could be opened.                       *)
(***************************************************************************)
EXTENDS Naturals, Sequences

VARIABLES
    kept,       \* the records in the files, by number, the oldest first
    last,       \* number of the record logged last
    missed,     \* records that were written nowhere
    writable    \* the appender has a file

vars == <<kept, last, missed, writable>>

Init ==
    /\ kept = <<>>
    /\ last = 0
    /\ missed = {}
    /\ writable \in BOOLEAN

Log ==
    /\ last' = last + 1
    /\ \/ /\ writable
          /\ kept' = Append(kept, last')
          /\ UNCHANGED missed
       \/ /\ ~writable
          /\ missed' = missed \cup {last'}
          /\ UNCHANGED kept
    /\ UNCHANGED writable

\* The oldest records go.
Forget ==
    /\ \E k \in 1..Len(kept) : kept' = SubSeq(kept, k + 1, Len(kept))
    /\ UNCHANGED <<last, missed, writable>>

\* A file is opened, or cannot be.
Reopen ==
    /\ writable' \in BOOLEAN
    /\ UNCHANGED <<kept, last, missed>>

Next == Log \/ Forget \/ Reopen

Spec == Init /\ [][Next]_vars

-----------------------------------------------------------------------------
\* The records in the files are in order, and between the oldest of them and
\* the newest record logged only missed ones are not there.
Whole ==
    /\ \A i, j \in 1..Len(kept) : i < j => kept[i] < kept[j]
    /\ \A i \in 1..Len(kept) : \A r \in kept[i]..last :
          r \in missed \/ \E j \in 1..Len(kept) : kept[j] = r
=============================================================================
