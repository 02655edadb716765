----------------------------- MODULE BufferedLog -----------------------------
(***************************************************************************)
(* The BufferingAppender of git/log4cpp with its LevelEvaluator and the    *)
(* threshold of the appender it passes its records to, its sink.           *)
(*                                                                         *)
(* Records wait in a queue until one comes that is severe enough, and then *)
(* go to the sink as the text of a single event.  The callers hold the     *)
(* mutex of a category, so an append is one step.                          *)
(***************************************************************************)
EXTENDS Integers, Sequences, SequencesExt

CONSTANTS
    Asked,          \* sizes given to the constructor
    Level,          \* priorities of records
    Trigger,        \* level of the evaluator
    SinkThreshold,  \* thresholds given to the sink
    SetsLossy,      \* values given to setLossy
    MaxEvent        \* bound: records logged

\* Priority::NOTSET: the priority of the event dump makes, and no threshold.
NOTSET == 800

VARIABLES
    queue,          \* queue_: numbers of records, the newest first
    maxSize,        \* max_size_
    lossy,          \* lossy_
    sinkThreshold,  \* _threshold of the sink
    texts,          \* the events the sink took, each the records in its text
    count,          \* ghost: records logged
    told            \* ghost: number of the record that last triggered a dump

vars == <<queue, maxSize, lossy, sinkThreshold, texts, count, told>>

Init ==
    /\ queue = <<>>
    /\ \E n \in Asked : maxSize = Max({1, n})
    /\ lossy = FALSE
    /\ sinkThreshold = NOTSET
    /\ texts = <<>>
    /\ count = 0 /\ told = 0

-----------------------------------------------------------------------------
(* A slip a programmer could make.  No behaviour of Spec takes it: it stands *)
(* for the definition below in a variant of this module in which the        *)
(* property named with it must fail.                                        *)

\* The newest record makes room (BufferTells).
RoomInFront == IF Len(queue) = maxSize /\ lossy THEN Tail(queue) ELSE queue

-----------------------------------------------------------------------------
\* AppenderSkeleton::doAppend of the sink: whether it takes what dump sends.
SinkTakes == sinkThreshold = NOTSET \/ NOTSET <= sinkThreshold

Dumped(q) == IF SinkTakes THEN <<Reverse(q)>> ELSE <<>>

\* The queue when the new record comes in.
Room == IF Len(queue) = maxSize /\ lossy THEN Front(queue) ELSE queue

\* _append: a full queue loses its oldest record or is dumped, which leaves it
\* as it was; a record of the level of the evaluator dumps it and clears it.
DoAppend(l) ==
    LET full == Len(queue) = maxSize /\ ~lossy
        q == <<count + 1>> \o Room
        triggers == l <= Trigger
    IN  /\ count < MaxEvent
        /\ count' = count + 1
        /\ texts' = texts \o (IF full THEN Dumped(queue) ELSE <<>>)
                          \o (IF triggers THEN Dumped(q) ELSE <<>>)
        /\ queue' = IF triggers THEN <<>> ELSE q
        /\ told' = IF triggers THEN count' ELSE told
        /\ UNCHANGED <<maxSize, lossy, sinkThreshold>>

SetLossy(b) ==
    /\ lossy' = b
    /\ UNCHANGED <<queue, maxSize, sinkThreshold, texts, count, told>>

SetSinkThreshold(p) ==
    /\ sinkThreshold' = p
    /\ UNCHANGED <<queue, maxSize, lossy, texts, count, told>>

Next ==
    \/ \E l \in Level : DoAppend(l)
    \/ \E b \in SetsLossy : SetLossy(b)
    \/ \E p \in SinkThreshold : SetSinkThreshold(p)

Spec == Init /\ [][Next]_vars

-----------------------------------------------------------------------------
(* Properties.                                                             *)

InTexts(ts) == UNION {ToSet(ts[k]) : k \in DOMAIN ts}

\* A step that dumps the queue, and a step that does not lose records.
Tells ==
    /\ told' # told =>
          LET text == Last(texts') IN
          /\ text = [k \in 1..Len(text) |-> told' - Len(text) + k]
          /\ Len(text) <= told' - told
          /\ Len(text) >= Min({maxSize, told' - told})
    /\ ~lossy => ToSet(queue) \subseteq ToSet(queue') \cup InTexts(texts')

\* A record of the level of the evaluator brings with it the records before it
\* back to the last such record, or at least as many of them as the buffer was
\* made for; and without lossy no record is lost before the sink has had it
\* (BufferingAppender.cpp:22-51).
BufferTells == [][Tells]_vars

\* The buffer keeps to the size it was given.
KeepsToSize == Len(queue) <= maxSize

\* The sink has a record once.
EachOnce ==
    \A k \in DOMAIN texts : \A m \in DOMAIN texts :
        ToSet(texts[k]) \cap ToSet(texts[m]) # {} => k = m
=============================================================================
