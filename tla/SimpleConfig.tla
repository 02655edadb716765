----------------------------- MODULE SimpleConfig -----------------------------
(***************************************************************************)
(* The SimpleConfigurator of git/log4cpp.                                  *)
(*                                                                         *)
(* configure reads words and numbers from a stream: once a read has failed *)
(* all that follow fail, without moving on.  A file is a sequence of lines, *)
(* each a sequence of words together with what its author means by it; the *)
(* code sees the words with the ends of the lines between them.            *)
(***************************************************************************)
EXTENDS Integers, Sequences, SequencesExt

CONSTANTS
    File,           \* files given to configure
    MaxCall         \* bound: calls of configure

NewLine == "newline"
Faulty == [what |-> "fault"]

VARIABLES
    pc,             \* "idle", "read"
    text,           \* the words and line ends of the file
    at,             \* the next of them
    good,           \* the stream is good
    category,       \* names of the categories there are
    priority,       \* of each category that was given one
    appender,       \* appenders that were made: category, kind, layout, attached
    result,         \* of the last call: "none", "good", "thrown"
    meant,          \* ghost: what the lines of all calls up to now mean
    calls, throws   \* ghosts

stream == <<text, at, good>>
log    == <<category, priority, appender>>
vars   == <<pc, stream, log, result, meant, calls, throws>>

Init ==
    /\ pc = "idle" /\ text = <<>> /\ at = 1 /\ good = TRUE
    /\ category = {"root"} /\ priority = [c \in {"root"} |-> "INFO"] /\ appender = <<>>
    /\ result = "none" /\ meant = <<>> /\ calls = 0 /\ throws = 0

-----------------------------------------------------------------------------
(* Reading.                                                                 *)

Number == {"1", "2"}
Known  == {"ERROR", "INFO", "NOTSET"}      \* priorities

\* White space is skipped, ends of lines included.
SkipWs(p) ==
    CHOOSE q \in p..(p + Len(text)) :
        /\ \A n \in p..(q - 1) : n <= Len(text) /\ text[n] = NewLine
        /\ q > Len(text) \/ text[q] # NewLine

HasWord(p) == SkipWs(p) <= Len(text)
Word(p)    == text[SkipWs(p)]
Behind(p)  == SkipWs(p) + 1

\* The end of the line p is on.
LineEnd(p) ==
    CHOOSE q \in p..(p + Len(text)) :
        /\ \A n \in p..(q - 1) : n <= Len(text) /\ text[n] # NewLine
        /\ q > Len(text) \/ text[q] = NewLine

\* What the kinds of appenders read; a ? stands in front of what may be missing.
Arguments(kind) ==
    CASE kind = "file" -> <<"word">>
      [] kind = "rolling" -> <<"word", "number", "number">>
      [] kind = "dailyrolling" -> <<"word", "number">>
      [] kind \in {"console", "stdout", "stderr"} -> <<>>
      [] kind = "syslog" -> <<"word", "?number">>
      [] kind = "remotesyslog" -> <<"word", "word", "?number", "?number">>

Kind == {"file", "rolling", "dailyrolling", "console", "stdout", "stderr", "syslog", "remotesyslog"}

Readable(argument, p) ==
    HasWord(p) /\ (argument = "word" \/ Word(p) \in Number)

\* The place and the state of the stream after the arguments, or a missing one.
ReadArguments(kind, p) ==
    LET as == Arguments(kind)
        read[n \in 0..Len(as)] ==
            IF n = 0 THEN [at |-> p, good |-> TRUE, missing |-> FALSE]
            ELSE LET r == read[n - 1] IN
                 IF r.missing THEN r
                 ELSE IF r.good /\ Readable(as[n], r.at) THEN [r EXCEPT !.at = Behind(@)]
                 ELSE IF as[n] = "?number" THEN [r EXCEPT !.good = FALSE]
                 ELSE [r EXCEPT !.missing = TRUE]
    IN  read[Len(as)]

-----------------------------------------------------------------------------
(* Slips a programmer could make.  No behaviour of Spec takes one: each     *)
(* stands for a definition below in a variant of this module in which       *)
(* SimpleRead must fail.                                                    *)

\* A word of the pattern is left to be read as the next command.
PatternEndWord(p) == p + 1

\* The rest of a comment is read as a command.
CommentWord ==
    /\ pc = "read" /\ HasWord(at) /\ Word(at) = "#"
    /\ at' = Behind(at)
    /\ UNCHANGED <<pc, text, good, log, result, meant, calls, throws>>

-----------------------------------------------------------------------------
(* configure.                                                               *)

\* The words of a file with the ends of its lines.
TextOf(file) == FlattenSeq([n \in DOMAIN file |-> Append(file[n].words, NewLine)])

Configure ==
    /\ pc = "idle" /\ calls < MaxCall
    /\ \E file \in File :
          /\ text' = TextOf(file)
          /\ meant' = meant \o [n \in DOMAIN file |-> file[n].means]
    /\ at' = 1 /\ good' = TRUE
    /\ pc' = "read"
    /\ calls' = calls + 1
    /\ UNCHANGED <<log, result, throws>>

Return == pc' = "idle" /\ result' = "good" /\ UNCHANGED throws
Throw  == pc' = "idle" /\ result' = "thrown" /\ throws' = throws + 1
Goes   == UNCHANGED <<pc, result, throws>>

\* The end of the file, or of what can be read of it.
Ends ==
    /\ pc = "read"
    /\ \/ ~good \/ ~HasWord(at)
       \/ good /\ HasWord(at) /\ Word(at) # "#" /\ ~HasWord(Behind(at))
    /\ Return
    /\ UNCHANGED <<stream, log, meant, calls>>

Comment ==
    /\ pc = "read" /\ good /\ HasWord(at) /\ Word(at) = "#"
    /\ at' = LineEnd(Behind(at))
    /\ Goes
    /\ UNCHANGED <<text, good, log, meant, calls>>

\* A command and the category it is for, which is made if there is none.
Command(c) ==
    /\ pc = "read" /\ good
    /\ HasWord(at) /\ Word(at) = c /\ c # "#" /\ HasWord(Behind(at))
    /\ category' = category \cup {Word(Behind(at))}

Name  == Word(Behind(at))
Third == Behind(Behind(at))

\* What getline reads as the pattern, from the next thing that is not white space.
PatternEnd(p) == LineEnd(p)
PatternAt(r) == IF r.good /\ HasWord(r.at)
                THEN SubSeq(text, SkipWs(r.at), PatternEnd(SkipWs(r.at)) - 1)
                ELSE <<>>

Made(kind, layout, attached) ==
    [category |-> Name, kind |-> kind, layout |-> layout, attached |-> attached]

\* Nothing is said when the layout or the kind is missing.
AppenderCut ==
    /\ Command("appender")
    /\ ~HasWord(Behind(Third))
    /\ good' = FALSE
    /\ Goes
    /\ UNCHANGED <<text, at, priority, appender, meant, calls>>

\* An appender with a layout that is not known, or a pattern that is not one, is
\* made, registered by its constructor, and forgotten.
Appender ==
    /\ Command("appender")
    /\ HasWord(Behind(Third))
    /\ LET layout == Word(Third)
           kind == Word(Behind(Third))
           r == ReadArguments(kind, Behind(Behind(Third)))
           pattern == PatternAt(r)
       IN  IF kind \notin Kind \/ r.missing
           THEN Throw /\ UNCHANGED <<at, good, appender>>
           ELSE IF layout \in {"basic", "simple"}
           THEN /\ appender' = Append(appender, Made(kind, <<layout>>, TRUE))
                /\ at' = r.at /\ good' = r.good
                /\ Goes
           ELSE IF layout = "pattern" /\ ~Contains(pattern, "%?")
           THEN /\ appender' = Append(appender, Made(kind, <<"pattern">> \o pattern, TRUE))
                /\ at' = IF pattern = <<>> THEN r.at ELSE PatternEnd(SkipWs(r.at))
                /\ good' = (pattern # <<>>)
                /\ Goes
           ELSE /\ appender' = Append(appender, Made(kind, <<>>, FALSE))
                /\ Throw /\ UNCHANGED <<at, good>>
    /\ UNCHANGED <<text, priority, meant, calls>>

\* NOTSET is refused for the root.
Priority ==
    /\ Command("priority")
    /\ IF HasWord(Third) /\ Word(Third) \in Known /\ ~(Name = "root" /\ Word(Third) = "NOTSET")
       THEN /\ priority' = [c \in DOMAIN priority \cup {Name} |->
                               IF c = Name THEN Word(Third) ELSE priority[c]]
            /\ at' = Behind(Third)
            /\ Goes
       ELSE Throw /\ UNCHANGED <<priority, at>>
    /\ UNCHANGED <<text, good, appender, meant, calls>>

Category ==
    /\ Command("category")
    /\ at' = Third
    /\ Goes
    /\ UNCHANGED <<text, good, priority, appender, meant, calls>>

Invalid ==
    /\ \E c \in ToSet(text) \ {"appender", "priority", "category"} : Command(c)
    /\ Throw
    /\ UNCHANGED <<stream, priority, appender, meant, calls>>

Next ==
    \/ Configure \/ Ends \/ Comment
    \/ AppenderCut \/ Appender \/ Priority \/ Category \/ Invalid

Spec == Init /\ [][Next]_vars

-----------------------------------------------------------------------------
(* Properties.                                                             *)

MeansOf(what) == SelectSeq(meant, LAMBDA m : m.what = what)

\* The appenders the lines mean, in their order.
Wanted(ms) ==
    LET as == SelectSeq(ms, LAMBDA m : m.what = "appender") IN
    [n \in DOMAIN as |-> [category |-> as[n].category, kind |-> as[n].kind,
                          layout |-> as[n].layout, attached |-> TRUE]]

\* The lines in front of the first that has a fault.
Sound ==
    LET faults == {n \in DOMAIN meant : meant[n] = Faulty} IN
    IF faults = {} THEN meant
    ELSE SubSeq(meant, 1, (CHOOSE n \in faults : \A l \in faults : n <= l) - 1)

\* Files without a fault are read line by line for what they mean, in any number
\* of calls.  When a line has a fault, what the lines before it mean is done all
\* the same, and a call that throws forgets one appender at most
\* (SimpleConfigurator.cpp:58-228).
SimpleRead ==
    /\ Len(SelectSeq(appender, LAMBDA a : ~a.attached)) <= throws
    /\ pc = "idle" =>
          /\ IsPrefix(Wanted(Sound), appender)
          /\ Sound = meant =>
                /\ result # "thrown"
                /\ appender = Wanted(meant)
                /\ \A c \in category :
                      LET ps == SelectSeq(meant, LAMBDA m : m.what = "priority" /\ m.category = c)
                      IN  ps # <<>> => priority[c] = Last(ps).priority
                /\ {meant[n].category : n \in {l \in DOMAIN meant : meant[l].what # "comment"}}
                      \cup {"root"} = category

\* The comment on configure (SimpleConfigurator.hh:44-45): a ConfigureFailure is
\* thrown "if the method encountered a read or syntax error."
FaultsThrow == pc = "idle" /\ calls = 1 /\ Sound # meant => result = "thrown"

\* No appender is forgotten.
NoneForgotten == \A n \in DOMAIN appender : appender[n].attached
=============================================================================
