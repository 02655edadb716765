---------------------------- MODULE PropertyFile ----------------------------
(***************************************************************************)
(* The Properties of git/log4cpp: how load makes settings of a text.       *)
(*                                                                         *)
(* A text is a sequence of lines, each a sequence of signs together with   *)
(* the name and the value its author means by it; a word and the ${ that   *)
(* begins a variable are one sign each.  load reads into a buffer that may *)
(* be shorter than a line, and clears the failure that this is to a stream. *)
(***************************************************************************)
EXTENDS Integers, Sequences, SequencesExt

CONSTANTS
    Text,           \* texts given to load
    Room,           \* signs of a line that the buffer holds: 255
    Environment     \* the environment: a function from names to values

NewLine == "newline"

VARIABLES
    pc,             \* "idle", "read"
    in,             \* what the stream has still to give
    fullLine,
    partiallyRead,
    settings,       \* the map: a function from names to values
    lines           \* ghost: the text of the last call

reader == <<in, fullLine, partiallyRead>>
vars   == <<pc, reader, settings, lines>>

Nothing == [n \in {} |-> <<>>]

Init ==
    /\ pc = "idle" /\ in = <<>> /\ fullLine = <<>> /\ partiallyRead = FALSE
    /\ settings = Nothing /\ lines = <<>>

-----------------------------------------------------------------------------
(* Slips a programmer could make.  No behaviour of Spec takes one: each     *)
(* stands for a definition below in a variant of this module in which       *)
(* PropertiesRead must fail.                                                *)

\* A part is taken for a line of its own.
ReadLong(got) == got

\* The last definition of a name wins.
InsertLast(name, value) ==
    [n \in DOMAIN settings \cup {name} |-> IF n = name THEN value ELSE settings[n]]

\* The brace that ends a variable is kept.
ResumeAtBrace(close) == close

-----------------------------------------------------------------------------
(* Texts.                                                                   *)

\* The place of the first of some signs from p on, or of the end.
FirstOf(signs, s, p) ==
    CHOOSE q \in p..(p + Len(s)) :
        /\ q > Len(s) \/ s[q] \in signs
        /\ \A n \in p..(q - 1) : n <= Len(s) /\ s[n] \notin signs

Before(sign, s) == SubSeq(s, 1, FirstOf({sign}, s, 1) - 1)
Behind(sign, s) == SubSeq(s, FirstOf({sign}, s, 1) + 1, Len(s))

\* StringUtil::trim.
Trim(s) ==
    LET b == FirstOf(ToSet(s) \ {" "}, s, 1)
        e == Len(s) + 1 - FirstOf(ToSet(s) \ {" "}, Reverse(s), 1)
    IN  SubSeq(s, b, e)

\* What stands for ${name}: the environment comes before the settings so far.
ValueOf(name) ==
    LET known == IF name \in DOMAIN Environment THEN Environment ELSE settings IN
    IF name = <<"${">> THEN name
    ELSE IF name \in DOMAIN known THEN known[name] ELSE <<>>

\* Where the search goes on behind a variable.
Resume(close) == close + 1

\* _substituteVariables.
Substituted(value) ==
    LET from[left \in 1..(Len(value) + 1)] ==
            LET right == FirstOf({"${"}, value, left)
                close == FirstOf({"}"}, value, right + 1)
            IN  SubSeq(value, left, right - 1)
                \o (IF right > Len(value) THEN <<>>
                    ELSE IF close > Len(value) THEN SubSeq(value, right, Len(value))
                    ELSE ValueOf(SubSeq(value, right + 1, close - 1)) \o from[Resume(close)])
    IN  from[1]

\* log4j or log4cpp in front of the first dot is dropped.
Stripped(name) ==
    IF IsPrefix(<<"log4j", ".">>, name) THEN SubSeq(name, 3, Len(name)) ELSE name

\* insert keeps what is there.
Insert(name, value) ==
    IF name \in DOMAIN settings THEN settings
    ELSE [n \in DOMAIN settings \cup {name} |-> IF n = name THEN value ELSE settings[n]]

-----------------------------------------------------------------------------
(* load.                                                                    *)

Load ==
    /\ pc = "idle"
    /\ lines' \in Text
    \* The last line may end with the text.
    /\ LET all == FlattenSeq([n \in DOMAIN lines' |-> Append(lines'[n].signs, NewLine)])
       IN  in' = all \/ (all # <<>> /\ in' = Front(all))
    /\ settings' = Nothing
    /\ fullLine' = <<>> /\ partiallyRead' = FALSE
    /\ pc' = "read"

\* What getline gives at most, and what it gives.
End == FirstOf({NewLine}, in, 1)
Got == SubSeq(in, 1, IF End - 1 <= Room THEN End - 1 ELSE Room)

Long(got) == IF partiallyRead THEN fullLine \o got ELSE got

\* The buffer is full before the line ends; failbit is cleared.
ReadPart ==
    /\ pc = "read" /\ End - 1 > Room
    /\ fullLine' = Long(Got)
    /\ partiallyRead' = TRUE
    /\ in' = SubSeq(in, Room + 1, Len(in))
    /\ UNCHANGED <<pc, settings, lines>>

ReadLine ==
    /\ pc = "read" /\ in # <<>> /\ End - 1 <= Room
    /\ fullLine' = Long(Got)
    /\ partiallyRead' = FALSE
    /\ in' = SubSeq(in, End + 1, Len(in))
    /\ LET command == Before("#", fullLine') IN
          settings' = IF "=" \in ToSet(command)
                      THEN Insert(Stripped(Trim(Before("=", command))),
                                  Substituted(Trim(Behind("=", command))))
                      ELSE settings
    /\ UNCHANGED <<pc, lines>>

\* getline gives nothing at the end.
Finish ==
    /\ pc = "read" /\ in = <<>>
    /\ pc' = "idle"
    /\ UNCHANGED <<reader, settings, lines>>

Next == Load \/ ReadPart \/ ReadLine \/ Finish

Spec == Init /\ [][Next]_vars

-----------------------------------------------------------------------------
(* Properties.                                                             *)

\* A value with its variables replaced, sign by sign.
Replaced(value, known) ==
    LET lookup(name) ==
            IF name = <<"${">> THEN name
            ELSE IF name \in DOMAIN Environment THEN Environment[name]
            ELSE IF name \in DOMAIN known THEN known[name] ELSE <<>>
        step(r, sign) ==
            IF ~r.within
            THEN IF sign = "${" THEN [r EXCEPT !.within = TRUE, !.name = <<>>]
                 ELSE [r EXCEPT !.out = Append(@, sign)]
            ELSE IF sign = "}" THEN [r EXCEPT !.within = FALSE, !.out = @ \o lookup(r.name)]
            ELSE [r EXCEPT !.name = Append(@, sign)]
        end == FoldLeft(step, [out |-> <<>>, within |-> FALSE, name |-> <<>>], value)
    IN  IF end.within THEN end.out \o <<"${">> \o end.name ELSE end.out

\* The settings the first n lines give: the first that names a name counts.
Given ==
    LET given[n \in 0..Len(lines)] ==
            IF n = 0 THEN Nothing
            ELSE LET known == given[n - 1]
                     line == lines[n]
                 IN  IF line.value = <<>> \/ line.name \in DOMAIN known THEN known
                     ELSE [x \in DOMAIN known \cup {line.name} |->
                              IF x = line.name THEN Replaced(line.value[1], known) ELSE known[x]]
    IN  given[Len(lines)]

\* A text gives the settings its lines say, however long they are, in any number of
\* loads, and with nothing of an older text (Properties.cpp:21-160).
PropertiesRead == pc = "idle" => settings = Given
=============================================================================
