----------------------------- MODULE PatternText -----------------------------
(***************************************************************************)
(* The PatternLayout of git/log4cpp: how a conversion pattern becomes a    *)
(* vector of components, and what the components make of an event.         *)
(*                                                                         *)
(* A pattern is a sequence of items: a literal character, a conversion     *)
(* with the widths it was given, or a % with nothing that can be read      *)
(* behind it.  A text is a sequence of characters.  setConversionPattern   *)
(* reads an item in each step; it clears the components at the start and   *)
(* may throw at any item.  m stands for every conversion that prints a     *)
(* field of the event as it is; c cuts the name of the category.           *)
(***************************************************************************)
EXTENDS Integers, Sequences, SequencesExt, FiniteSets

CONSTANTS
    Pattern,        \* patterns given to setConversionPattern
    Event,          \* events, each a message and the name of a category
    SizeModulus     \* 2^w for the w bits of size_t

\* Widths that are not given are <<>>, and so is a postfix in braces.
Literal(c) == [kind |-> "literal", char |-> c, min |-> <<>>, max |-> <<>>, postfix |-> <<>>]
Conversion(c, min, max, postfix) ==
    [kind |-> "conversion", char |-> c, min |-> min, max |-> max, postfix |-> postfix]
Unterminated == [Literal("%") EXCEPT !.kind = "unterminated"]

VARIABLES
    conversionPattern,      \* _conversionPattern
    components,             \* _components
    pc,                     \* "idle", "parse"
    pattern,                \* the pattern of the last call
    k,                      \* its item that is read next
    literal,                \* characters not yet in a component
    minWidth, maxWidth,
    result                  \* of the last call: "none", "good", "thrown"

call == <<pattern, k, literal, minWidth, maxWidth>>
vars == <<conversionPattern, components, pc, call, result>>

Init ==
    /\ conversionPattern = <<>> /\ components = <<>>
    /\ pc = "idle" /\ pattern = <<>> /\ k = 1
    /\ literal = <<>> /\ minWidth = 0 /\ maxWidth = 0
    /\ result = "none"

Abs(n) == IF n < 0 THEN -n ELSE n
Text(what) == [what |-> "literal", text |-> what, min |-> 0, max |-> 0, left |-> FALSE, precision |-> -1]

-----------------------------------------------------------------------------
(* Slips a programmer could make.  No behaviour of Spec takes one: each     *)
(* stands for a definition below in a variant of this module in which       *)
(* Formatted must fail.                                                     *)

\* The old components are kept until the new pattern is read.
SetPatternKeeps ==
    /\ pc = "idle"
    /\ pattern' \in Pattern
    /\ k' = 1 /\ literal' = <<>> /\ minWidth' = 0 /\ maxWidth' = 0
    /\ conversionPattern' = <<>>
    /\ pc' = "parse"
    /\ UNCHANGED <<components, result>>

\* What is too long is cut before it is known to be.
ModifiedAlwaysCuts(text, c) ==
    LET cut == SubSeq(text, 1, c.max)
        fill == [i \in 1..(c.min - Len(cut)) |-> " "]
    IN  IF c.left THEN cut \o fill ELSE fill \o cut

\* The search goes on at the dot that was found.
FromDot(begin) == (begin - 1) % SizeModulus

-----------------------------------------------------------------------------
(* Components.                                                              *)

NPos == SizeModulus - 1

\* The place rfind starts at, for the place behind the dot found last.
From(begin) == (begin - 2) % SizeModulus

\* string::rfind of a dot; places are counted from 0.
RFind(name, from) ==
    LET found == {i \in 0..(Len(name) - 1) : i <= from /\ name[i + 1] = "."}
    IN  IF found = {} THEN NPos ELSE CHOOSE i \in found : \A j \in found : j <= i

\* CategoryNameComponent::append: begin after a number of turns; 0 ends the loop.
CategoryName(name, precision) ==
    LET begin[n \in 0..precision] ==
            IF n = 0 THEN NPos
            ELSE IF begin[n - 1] = 0 THEN 0
            ELSE LET dot == RFind(name, From(begin[n - 1]))
                 IN  IF dot = NPos THEN 0 ELSE dot + 1
    IN  IF precision = -1 \/ begin[precision] = NPos THEN name
        ELSE SubSeq(name, begin[precision] + 1, Len(name))

\* FormatModifierComponent::append.
Modified(text, c) ==
    LET cut == IF c.max > 0 /\ c.max < Len(text) THEN SubSeq(text, 1, c.max) ELSE text
        fill == [i \in 1..(c.min - Len(cut)) |-> " "]
    IN  IF c.left THEN cut \o fill ELSE fill \o cut

ComponentText(c, e) ==
    Modified(CASE c.what = "literal" -> c.text
               [] c.what = "m" -> e.message
               [] c.what = "c" -> CategoryName(e.category, c.precision), c)

\* PatternLayout::format.
Format(e) == FlattenSeq([i \in DOMAIN components |-> ComponentText(components[i], e)])

-----------------------------------------------------------------------------
(* setConversionPattern.                                                    *)

SetPattern ==
    /\ pc = "idle"
    /\ pattern' \in Pattern
    /\ k' = 1 /\ literal' = <<>> /\ minWidth' = 0 /\ maxWidth' = 0
    /\ components' = <<>> /\ conversionPattern' = <<>>
    /\ pc' = "parse"
    /\ UNCHANGED result

Item == pattern[k]
Reading == pc = "parse" /\ k <= Len(pattern)

\* A width that is not given keeps what an item before has left.
Width(given, old) == IF given = <<>> THEN old ELSE given[1]

ReadLiteral ==
    /\ Reading /\ Item.kind = "literal"
    /\ literal' = Append(literal, Item.char)
    /\ k' = k + 1
    /\ UNCHANGED <<conversionPattern, components, pc, pattern, minWidth, maxWidth, result>>

\* %% and %n are literals too, and leave the widths they were given.
ReadSign ==
    /\ Reading /\ Item.kind = "conversion" /\ Item.char \in {"%", "n"}
    /\ literal' = Append(literal, Item.char)
    /\ minWidth' = Width(Item.min, minWidth)
    /\ maxWidth' = Width(Item.max, maxWidth)
    /\ k' = k + 1
    /\ UNCHANGED <<conversionPattern, components, pc, pattern, result>>

ReadComponent ==
    /\ Reading /\ Item.kind = "conversion" /\ Item.char \in {"m", "c"}
    /\ LET min == Width(Item.min, minWidth)
           component == [what |-> Item.char, text |-> <<>>,
                         min |-> Abs(min), max |-> Width(Item.max, maxWidth), left |-> min < 0,
                         precision |-> Width(Item.postfix, -1)]
       IN  components' = components
                         \o (IF literal = <<>> THEN <<>> ELSE <<Text(literal)>>) \o <<component>>
    /\ literal' = <<>> /\ minWidth' = 0 /\ maxWidth' = 0
    /\ k' = k + 1
    /\ UNCHANGED <<conversionPattern, pc, pattern, result>>

Known == {"%", "n", "m", "c"}

\* ConfigureFailure: unterminated, or unknown.
Throw ==
    /\ Reading
    /\ Item.kind = "unterminated" \/ (Item.kind = "conversion" /\ Item.char \notin Known)
    /\ pc' = "idle" /\ result' = "thrown"
    /\ UNCHANGED <<conversionPattern, components, call>>

Finish ==
    /\ pc = "parse" /\ k > Len(pattern)
    /\ components' = components \o (IF literal = <<>> THEN <<>> ELSE <<Text(literal)>>)
    /\ conversionPattern' = pattern
    /\ pc' = "idle" /\ result' = "good"
    /\ UNCHANGED call

Next == SetPattern \/ ReadLiteral \/ ReadSign \/ ReadComponent \/ Throw \/ Finish

Spec == Init /\ [][Next]_vars

-----------------------------------------------------------------------------
(* Properties.                                                             *)

\* What a pattern means, item by item.

\* The part of a name behind the n-th dot from its end.
LastParts(name, n) ==
    LET dots == {i \in DOMAIN name : name[i] = "."}
    IN  IF n = 0 \/ Cardinality(dots) < n THEN name
        ELSE SubSeq(name, 1 + (CHOOSE d \in dots : Cardinality({i \in dots : i >= d}) = n), Len(name))

\* The first max characters, or all, in a field of at least min.
InField(text, min, max) ==
    LET length == IF max \in 1..Len(text) THEN max ELSE Len(text)
        size   == IF Abs(min) > length THEN Abs(min) ELSE length
        start  == IF min < 0 THEN 0 ELSE size - length
    IN  [i \in 1..size |-> IF i - start \in 1..length THEN text[i - start] ELSE " "]

Meaning(item, e) ==
    LET text == CASE item.char = "m" /\ item.kind = "conversion" -> e.message
                  [] item.char = "c" /\ item.kind = "conversion" ->
                         IF item.postfix = <<>> THEN e.category
                         ELSE LastParts(e.category, item.postfix[1])
                  [] OTHER -> <<item.char>>
    IN  IF item.kind = "literal" \/ item.char \in {"%", "n"} THEN text
        ELSE InField(text, Width(item.min, 0), Width(item.max, 0))

MeaningOf(p, e) == FlattenSeq([i \in DOMAIN p |-> Meaning(p[i], e)])

\* A sign that stands for itself has no use for widths.
Plain(p) ==
    \A i \in DOMAIN p : p[i].char \in {"%", "n"} => p[i].min = <<>> /\ p[i].max = <<>>

\* A layout makes of an event what its pattern says; after a call that threw, what
\* the pattern says up to a component before the fault, and nothing of an older
\* pattern (PatternLayout.cpp:78-96, :228-245, :279-406).
Formatted ==
    pc = "idle" /\ Plain(pattern) => \A e \in Event :
        /\ result = "good" => Format(e) = MeaningOf(pattern, e) /\ conversionPattern = pattern
        /\ result = "thrown" =>
              IsPrefix(Format(e), MeaningOf(SubSeq(pattern, 1, k - 1), e)) /\ conversionPattern = <<>>

\* Also a sign with a width stands for itself, and leaves the next item alone.
SignsHarmless ==
    pc = "idle" /\ result = "good" => \A e \in Event : Format(e) = MeaningOf(pattern, e)
=============================================================================
