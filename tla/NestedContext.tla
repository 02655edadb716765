---------------------------- MODULE NestedContext ----------------------------
(***************************************************************************)
(* The NDC of git/log4cpp: a stack of contexts for each thread, and the    *)
(* text of it that a record carries.                                       *)
(*                                                                         *)
(* An entry of a stack keeps its message and the text of the whole stack   *)
(* up to it, a sequence of messages.  The stacks are thread local; what    *)
(* threads share is the flag that says whether any has ever pushed, and    *)
(* the copies that one makes for another to inherit.                       *)
(***************************************************************************)
EXTENDS Sequences, SequencesExt, Naturals

CONSTANTS
    Thread,
    Message,
    PopsEmpty,      \* pop is also called when there is no context
    MaxDepth        \* bound: contexts on a stack, and copies that are kept

VARIABLES
    isUsedNDC,
    stack,          \* _stack of each thread
    clone,          \* copies made by cloneStack, none of which is ever deleted
    broken,         \* back and pop_back were called on an empty vector
    entered,        \* ghost: messages each thread has entered and not left
    lent            \* ghost: of each copy, the messages of the thread that made it

vars == <<isUsedNDC, stack, clone, broken, entered, lent>>

Init ==
    /\ isUsedNDC = FALSE
    /\ stack = [t \in Thread |-> <<>>]
    /\ clone = <<>>
    /\ broken = FALSE
    /\ entered = [t \in Thread |-> <<>>]
    /\ lent = <<>>

-----------------------------------------------------------------------------
(* A slip a programmer could make.  No behaviour of Spec takes it: it stands *)
(* for the action below in a variant of this module in which ContextsOwn    *)
(* must fail.                                                               *)

\* An inherited stack is pushed upon the own one, with its texts as they are.
InheritUpon(t) ==
    /\ \E k \in DOMAIN clone :
          /\ stack' = [stack EXCEPT ![t] = @ \o clone[k]]
          /\ entered' = [entered EXCEPT ![t] = lent[k]]
    /\ UNCHANGED <<isUsedNDC, clone, broken, lent>>

-----------------------------------------------------------------------------
\* The text in front of the next message.
FullMessage(s) == IF s = <<>> THEN <<>> ELSE Last(s).fullMessage

\* get.
Get(t) == IF isUsedNDC THEN FullMessage(stack[t]) ELSE <<>>

Push(t, m) ==
    /\ Len(stack[t]) < MaxDepth
    /\ isUsedNDC' = TRUE
    /\ stack' = [stack EXCEPT ![t] =
                    Append(@, [message |-> m, fullMessage |-> FullMessage(@) \o <<m>>])]
    /\ entered' = [entered EXCEPT ![t] = Append(@, m)]
    /\ UNCHANGED <<clone, broken, lent>>

\* back and pop_back, without a look at whether there is anything.
Pop(t) ==
    /\ ~broken
    /\ IF stack[t] # <<>>
       THEN /\ stack' = [stack EXCEPT ![t] = Front(@)]
            /\ entered' = [entered EXCEPT ![t] = Front(@)]
            /\ UNCHANGED broken
       ELSE PopsEmpty /\ broken' = TRUE /\ UNCHANGED <<stack, entered>>
    /\ UNCHANGED <<isUsedNDC, clone, lent>>

\* clear, and the end of a thread, whose number may be given to another.
Clear(t) ==
    /\ stack' = [stack EXCEPT ![t] = <<>>]
    /\ entered' = [entered EXCEPT ![t] = <<>>]
    /\ UNCHANGED <<isUsedNDC, clone, broken, lent>>

CloneStack(t) ==
    /\ Len(clone) < MaxDepth
    /\ clone' = Append(clone, stack[t])
    /\ lent' = Append(lent, entered[t])
    /\ UNCHANGED <<isUsedNDC, stack, broken, entered>>

\* inherit replaces the stack; any thread may be given any copy, more than once.
Inherit(t) ==
    /\ \E k \in DOMAIN clone :
          /\ stack' = [stack EXCEPT ![t] = clone[k]]
          /\ entered' = [entered EXCEPT ![t] = lent[k]]
    /\ UNCHANGED <<isUsedNDC, clone, broken, lent>>

Next ==
    \E t \in Thread :
        \/ \E m \in Message : Push(t, m)
        \/ Pop(t) \/ Clear(t) \/ CloneStack(t) \/ Inherit(t)

Spec == Init /\ [][Next]_vars

-----------------------------------------------------------------------------
(* Properties.                                                             *)

\* What a record of a thread is stamped with are the contexts that the thread, or
\* the one it has inherited them from, has entered and not left, whatever other
\* threads do; and pop gives back the innermost (NDC.cpp:34-122).
ContextsOwn ==
    \A t \in Thread :
        /\ Get(t) = entered[t]
        /\ Len(stack[t]) = Len(entered[t])
        /\ \A k \in DOMAIN entered[t] : stack[t][k].message = entered[t][k]

\* The comment on pop (NDC.hh:132-133): "If no context is available, then the empty
\* string "" is returned."
PopsNothing == ~broken
=============================================================================
