----------------------------- MODULE MailSender -----------------------------
(***************************************************************************)
(* The SmptAppender of git/log4cpp and the thread that sends its mails,    *)
(* with the part of HierarchyMaintainer that ends it.                      *)
(*                                                                         *)
(* The first event makes the sender, which starts a thread and registers a *)
(* handler for shutdown.  Events are put into a list under a mutex; the    *)
(* thread takes the front under it, talks to the mail host without it, and *)
(* erases the mail under it again.  A step is a critical section, or what  *)
(* is between two of them.  The host answers or breaks off the talk: there *)
(* is no time-out, and none in the model.                                  *)
(***************************************************************************)
EXTENDS Integers, Sequences

CONSTANTS
    Caller,         \* threads that log to appenders of this kind
    Spurious,       \* condition variables wake up without a cause
    Shutdowns,      \* calls of HierarchyMaintainer::shutdown, one by its destructor
    MaxMail         \* bound: events

ASSUME MailAssumption ==
    Spurious \in BOOLEAN /\ Shutdowns \in Nat /\ MaxMail \in Nat

NoMail == 0

VARIABLES
    attached,       \* the appenders are still in their categories
    caller,         \* of each caller: "idle", "send"
    instance,       \* sender::instance_: "none", "live" or "deleted"
    mails,          \* mails_, each the number of its event
    should_exit,
    thread,         \* "off", "test", "look", "wait", "told", "woken", "send", "erase", "ended"
    mail,           \* what i points to, NoMail at the end of the list
    down,           \* shutdown: "off", "handlers", "join", "broken"
    calls,          \* ghost: calls of shutdown
    count,          \* ghost: events
    sent, failed    \* ghosts: mails the host took, mails given up

senderVars == <<instance, mails, should_exit>>
threadVars == <<thread, mail, sent, failed>>
vars == <<attached, caller, senderVars, threadVars, down, calls, count>>

Init ==
    /\ attached = TRUE
    /\ caller = [c \in Caller |-> "idle"]
    /\ instance = "none" /\ mails = <<>> /\ should_exit = FALSE
    /\ thread = "off" /\ mail = NoMail
    /\ down = "off" /\ calls = 0 /\ count = 0
    /\ sent = <<>> /\ failed = {}

\* data_condition_.notify_all.
Notified == IF thread = "wait" THEN "told" ELSE thread

-----------------------------------------------------------------------------
(* Slips a programmer could make.  No behaviour of Spec takes one: each     *)
(* stands for an action below in a variant of this module in which the      *)
(* property named with it must fail.                                        *)

\* A mail is listed without telling the thread (MailEnds).
SendSilent(c) ==
    /\ caller[c] = "send"
    /\ caller' = [caller EXCEPT ![c] = "idle"]
    /\ count' = count + 1
    /\ mails' = Append(mails, count')
    /\ UNCHANGED <<attached, instance, should_exit, threadVars, down, calls>>

\* The back is erased in the place of the mail that was sent (MailsSent).
EraseBack ==
    /\ thread = "erase"
    /\ mails' = SubSeq(mails, 1, Len(mails) - 1)
    /\ thread' = "test"
    /\ UNCHANGED <<attached, caller, instance, should_exit, mail, sent, failed, down, calls, count>>

\* The sender is deleted before its thread has ended (MailsSent).
JoinSkipped ==
    /\ down = "join"
    /\ instance' = "deleted"
    /\ down' = "off"
    /\ UNCHANGED <<attached, caller, mails, should_exit, threadVars, calls, count>>

-----------------------------------------------------------------------------
(* SmptAppender::_append.  The caller holds the mutex of a category.        *)

\* sender::instance with its call_once.
Instance(c) ==
    /\ attached /\ caller[c] = "idle" /\ count < MaxMail
    /\ caller' = [caller EXCEPT ![c] = "send"]
    /\ IF instance = "none"
       THEN instance' = "live" /\ thread' = "test"
       ELSE UNCHANGED <<instance, thread>>
    /\ UNCHANGED <<attached, mails, should_exit, mail, sent, failed, down, calls, count>>

\* sender::send.
Send(c) ==
    /\ caller[c] = "send"
    /\ caller' = [caller EXCEPT ![c] = "idle"]
    /\ count' = count + 1
    /\ mails' = Append(mails, count')
    /\ thread' = Notified
    /\ UNCHANGED <<attached, instance, should_exit, mail, sent, failed, down, calls>>

-----------------------------------------------------------------------------
(* sender::operator().                                                      *)

\* while(!should_exit_), without the mutex.
TestExit ==
    /\ thread = "test"
    /\ thread' = IF should_exit THEN "ended" ELSE "look"
    /\ UNCHANGED <<attached, caller, senderVars, mail, sent, failed, down, calls, count>>

Begin == IF mails = <<>> THEN NoMail ELSE Head(mails)

Look ==
    /\ thread = "look"
    /\ mail' = Begin
    /\ thread' = IF mails # <<>> THEN "send" ELSE IF should_exit THEN "ended" ELSE "wait"
    /\ UNCHANGED <<attached, caller, senderVars, sent, failed, down, calls, count>>

Wakeup ==
    /\ thread = "told" \/ (Spurious /\ thread = "wait")
    /\ thread' = "woken"
    /\ UNCHANGED <<attached, caller, senderVars, mail, sent, failed, down, calls, count>>

\* After wait, an empty list is not looked for again.
Woken ==
    /\ thread = "woken"
    /\ mail' = Begin
    /\ thread' = IF mails = <<>> /\ should_exit THEN "ended" ELSE "send"
    /\ UNCHANGED <<attached, caller, senderVars, sent, failed, down, calls, count>>

\* An exception anywhere in the talk ends it: the host may have the mail or not.
Talk ==
    /\ thread = "send" /\ mail # NoMail
    /\ \/ sent' = Append(sent, mail) /\ UNCHANGED failed
       \/ failed' = failed \cup {mail} /\ UNCHANGED sent
    /\ thread' = "erase"
    /\ UNCHANGED <<attached, caller, senderVars, mail, down, calls, count>>

\* mails_.erase(i).
Without(m) ==
    LET i == CHOOSE n \in DOMAIN mails : mails[n] = m
    IN  SubSeq(mails, 1, i - 1) \o SubSeq(mails, i + 1, Len(mails))

Erase ==
    /\ thread = "erase"
    /\ mails' = Without(mail)
    /\ thread' = "test"
    /\ UNCHANGED <<attached, caller, instance, should_exit, mail, sent, failed, down, calls, count>>

Sends == TestExit \/ Look \/ Wakeup \/ Woken \/ Talk \/ Erase

-----------------------------------------------------------------------------
(* HierarchyMaintainer::shutdown.                                           *)

\* removeAllAppenders takes the mutex of each category, and so waits for the
\* events on their way.
Shutdown ==
    /\ down = "off" /\ calls < Shutdowns
    /\ \A c \in Caller : caller[c] = "idle"
    /\ attached' = FALSE
    /\ calls' = calls + 1
    /\ down' = "handlers"
    /\ UNCHANGED <<caller, senderVars, threadVars, count>>

NoHandler ==
    /\ down = "handlers" /\ instance = "none"
    /\ down' = "off"
    /\ UNCHANGED <<attached, caller, senderVars, threadVars, calls, count>>

\* sender_shutdown; instance_ still points to the sender a call has deleted.
Handler ==
    /\ down = "handlers" /\ instance # "none"
    /\ IF instance = "live"
       THEN should_exit' = TRUE /\ thread' = Notified /\ down' = "join"
       ELSE down' = "broken" /\ UNCHANGED <<should_exit, thread>>
    /\ UNCHANGED <<attached, caller, instance, mails, mail, sent, failed, calls, count>>

Join ==
    /\ down = "join" /\ thread = "ended"
    /\ instance' = "deleted"
    /\ down' = "off"
    /\ UNCHANGED <<attached, caller, mails, should_exit, threadVars, calls, count>>

-----------------------------------------------------------------------------
Next ==
    \/ \E c \in Caller : Instance(c) \/ Send(c)
    \/ Sends
    \/ Shutdown \/ NoHandler \/ Handler \/ Join

Spec == Init /\ [][Next]_vars

-----------------------------------------------------------------------------
(* Properties.                                                             *)

Listed == {mails[k] : k \in DOMAIN mails}
Taken  == {sent[k] : k \in DOMAIN sent} \cup failed

\* A mail is sent or given up once, in the order of the events, and none is
\* passed over; the thread has a mail when it talks to the host and a sender
\* as long as it runs; no handler is called for a sender that is gone
\* (SmtpAppender.cpp:81-149, HierarchyMaintainer.cpp:97-114).
MailsSent ==
    /\ \A k, l \in DOMAIN sent : k < l => sent[k] < sent[l]
    /\ \A k \in DOMAIN sent : sent[k] \notin failed
    /\ \E n \in 0..count : Taken = 1..n
    /\ 1..count = Taken \cup Listed
    /\ thread = "send" => mail # NoMail
    /\ instance = "deleted" => thread = "ended"
    /\ down # "broken"

\* A mail that is listed is sent or given up, unless the sender is told to exit,
\* and shutdown returns (SmtpAppender.cpp:81-149).
MailEnds ==
    /\ \A m \in 1..MaxMail : m \in Listed ~> m \in Taken \/ should_exit
    /\ down # "off" ~> down = "off"

\* What was listed before shutdown is still sent (SmtpAppender.cpp:101, :106).
Drained == thread = "ended" => mails = <<>>
=============================================================================
