--------------------------- MODULE LogSetupProofs ---------------------------
(***************************************************************************)
(* Proofs about five of the parts of MCLogSetup.                           *)
(*                                                                         *)
(* The mails: which of them the thread takes, in which order, and what is  *)
(* alive when it does, for any number of callers and events.  They are     *)
(* about condition variables that wake up only when notified, and about    *)
(* one call of HierarchyMaintainer::shutdown (OneShutdown): without the    *)
(* first the thread looks at the end of the list, without the second the   *)
(* handler is called for a sender that was deleted.                        *)
(*                                                                         *)
(* The configurator, and share_bike on top of it: what the categories have *)
(* after calls of configure with any files of which none names an appender *)
(* of another (OwnNames).  An appender that an earlier call has made is    *)
(* still in the map after a shutdown has deleted it; a file that names it  *)
(* would attach it.                                                        *)
(*                                                                         *)
(* The buffer: an event at the trigger brings all that led to it, when the *)
(* sink takes every priority (SinkTakesAll).                               *)
(*                                                                         *)
(* The contexts of threads, and the packets of a syslog record, without a  *)
(* hypothesis.                                                             *)
(***************************************************************************)
EXTENDS MCLogSetup, SequenceTheorems, WellFoundedInduction, TLAPS

Waiting == {"wait", "told", "woken"}
Running == {"test", "look", "send", "erase"} \cup Waiting

MailTyped ==
    /\ attached \in BOOLEAN
    /\ caller \in [Caller -> {"idle", "send"}]
    /\ instance \in {"none", "live", "deleted"}
    /\ mails \in Seq(Nat) /\ should_exit \in BOOLEAN
    /\ thread \in Running \cup {"off", "ended"}
    /\ mail \in Nat
    /\ down \in {"off", "handlers", "join"}
    /\ calls \in 0..1 /\ count \in Nat
    /\ sent \in Seq(Nat) /\ failed \in SUBSET Nat

\* The mails that have left: all but those listed, and the one whose talk is
\* over before it is erased.
Left == IF thread = "erase" THEN count - Len(mails) + 1 ELSE count - Len(mails)

\* The list holds the last events, the others have left in order.
ListSound ==
    /\ Len(mails) <= count
    /\ \A i \in 1..Len(mails) : mails[i] = count - Len(mails) + i
    /\ thread \in {"send", "erase"} => mails # <<>> /\ mail = mails[1]
    /\ thread \in {"told", "woken"} => mails # <<>> \/ should_exit
TakenSound ==
    /\ \A m \in 1..Left : (\E i \in 1..Len(sent) : sent[i] = m) \/ m \in failed
    /\ \A i \in 1..Len(sent) : sent[i] \in 1..Left /\ sent[i] \notin failed
    /\ failed \subseteq 1..Left
    /\ \A i, h \in 1..Len(sent) : i < h => sent[i] < sent[h]

\* The life of the sender.
LifeSound ==
    /\ instance = "none" <=> thread = "off"
    /\ instance = "none" => \A c \in Caller : caller[c] = "idle"
    /\ attached <=> calls = 0
    /\ down # "off" => ~attached /\ instance # "deleted"
    /\ ~attached => \A c \in Caller : caller[c] = "idle"
    /\ instance = "deleted" => ~attached /\ thread = "ended"

MailInv == MailTyped /\ ListSound /\ TakenSound /\ LifeSound

\* Condition variables that wake up only when notified, and one shutdown.
OneShutdown == ~Spurious /\ Shutdowns <= 1

-----------------------------------------------------------------------------
\* Appending an event, and erasing the front.
LEMMA PushFacts ==
  ASSUME MailTyped
  PROVE  LET s == Append(mails, count + 1)
         IN  /\ s \in Seq(Nat) /\ s # <<>> /\ Len(s) = Len(mails) + 1
             /\ \A i \in 1..Len(mails) : s[i] = mails[i]
             /\ s[Len(mails) + 1] = count + 1
<1>1. count + 1 \in Nat /\ mails \in Seq(Nat)
  BY DEF MailTyped
<1> QED BY <1>1, AppendProperties, SMTT(60)

\* Erasing the mail the thread has talked about erases the front.
LEMMA EraseFacts ==
  ASSUME MailTyped, ListSound, mails # <<>>
  PROVE  /\ Without(mails[1]) \in Seq(Nat)
         /\ Len(Without(mails[1])) = Len(mails) - 1
         /\ \A i \in 1..(Len(mails) - 1) : Without(mails[1])[i] = mails[i + 1]
<1>1. mails \in Seq(Nat) /\ Len(mails) \in Nat \ {0} /\ DOMAIN mails = 1..Len(mails)
  BY EmptySeq, LenProperties DEF MailTyped
<1>2. \A i \in 1..Len(mails) : mails[i] \in Nat /\ (mails[i] = mails[1] => i = 1)
  BY <1>1, ElementOfSeq DEF ListSound, MailTyped
<1> DEFINE i == CHOOSE n \in DOMAIN mails : mails[n] = mails[1]
<1>3. i = 1
  BY <1>1, <1>2
<1>4. Without(mails[1]) = SubSeq(mails, 1, 0) \o SubSeq(mails, 2, Len(mails))
  <2>1. Without(mails[1]) = SubSeq(mails, 1, i - 1) \o SubSeq(mails, i + 1, Len(mails))
    BY DEF Without
  <2> HIDE DEF i
  <2>2. i - 1 = 0 /\ i + 1 = 2
    BY <1>3
  <2> QED BY <2>1, <2>2
<1>5. SubSeq(mails, 1, 0) = <<>>
  BY SubSeqEmpty
<1>6. /\ SubSeq(mails, 2, Len(mails)) \in Seq(Nat)
      /\ Len(SubSeq(mails, 2, Len(mails))) = Len(mails) - 1
      /\ \A h \in 1..(Len(mails) - 1) : SubSeq(mails, 2, Len(mails))[h] = mails[h + 1]
  BY <1>1, <1>2, SubSeqProperties
<1>7. Without(mails[1]) = SubSeq(mails, 2, Len(mails))
  BY <1>4, <1>5, <1>6, ConcatEmptySeq
<1> QED BY <1>6, <1>7

\* A step that leaves the list, the thread's mail and what was taken.
LEMMA QuietKeeps ==
  ASSUME MailInv, UNCHANGED <<mails, mail, sent, failed, count>>,
         (thread = "erase") = (thread' = "erase"),
         thread' = "send" => thread = "send",
         should_exit => should_exit',
         thread' \in {"told", "woken"} => mails # <<>> \/ should_exit'
  PROVE  ListSound' /\ TakenSound'
<1>1. Left' = Left
  BY DEF Left
<1> QED BY <1>1 DEF MailInv, ListSound, TakenSound

\* The invariant in the initial state.
LEMMA InitMailInv == Init => MailInv
<1> SUFFICES ASSUME Init PROVE MailInv
  OBVIOUS
<1>1. Len(<<>>) = 0 /\ <<>> \in Seq(Nat)
  BY EmptySeq
<1>2. MailTyped
  <2>1. mails \in Seq(Nat) /\ sent \in Seq(Nat)
    BY <1>1 DEF Init
  <2>2. caller \in [Caller -> {"idle", "send"}]
    BY DEF Init
  <2>3. mail \in Nat /\ calls \in 0..1 /\ count \in Nat /\ failed \in SUBSET Nat
    BY DEF Init, NoMail
  <2> QED BY <2>1, <2>2, <2>3, ZenonT(60) DEF Init, MailTyped
<1>3. Left = 0 /\ 1..0 = {}
  <2>1. Len(mails) = 0 /\ count = 0 /\ thread # "erase"
    BY <1>1 DEF Init
  <2> QED BY <2>1 DEF Left
<1>4. ListSound /\ TakenSound
  BY <1>1, <1>3 DEF Init, ListSound, TakenSound
<1>5. LifeSound
  BY DEF Init, LifeSound
<1> QED BY <1>2, <1>4, <1>5 DEF MailInv

\* SmptAppender::_append keeps the invariant.
LEMMA CallerKeeps ==
  ASSUME MailInv, NEW c \in Caller, Instance(c) \/ Send(c)
  PROVE  MailInv'
<1>a. MailTyped /\ ListSound /\ TakenSound /\ LifeSound
  BY DEF MailInv
<1>1. CASE Instance(c)
  <2>1. instance # "deleted" /\ attached
    BY <1>1, <1>a DEF Instance, LifeSound
  <2>2. MailTyped'
    BY <1>1, <1>a DEF Instance, MailTyped, Running
  <2>3. ListSound' /\ TakenSound'
    BY <1>1, <1>a, QuietKeeps DEF Instance, LifeSound, ListSound
  <2>4. LifeSound'
    BY <1>1, <1>a, <2>1 DEF Instance, LifeSound, MailTyped
  <2> QED BY <2>2, <2>3, <2>4 DEF MailInv
<1>2. CASE Send(c)
  <2>1. /\ mails' = Append(mails, count + 1) /\ count' = count + 1
        /\ thread' = IF thread = "wait" THEN "told" ELSE thread
        /\ UNCHANGED <<attached, instance, should_exit, mail, sent, failed, down, calls>>
        /\ caller' = [caller EXCEPT ![c] = "idle"] /\ caller[c] = "send"
    BY <1>2 DEF Send, Notified
  <2>2. /\ mails' \in Seq(Nat) /\ mails' # <<>> /\ Len(mails') = Len(mails) + 1
        /\ \A i \in 1..Len(mails) : mails'[i] = mails[i]
        /\ mails'[Len(mails) + 1] = count + 1
    BY <1>a, <2>1, PushFacts
  <2>3. Len(mails) \in Nat /\ count \in Nat /\ (mails # <<>> => Len(mails) # 0)
    BY <1>a, EmptySeq, LenProperties DEF MailTyped
  <2>4. MailTyped'
    BY <1>a, <2>1, <2>2 DEF MailTyped, Running, Waiting
  <2>5. ListSound'
    <3>1. ASSUME NEW i \in 1..Len(mails') PROVE mails'[i] = count' - Len(mails') + i
      <4>1. CASE i \in 1..Len(mails)
        BY <1>a, <2>1, <2>2, <2>3, <4>1 DEF ListSound
      <4>2. CASE i = Len(mails) + 1
        BY <2>1, <2>2, <2>3, <4>2
      <4> QED BY <2>2, <2>3, <4>1, <4>2
    <3>2. thread' \in {"send", "erase"} => mail' = mails'[1]
      BY <1>a, <2>1, <2>2, <2>3 DEF ListSound
    <3>3. Len(mails') <= count'
      BY <1>a, <2>1, <2>2, <2>3 DEF ListSound
    <3> QED BY <2>2, <3>1, <3>2, <3>3 DEF ListSound
  <2>6. TakenSound'
    <3>1. Left' = Left
      BY <2>1, <2>2, <2>3 DEF Left
    <3> QED BY <1>a, <2>1, <3>1 DEF TakenSound
  <2>7. LifeSound'
    BY <1>a, <2>1 DEF LifeSound, MailTyped
  <2> QED BY <2>4, <2>5, <2>6, <2>7 DEF MailInv
<1> QED BY <1>1, <1>2

\* The thread keeps it.
LEMMA SenderKeeps ==
  ASSUME MailInv, OneShutdown, Sends
  PROVE  MailInv'
<1>a. MailTyped /\ ListSound /\ TakenSound /\ LifeSound
  BY DEF MailInv
<1>b. /\ mails \in Seq(Nat) /\ Len(mails) \in Nat /\ count \in Nat /\ mail \in Nat
      /\ mails # <<>> => /\ Len(mails) # 0 /\ Head(mails) = mails[1]
                         /\ mails[1] \in Nat /\ mails[1] = count - Len(mails) + 1
  BY <1>a, EmptySeq, LenProperties, HeadTailProperties, ElementOfSeq DEF MailTyped, ListSound
<1>1. CASE TestExit \/ Wakeup
  <2>0. MailTyped'
    BY <1>1, <1>a, ZenonT(60) DEF TestExit, Wakeup, MailTyped, Running, Waiting, senderVars
  <2>1. LifeSound'
    BY <1>1, <1>a DEF TestExit, Wakeup, LifeSound, senderVars, OneShutdown
  <2>2. ListSound' /\ TakenSound'
    BY <1>1, <1>a, QuietKeeps DEF TestExit, Wakeup, senderVars, OneShutdown, ListSound
  <2> QED BY <2>0, <2>1, <2>2 DEF MailInv
<1>2. CASE Look \/ Woken
  <2>1. /\ UNCHANGED <<attached, caller, senderVars, sent, failed, down, calls, count>>
        /\ mail' = IF mails = <<>> THEN 0 ELSE mails[1]
        /\ thread \in {"look", "woken"} /\ thread' \in {"send", "ended", "wait"}
        /\ thread' = "send" => mails # <<>>
    BY <1>2, <1>a, <1>b DEF Look, Woken, Begin, NoMail, ListSound
  <2>2. MailTyped' /\ LifeSound'
    BY <1>a, <1>b, <2>1 DEF MailTyped, LifeSound, Running, Waiting, senderVars
  <2>3. Left' = Left
    BY <2>1 DEF Left, senderVars
  <2>4. ListSound' /\ TakenSound'
    BY <1>a, <2>1, <2>3 DEF ListSound, TakenSound, senderVars
  <2> QED BY <2>2, <2>4 DEF MailInv
<1>3. CASE Talk
  <2>1. /\ thread = "send" /\ thread' = "erase"
        /\ UNCHANGED <<attached, caller, senderVars, mail, down, calls, count>>
        /\ \/ sent' = Append(sent, mail) /\ failed' = failed
           \/ failed' = failed \cup {mail} /\ sent' = sent
    BY <1>3 DEF Talk
  <2>2. /\ mails # <<>> /\ mail = Left + 1 /\ Left' = Left + 1 /\ Left \in Nat
    <3>1. mails # <<>> /\ mail = mails[1] /\ Len(mails) <= count
      BY <1>a, <2>1 DEF ListSound
    <3>2. Left = count - Len(mails)
      BY <2>1 DEF Left
    <3>3. Left' = count - Len(mails) + 1
      BY <2>1 DEF Left, senderVars
    <3> QED BY <1>b, <3>1, <3>2, <3>3
  <2>3. /\ sent \in Seq(Nat) /\ Len(sent) \in Nat /\ DOMAIN sent = 1..Len(sent)
        /\ Append(sent, mail) \in Seq(Nat) /\ Len(Append(sent, mail)) = Len(sent) + 1
        /\ \A i \in 1..Len(sent) : Append(sent, mail)[i] = sent[i]
        /\ Append(sent, mail)[Len(sent) + 1] = mail
    BY <1>a, <1>b, LenProperties, AppendProperties DEF MailTyped
  <2>4. MailTyped' /\ LifeSound'
    BY <1>a, <1>b, <2>1, <2>3, ZenonT(60) DEF MailTyped, LifeSound, Running, Waiting, senderVars
  <2>5. ListSound'
    BY <1>a, <2>1, <2>2 DEF ListSound, senderVars
  <2>6. TakenSound'
    <3>1. CASE sent' = Append(sent, mail) /\ failed' = failed
      <4>1. ASSUME NEW m \in 1..Left'
            PROVE  (\E i \in 1..Len(sent') : sent'[i] = m) \/ m \in failed'
        <5>1. CASE m = mail
          BY <2>3, <3>1, <5>1
        <5>2. CASE m # mail
          <6>1. m \in 1..Left
            BY <2>2, <5>2
          <6> QED BY <1>a, <2>3, <3>1, <6>1 DEF TakenSound
        <5> QED BY <5>1, <5>2
      <4>2. ASSUME NEW i \in 1..Len(sent')
            PROVE  sent'[i] \in 1..Left' /\ sent'[i] \notin failed'
        <5>1. CASE i = Len(sent) + 1
          BY <1>a, <2>2, <2>3, <3>1, <5>1 DEF TakenSound
        <5>2. CASE i \in 1..Len(sent)
          BY <1>a, <2>2, <2>3, <3>1, <5>2 DEF TakenSound
        <5> QED BY <2>3, <3>1, <5>1, <5>2
      <4>3. ASSUME NEW i \in 1..Len(sent'), NEW h \in 1..Len(sent'), i < h
            PROVE  sent'[i] < sent'[h]
        <5>1. i \in 1..Len(sent)
          BY <2>3, <3>1, <4>3
        <5>2. CASE h \in 1..Len(sent)
          BY <1>a, <2>3, <3>1, <4>3, <5>1, <5>2 DEF TakenSound
        <5>3. CASE h = Len(sent) + 1
          BY <1>a, <2>2, <2>3, <3>1, <5>1, <5>3 DEF TakenSound
        <5> QED BY <2>3, <3>1, <5>2, <5>3
      <4>4. failed' \subseteq 1..Left'
        BY <1>a, <2>2, <3>1 DEF TakenSound
      <4> QED BY <4>1, <4>2, <4>3, <4>4 DEF TakenSound
    <3>2. CASE failed' = failed \cup {mail} /\ sent' = sent
      BY <1>a, <2>2, <2>3, <3>2, SMTT(60) DEF TakenSound
    <3> QED BY <2>1, <3>1, <3>2
  <2> QED BY <2>4, <2>5, <2>6 DEF MailInv
<1>4. CASE Erase
  <2>1. /\ thread = "erase" /\ thread' = "test" /\ mails # <<>>
        /\ mails' = Without(mails[1])
        /\ UNCHANGED <<attached, caller, instance, should_exit, mail, sent, failed, down,
                       calls, count>>
    BY <1>4, <1>a DEF Erase, ListSound
  <2>2. /\ mails' \in Seq(Nat) /\ Len(mails') = Len(mails) - 1
        /\ \A i \in 1..(Len(mails) - 1) : mails'[i] = mails[i + 1]
    BY <1>a, <2>1, EraseFacts
  <2>3. MailTyped' /\ LifeSound'
    BY <1>a, <2>1, <2>2 DEF MailTyped, LifeSound, Running
  <2>4. ListSound'
    BY <1>a, <1>b, <2>1, <2>2, SMTT(150) DEF ListSound
  <2>5. Left' = Left
    BY <1>b, <2>1, <2>2 DEF Left
  <2>6. TakenSound'
    BY <1>a, <2>1, <2>5 DEF TakenSound
  <2> QED BY <2>3, <2>4, <2>6 DEF MailInv
<1> QED BY <1>1, <1>2, <1>3, <1>4 DEF Sends

\* The first shutdown keeps it.
LEMMA ShutdownKeeps ==
  ASSUME MailInv, OneShutdown, Shutdown \/ NoHandler \/ Handler \/ Join
  PROVE  MailInv'
<1>a. MailTyped /\ ListSound /\ TakenSound /\ LifeSound /\ Shutdowns \in Nat
  BY MailAssumption DEF MailInv
<1>1. CASE Shutdown
  <2>1. calls = 0
    BY <1>1, <1>a DEF Shutdown, OneShutdown, MailTyped
  <2>2. MailTyped'
    <3>1. /\ attached' = FALSE /\ calls' = 1 /\ down' = "handlers"
          /\ UNCHANGED <<caller, instance, mails, should_exit, thread, mail, sent, failed, count>>
      BY <1>1, <2>1 DEF Shutdown, senderVars, threadVars
    <3>2. attached' \in BOOLEAN
      BY <3>1, Zenon
    <3>3. calls' \in 0..1 /\ down' \in {"off", "handlers", "join"}
      BY <3>1
    <3> QED BY <1>a, <3>1, <3>2, <3>3 DEF MailTyped
  <2>4. LifeSound'
    <3>1. calls' # 0 /\ ~attached' /\ instance # "deleted"
      BY <1>1, <1>a, <2>1 DEF Shutdown, LifeSound
    <3> QED BY <1>1, <1>a, <3>1 DEF Shutdown, LifeSound, senderVars, threadVars
  <2>3. ListSound' /\ TakenSound'
    BY <1>1, <1>a, QuietKeeps DEF Shutdown, ListSound, senderVars, threadVars
  <2> QED BY <2>2, <2>3, <2>4 DEF MailInv
<1>2. CASE NoHandler \/ Join
  <2>1. MailTyped'
    BY <1>2, <1>a, ZenonT(60) DEF NoHandler, Join, MailTyped, senderVars, threadVars
  <2>3. LifeSound'
    <3>1. CASE NoHandler
      BY <3>1, <1>a DEF NoHandler, LifeSound, senderVars, threadVars
    <3>2. CASE Join
      BY <3>2, <1>a DEF Join, LifeSound, threadVars
    <3> QED BY <1>2, <3>1, <3>2
  <2>2. ListSound' /\ TakenSound'
    BY <1>2, <1>a, QuietKeeps DEF NoHandler, Join, ListSound, senderVars, threadVars
  <2> QED BY <2>1, <2>2, <2>3 DEF MailInv
<1>3. CASE Handler
  <2>1. /\ instance = "live" /\ should_exit' = TRUE /\ down' = "join"
        /\ thread' = IF thread = "wait" THEN "told" ELSE thread
        /\ UNCHANGED <<attached, caller, instance, mails, mail, sent, failed, calls, count>>
        /\ down = "handlers"
    BY <1>3, <1>a DEF Handler, Notified, LifeSound, MailTyped
  <2>2. MailTyped' /\ LifeSound'
    BY <1>a, <2>1 DEF MailTyped, LifeSound, Running, Waiting
  <2>3. ListSound' /\ TakenSound'
    BY <1>a, <2>1, QuietKeeps
  <2> QED BY <2>2, <2>3 DEF MailInv
<1> QED BY <1>1, <1>2, <1>3

\* So every step does.
LEMMA NextMailInv == MailInv /\ OneShutdown /\ [Next]_vars => MailInv'
<1> SUFFICES ASSUME MailInv, OneShutdown, [Next]_vars PROVE MailInv'
  OBVIOUS
<1>1. CASE Next
  BY <1>1, CallerKeeps, SenderKeeps, ShutdownKeeps DEF Next
<1>2. CASE UNCHANGED vars
  BY <1>2, SMTT(60) DEF vars, senderVars, threadVars, MailInv, MailTyped, ListSound, TakenSound,
              LifeSound, Left
<1> QED BY <1>1, <1>2

\* The invariant of the sender.
LEMMA MailInvariance == ASSUME OneShutdown PROVE Spec => []MailInv
<1>1. MailInv /\ [Next]_vars => MailInv'
  BY NextMailInv
<1> QED BY <1>1, InitMailInv, PTL DEF Spec

\* A mail is sent or given up once, in the order of the events, and none is
\* passed over; the thread has a mail when it talks to the host, and a sender
\* as long as it runs (sender::operator() and sender::shutdown).
THEOREM MailsAreSent == ASSUME OneShutdown PROVE Spec => []MailsSent
<1>1. MailInv => MailsSent
  <2> SUFFICES ASSUME MailInv PROVE MailsSent
    OBVIOUS
  <2>a. MailTyped /\ ListSound /\ TakenSound /\ LifeSound
    BY DEF MailInv
  <2>b. /\ DOMAIN sent = 1..Len(sent) /\ DOMAIN mails = 1..Len(mails)
        /\ Len(sent) \in Nat /\ Len(mails) \in Nat /\ count \in Nat
        /\ mails # <<>> => Len(mails) # 0
    BY <2>a, LenProperties, EmptySeq DEF MailTyped
  <2>1. Left \in 0..count /\ Taken = 1..Left
    <3>1. Left \in 0..count
      BY <2>a, <2>b DEF ListSound, Left
    <3>2. Taken = 1..Left
      BY <2>a, <2>b, ZenonT(60) DEF TakenSound, Taken
    <3> QED BY <3>1, <3>2
  <2>2. 1..count = Taken \cup Listed
    <3>1. \A m \in 1..count : m \in 1..Left \/ m \in Listed
      <4> SUFFICES ASSUME NEW m \in 1..count, m \notin 1..Left PROVE m \in Listed
        OBVIOUS
      <4> DEFINE i == m - (count - Len(mails))
      <4>1. i \in 1..Len(mails) /\ m = count - Len(mails) + i
        BY <2>a, <2>b DEF Left, ListSound
      <4> QED BY <2>a, <2>b, <4>1, ZenonT(60) DEF ListSound, Listed
    <3>2. Listed \subseteq 1..count
      BY <2>a, <2>b DEF ListSound, Listed
    <3>3. 1..Left \subseteq 1..count
      BY <2>1, <2>b
    <3> QED BY <2>1, <3>1, <3>2, <3>3, ZenonT(60)
  <2>3. thread = "send" => mail # NoMail
    BY <2>a, <2>b DEF ListSound, NoMail
  <2>4. /\ \A i, l \in DOMAIN sent : i < l => sent[i] < sent[l]
        /\ \A i \in DOMAIN sent : sent[i] \notin failed
    BY <2>a, <2>b DEF TakenSound
  <2> QED BY <2>a, <2>1, <2>2, <2>3, <2>4 DEF MailsSent, LifeSound, MailTyped
<1> QED BY <1>1, MailInvariance, PTL

-----------------------------------------------------------------------------
(* The configurator.                                                       *)

HasKey(f, n) == \E i \in DOMAIN f.keys : f.keys[i].name = n

\* The appenders a file names are its own, or nobody's.
OwnNames ==
    \A f \in File : \A m \in DOMAIN f.categories :
        LET as == f.categories[m].appenders IN
        \A i \in DOMAIN as : HasKey(f, as[i]) \/ \A g \in File : ~HasKey(g, as[i])

NoFile == [keys |-> <<>>, categories |-> <<>>]

ConfigTyped ==
    /\ configPc \in {"idle", "appenders", "categories", "attach"}
    /\ file \in File \cup {NoFile}
    /\ k \in Nat \ {0} /\ j \in Nat \ {0}
    /\ DOMAIN made = AppName /\ DOMAIN registry = AppName
    /\ owned \in [CatName -> SUBSET live]
    /\ priority \in [CatName -> Nat] /\ additive \in [CatName -> BOOLEAN]

\* The entries of the configurator are from files, and those of the first
\* keys of this file are what the registry has.
KeysDone(l) ==
    \A i \in 1..l : LET n == file.keys[i].name IN made[n] = registry[n] /\ made[n] \in live

KeysSound ==
    /\ \A n \in AppName : made[n] # Share!Missing => \E f \in File : HasKey(f, n)
    /\ configPc = "appenders" => k <= Len(file.keys) + 1 /\ KeysDone(k - 1)
    /\ configPc \in {"categories", "attach"} => KeysDone(Len(file.keys))

\* What a line says of its category.
LineSet(m) ==
    LET line == file.categories[m] IN
    priority[line.category] = line.priority /\ additive[line.category] = line.additive

\* The category of a line has the first appenders of it.
LineHas(m, l) ==
    LET line == file.categories[m] IN
    owned[line.category] = {registry[line.appenders[i]] : i \in 1..l}

LineDone(m) == LineSet(m) /\ LineHas(m, Len(file.categories[m].appenders))
AllDone == \A m \in DOMAIN file.categories : LineDone(m)

Finished == configPc = "idle" /\ result = "good"

LinesSound ==
    /\ configPc \in {"categories", "attach"} =>
          /\ k <= Len(file.categories) + 1
          /\ \A m \in 1..(k - 1) : LineDone(m)
    /\ configPc = "attach" =>
          /\ k <= Len(file.categories) /\ j <= Len(file.categories[k].appenders) + 1
          /\ LineSet(k) /\ LineHas(k, j - 1)
    /\ configPc = "attach" \/ (configPc = "categories" /\ k > 1) \/ Finished =>
          file.categories # <<>> /\ file.categories[1].category = Root
    /\ Finished => /\ \A m \in DOMAIN file.categories : LineSet(m)
                   /\ AllDone \/ \A c \in CatName : owned[c] = {}

ConfigInv == ConfigTyped /\ KeysSound /\ LinesSound

-----------------------------------------------------------------------------
(* The program that calls it once.                                         *)

Silence == handle = Null /\ said = {}

MainSound ==
    /\ ~crashed
    /\ Finished => AllDone
    /\ mainPc = "main" => Silence /\ result = "none"
    /\ mainPc = "init" => Silence
    /\ mainPc \in {"load", "loaded"} => handle = Root /\ said = {} /\ Finished
    /\ mainPc = "exit" => Share!MainTells

\* A run of another part leaves the program where it starts.
SetupInv ==
    /\ ConfigInv
    /\ part = "main" => MainSound
    /\ part # "main" => mainPc = "main" /\ ~crashed
-----------------------------------------------------------------------------
\* What the assumption on files says of one.
LEMMA FileFacts ==
  ASSUME NEW f \in File \cup {NoFile}
  PROVE  /\ Len(f.keys) \in Nat /\ DOMAIN f.keys = 1..Len(f.keys)
         /\ \A i \in 1..Len(f.keys) : f.keys[i].name \in AppName
         /\ Len(f.categories) \in Nat /\ DOMAIN f.categories = 1..Len(f.categories)
         /\ f.categories # <<>> <=> Len(f.categories) # 0
         /\ \A m \in 1..Len(f.categories) :
               LET line == f.categories[m] IN
               /\ line.category \in CatName /\ line.priority \in Nat \cup {Share!Bad}
               /\ line.additive \in BOOLEAN
               /\ Len(line.appenders) \in Nat
               /\ DOMAIN line.appenders = 1..Len(line.appenders)
               /\ \A i \in 1..Len(line.appenders) : line.appenders[i] \in AppName
         /\ \A m, n \in 1..Len(f.categories) :
               f.categories[m].category = f.categories[n].category => m = n
         /\ f.keys # <<>> \/ f.categories # <<>> => f \in File
<1> DEFINE Outcome == {"good", "partial", "noType", "noLayout", "badThreshold"}
           Lines == [category : CatName, priority : Nat \cup {Share!Bad},
                     additive : BOOLEAN, appenders : Seq(AppName)]
<1>1. /\ f.keys \in Seq([name : AppName, outcome : Outcome])
      /\ f.categories \in Seq(Lines)
      /\ \A m, n \in DOMAIN f.categories :
            f.categories[m].category = f.categories[n].category => m = n
  <2>1. CASE f \in File
    BY <2>1, FilesAssumption, ZenonT(60) DEF Share!IsFile
  <2>2. CASE f = NoFile
    BY <2>2 DEF NoFile
  <2> QED BY <2>1, <2>2
<1>2. /\ Len(f.keys) \in Nat /\ DOMAIN f.keys = 1..Len(f.keys)
      /\ \A i \in 1..Len(f.keys) : f.keys[i].name \in AppName
  <2>1. /\ Len(f.keys) \in Nat /\ DOMAIN f.keys = 1..Len(f.keys)
        /\ \A i \in 1..Len(f.keys) : f.keys[i] \in [name : AppName, outcome : Outcome]
    BY <1>1, LenProperties, ElementOfSeq, ZenonT(60)
  <2> QED BY <2>1
<1>3. /\ Len(f.categories) \in Nat /\ DOMAIN f.categories = 1..Len(f.categories)
      /\ \A m \in 1..Len(f.categories) : f.categories[m] \in Lines
      /\ f.categories # <<>> <=> Len(f.categories) # 0
  BY <1>1, LenProperties, ElementOfSeq, EmptySeq, ZenonT(60)
<1>4. ASSUME NEW m \in 1..Len(f.categories)
      PROVE  LET line == f.categories[m] IN
             /\ line.category \in CatName /\ line.priority \in Nat \cup {Share!Bad}
             /\ line.additive \in BOOLEAN
             /\ Len(line.appenders) \in Nat
             /\ DOMAIN line.appenders = 1..Len(line.appenders)
             /\ \A i \in 1..Len(line.appenders) : line.appenders[i] \in AppName
  <2>1. f.categories[m] \in Lines
    BY <1>3
  <2>2. f.categories[m].appenders \in Seq(AppName)
    BY <2>1
  <2> QED BY <2>1, <2>2, LenProperties, ElementOfSeq
<1>5. f = NoFile => f.keys = <<>> /\ f.categories = <<>>
  BY DEF NoFile
<1> QED BY <1>1, <1>2, <1>3, <1>4, <1>5, ZenonT(60)

\* It holds at the start.
LEMMA InitConfigInv == Share!ConfigInit => ConfigInv
<1> SUFFICES ASSUME Share!ConfigInit PROVE ConfigInv
  OBVIOUS
<1>1. /\ configPc = "idle" /\ file = NoFile /\ k = 1 /\ j = 1 /\ result = "none"
      /\ made = [n \in AppName |-> Share!Missing] /\ registry = [n \in AppName |-> Null]
      /\ live = {} /\ owned = [c \in CatName |-> {}]
      /\ priority = [c \in CatName |-> IF c = Root THEN 600 ELSE 800]
      /\ additive = [c \in CatName |-> TRUE]
  BY DEF Share!ConfigInit, Share!NOTSET, NoFile
<1>2. priority \in [CatName -> Nat]
  BY <1>1
<1>3. additive \in [CatName -> BOOLEAN]
  BY <1>1, Zenon
<1>4. ConfigTyped
  BY <1>1, <1>2, <1>3 DEF ConfigTyped
<1>5. KeysSound /\ LinesSound
  BY <1>1 DEF KeysSound, LinesSound, Finished
<1> QED BY <1>4, <1>5 DEF ConfigInv

\* A call begins: nothing of the last file counts any more.
LEMMA StartKeeps ==
  ASSUME ConfigInv, (\E f \in File : Share!Configure(f)) \/ Share!ConfigureNoFile
  PROVE  ConfigInv'
<1>1. CASE \E f \in File : Share!Configure(f)
  <2>1. /\ configPc' = "appenders" /\ file' \in File /\ k' = 1 /\ result' = "none"
        /\ UNCHANGED <<j, made, registry, live, owned, priority, additive>>
    BY <1>1 DEF Share!Configure, Share!objects, Share!categories
  <2>2. ConfigTyped'
    BY <2>1 DEF ConfigInv, ConfigTyped
  <2>3. Len(file'.keys) \in Nat
    BY <2>1, FileFacts
  <2>4. KeysSound'
    BY <2>1, <2>3 DEF ConfigInv, KeysSound, KeysDone
  <2>5. LinesSound'
    BY <2>1 DEF LinesSound, Finished
  <2> QED BY <2>2, <2>4, <2>5 DEF ConfigInv
<1>2. CASE Share!ConfigureNoFile
  <2>1. /\ configPc = "idle" /\ result' = "thrown"
        /\ UNCHANGED <<configPc, file, k, j, made, registry, live, owned, priority, additive>>
    BY <1>2 DEF Share!ConfigureNoFile, Share!objects, Share!categories
  <2>2. ConfigTyped' /\ KeysSound' /\ LinesSound'
    BY <2>1 DEF ConfigInv, ConfigTyped, KeysSound, LinesSound, Finished
  <2> QED BY <2>2 DEF ConfigInv
<1> QED BY <1>1, <1>2

\* An entry is made for a key of the file, and the appender is the one that
\* the registry has.
LEMMA MakeKeeps == ASSUME ConfigInv, Share!Make PROVE ConfigInv'
<1> DEFINE name == file.keys[k].name
           object == <<name, configCalls>>
<1>1. /\ configPc = "appenders" /\ k <= Len(file.keys) /\ live' = live \cup {object}
      /\ registry' = [registry EXCEPT ![name] = object]
      /\ made' = [made EXCEPT ![name] = object]
      /\ k' = k + 1
      /\ UNCHANGED <<configPc, file, j, result, configCalls, owned, priority, additive>>
  BY DEF Share!Make, Share!categories
<1>2. ConfigTyped /\ KeysSound
  BY DEF ConfigInv
<1>3. /\ k \in 1..Len(file.keys) /\ k' \in Nat \ {0} /\ Len(file.keys) \in Nat
      /\ DOMAIN file.keys = 1..Len(file.keys)
      /\ \A i \in 1..Len(file.keys) : file.keys[i].name \in AppName
      /\ file \in File
  <2>1. k \in Nat \ {0} /\ file \in File \cup {NoFile}
    BY <1>2 DEF ConfigTyped
  <2>2. Len(file.keys) # 0 => file \in File
    BY <2>1 DEF NoFile
  <2> QED BY <1>1, <2>1, <2>2, FileFacts
<1>4. ConfigTyped'
  <2>1. DOMAIN made' = AppName /\ DOMAIN registry' = AppName
    BY <1>1, <1>2 DEF ConfigTyped
  <2>2. owned' \in [CatName -> SUBSET live']
    BY <1>1, <1>2 DEF ConfigTyped
  <2> QED BY <1>1, <1>2, <1>3, <2>1, <2>2 DEF ConfigTyped
<1>5. KeysSound'
  <2> HIDE DEF object
  <2>1. ASSUME NEW n \in AppName, made'[n] # Share!Missing
        PROVE  \E f \in File : HasKey(f, n)
    <3>1. CASE n = name
      BY <1>3, <3>1 DEF HasKey
    <3>2. CASE n # name
      BY <1>1, <1>2, <2>1, <3>2 DEF KeysSound, ConfigTyped
    <3> QED BY <3>1, <3>2
  <2>2. k' <= Len(file'.keys) + 1
    BY <1>1, <1>3
  <2>3. KeysDone(k - 1)'
    <3>1. k' - 1 = k
      BY <1>1, <1>3
    <3>2. ASSUME NEW i \in 1..k
          PROVE  LET n == file.keys[i].name IN made'[n] = registry'[n] /\ made'[n] \in live'
      <4>1. file.keys[i].name \in AppName
        BY <1>3
      <4>2. CASE file.keys[i].name = name
        BY <1>1, <1>2, <4>1, <4>2 DEF ConfigTyped
      <4>3. CASE file.keys[i].name # name
        <5>1. i \in 1..(k - 1)
          BY <1>3, <4>3
        <5>2. LET n == file.keys[i].name IN made[n] = registry[n] /\ made[n] \in live
          BY <1>1, <1>2, <5>1 DEF KeysSound, KeysDone
        <5> QED BY <1>1, <1>2, <4>1, <4>3, <5>2 DEF ConfigTyped
      <4> QED BY <4>2, <4>3
    <3> QED BY <1>1, <3>1, <3>2 DEF KeysDone
  <2> QED BY <1>1, <2>1, <2>2, <2>3 DEF KeysSound
<1>6. LinesSound'
  BY <1>1 DEF LinesSound, Finished
<1> QED BY <1>4, <1>5, <1>6 DEF ConfigInv

\* A key that throws ends the call.
LEMMA MakeThrowsKeeps == ASSUME ConfigInv, Share!MakeThrows PROVE ConfigInv'
<1> DEFINE name == file.keys[k].name
           object == <<name, configCalls>>
<1>1. /\ configPc = "appenders" /\ k <= Len(file.keys) /\ configPc' = "idle" /\ result' = "thrown"
      /\ UNCHANGED <<file, k, j, configCalls, owned, priority, additive>>
      /\ made' = made \/ made' = [made EXCEPT ![name] = Null]
      /\ registry' \in {registry, [registry EXCEPT ![name] = object],
                        [registry EXCEPT ![name] = Null]}
      /\ live' \in {live, live \cup {object}}
  BY DEF Share!MakeThrows, Share!Throw, Share!categories
<1>2. ConfigTyped /\ KeysSound
  BY DEF ConfigInv
<1>3. HasKey(file, name) /\ file \in File
  <2>1. k \in Nat \ {0} /\ file \in File \cup {NoFile}
    BY <1>2 DEF ConfigTyped
  <2>2. Len(file.keys) # 0 => file \in File
    BY <2>1 DEF NoFile
  <2>3. k \in DOMAIN file.keys /\ Len(file.keys) # 0
    BY <1>1, <2>1, FileFacts, SMTT(60)
  <2> QED BY <2>2, <2>3 DEF HasKey
<1>4. ConfigTyped'
  <2>1. DOMAIN made' = AppName /\ DOMAIN registry' = AppName
    BY <1>1, <1>2 DEF ConfigTyped
  <2>2. owned' \in [CatName -> SUBSET live']
    BY <1>1, <1>2 DEF ConfigTyped
  <2> QED BY <1>1, <1>2, <2>1, <2>2 DEF ConfigTyped
<1>5. KeysSound'
  BY <1>1, <1>2, <1>3 DEF KeysSound, ConfigTyped
<1>6. LinesSound'
  BY <1>1 DEF LinesSound, Finished
<1> QED BY <1>4, <1>5, <1>6 DEF ConfigInv

\* While file, categories and registry stay, so does what is done of a line.
LEMMA LinesStay ==
  ASSUME NEW m, UNCHANGED <<file, owned, priority, additive, registry>>
  PROVE  LineDone(m)' = LineDone(m) /\ LineSet(m)' = LineSet(m)
BY DEF LineDone, LineSet, LineHas

\* All keys are looked at.
LEMMA MadeAllKeeps == ASSUME ConfigInv, Share!MadeAll PROVE ConfigInv'
<1>1. /\ configPc = "appenders" /\ k > Len(file.keys) /\ configPc' = "categories" /\ k' = 1
      /\ UNCHANGED <<file, j, result, made, registry, live, owned, priority, additive>>
  BY DEF Share!MadeAll, Share!objects, Share!categories
<1>2. ConfigTyped /\ KeysSound /\ Len(file.keys) \in Nat /\ Len(file.categories) \in Nat
  BY FileFacts DEF ConfigInv, ConfigTyped
<1>3. ConfigTyped'
  BY <1>1, <1>2 DEF ConfigTyped
<1>4. KeysSound'
  <2>1. k - 1 = Len(file.keys)
    BY <1>1, <1>2 DEF KeysSound, ConfigTyped
  <2> QED BY <1>1, <1>2, <2>1 DEF KeysSound, KeysDone
<1>5. LinesSound'
  BY <1>1, <1>2 DEF LinesSound, Finished
<1> QED BY <1>3, <1>4, <1>5 DEF ConfigInv

\* A line is begun: the lines before it are about other categories.
LEMMA SetCategoryKeeps == ASSUME ConfigInv, Share!SetCategory PROVE ConfigInv'
<1> DEFINE line == file.categories[k]
<1>1. /\ configPc = "categories" /\ k <= Len(file.categories) /\ configPc' = "attach" /\ j' = 1
      /\ k = 1 => line.category = Root
      /\ line.priority # Share!Bad
      /\ priority' = [priority EXCEPT ![line.category] = line.priority]
      /\ additive' = [additive EXCEPT ![line.category] = line.additive]
      /\ owned' = [owned EXCEPT ![line.category] = {}]
      /\ UNCHANGED <<file, k, result, made, registry, live>>
  BY DEF Share!SetCategory, Share!objects
<1>2. ConfigTyped /\ KeysSound /\ LinesSound
  BY DEF ConfigInv
<1>3. k \in 1..Len(file.categories) /\ Len(file.categories) \in Nat /\ Len(file.keys) \in Nat
  BY <1>1, <1>2, FileFacts DEF ConfigTyped
<1>4. /\ line.category \in CatName /\ line.priority \in Nat /\ line.additive \in BOOLEAN
      /\ Len(line.appenders) \in Nat
  BY <1>1, <1>2, <1>3, FileFacts, ZenonT(60) DEF ConfigTyped
<1>5. /\ priority'[line.category] = line.priority /\ additive'[line.category] = line.additive
      /\ owned'[line.category] = {}
      /\ \A c \in CatName \ {line.category} :
            priority'[c] = priority[c] /\ additive'[c] = additive[c] /\ owned'[c] = owned[c]
  BY <1>1, <1>2, <1>4, SMTT(60) DEF ConfigTyped
<1>6. ConfigTyped'
  <2>1. priority' \in [CatName -> Nat]
    BY <1>1, <1>2, <1>4 DEF ConfigTyped
  <2>2. additive' \in [CatName -> BOOLEAN]
    BY <1>1, <1>2, <1>4, Zenon DEF ConfigTyped
  <2>3. owned' \in [CatName -> SUBSET live']
    BY <1>1, <1>2, <1>4 DEF ConfigTyped
  <2> QED BY <1>1, <1>2, <2>1, <2>2, <2>3 DEF ConfigTyped
<1>7. KeysSound'
  BY <1>1, <1>2 DEF KeysSound, KeysDone
<1>8. LinesSound'
  <2>1. ASSUME NEW m \in 1..(k - 1) PROVE LineDone(m)'
    <3>1. m \in 1..Len(file.categories) /\ m # k
      BY <1>3
    <3>2. /\ file.categories[m].category \in CatName
          /\ file.categories[m].category # line.category
      BY <1>2, <1>3, <3>1, FileFacts, ZenonT(60) DEF ConfigTyped
    <3>3. LineDone(m)
      BY <1>1, <1>2, <2>1 DEF LinesSound
    <3>4. LET c == file.categories[m].category IN
          priority'[c] = priority[c] /\ additive'[c] = additive[c] /\ owned'[c] = owned[c]
      BY <1>5, <3>2, ZenonT(60)
    <3> QED BY <1>1, <3>3, <3>4, ZenonT(60) DEF LineDone, LineSet, LineHas
  <2>2. LineSet(k)'
    BY <1>1, <1>5 DEF LineSet
  <2>3. LineHas(k, j - 1)'
    <3>1. 1..(j' - 1) = {}
      BY <1>1
    <3> QED BY <1>1, <1>5, <3>1 DEF LineHas
  <2>4. file.categories # <<>> /\ file.categories[1].category = Root
    <3>1. Len(file.categories) # 0
      BY <1>3
    <3>2. file.categories # <<>>
      BY <1>2, <3>1, FileFacts DEF ConfigTyped
    <3>3. CASE k = 1
      BY <1>1, <3>2, <3>3
    <3>4. CASE k > 1
      BY <1>1, <1>2, <3>4 DEF LinesSound
    <3> QED BY <1>3, <3>3, <3>4
  <2> QED BY <1>1, <1>3, <1>4, <2>1, <2>2, <2>3, <2>4, SMTT(60) DEF LinesSound, Finished
<1> QED BY <1>6, <1>7, <1>8 DEF ConfigInv

\* The name of an appender that is attached is a key of this file: no other
\* file may have made it.
LEMMA AttachedIsMade ==
  ASSUME ConfigInv, OwnNames, configPc = "attach",
         NEW i \in 1..Len(file.categories[k].appenders)
  PROVE  LET name == file.categories[k].appenders[i] IN
         /\ name \in AppName
         /\ made[name] = Share!Missing
            \/ (made[name] = registry[name] /\ made[name] \in live)
<1> DEFINE name == file.categories[k].appenders[i]
<1>1. ConfigTyped /\ KeysSound /\ LinesSound
  BY DEF ConfigInv
<1>2. file \in File \cup {NoFile} /\ k \in 1..Len(file.categories)
  BY <1>1, FileFacts DEF ConfigTyped, LinesSound
<1>3. /\ file \in File /\ k \in DOMAIN file.categories
      /\ i \in DOMAIN file.categories[k].appenders /\ name \in AppName
      /\ DOMAIN file.keys = 1..Len(file.keys)
  <2>1. /\ Len(file.categories) \in Nat /\ DOMAIN file.categories = 1..Len(file.categories)
        /\ file.categories # <<>> <=> Len(file.categories) # 0
        /\ file.keys # <<>> \/ file.categories # <<>> => file \in File
        /\ DOMAIN file.keys = 1..Len(file.keys)
        /\ DOMAIN file.categories[k].appenders = 1..Len(file.categories[k].appenders)
        /\ \A n \in 1..Len(file.categories[k].appenders) :
              file.categories[k].appenders[n] \in AppName
    BY <1>2, FileFacts, ZenonT(60)
  <2>2. Len(file.categories) # 0
    BY <1>2, <2>1
  <2> QED BY <1>2, <2>1, <2>2
<1>4. HasKey(file, name) \/ \A g \in File : ~HasKey(g, name)
  BY <1>3 DEF OwnNames
<1>5. CASE HasKey(file, name)
  <2>1. PICK l \in 1..Len(file.keys) : file.keys[l].name = name
    BY <1>3, <1>5 DEF HasKey
  <2> QED BY <1>1, <1>3, <2>1, SMTT(60) DEF KeysSound, KeysDone
<1>6. CASE \A g \in File : ~HasKey(g, name)
  BY <1>1, <1>3, <1>6 DEF KeysSound
<1> QED BY <1>3, <1>4, <1>5, <1>6, SMTT(60)

\* An appender of the line joins the category.
LEMMA AttachKeeps == ASSUME ConfigInv, OwnNames, Share!Attach PROVE ConfigInv'
<1> DEFINE line == file.categories[k]
           name == line.appenders[j]
<1>1. /\ configPc = "attach" /\ j <= Len(line.appenders) /\ made[name] # Share!Missing
      /\ owned' = [owned EXCEPT ![line.category] = @ \cup {made[name]}]
      /\ j' = j + 1
      /\ UNCHANGED <<configPc, file, k, result, made, registry, live, priority, additive>>
  BY SMTT(60) DEF Share!Attach, Share!objects
<1>2. ConfigTyped /\ KeysSound /\ LinesSound
  BY DEF ConfigInv
<1>3. /\ k \in 1..Len(file.categories) /\ Len(file.categories) \in Nat
      /\ Len(line.appenders) \in Nat /\ j \in 1..Len(line.appenders)
      /\ line.category \in CatName /\ Len(file.keys) \in Nat
  <2>1. /\ k \in 1..Len(file.categories) /\ Len(file.categories) \in Nat /\ j \in Nat \ {0}
        /\ Len(file.keys) \in Nat /\ file \in File \cup {NoFile}
    BY <1>1, <1>2, FileFacts, SMTT(60) DEF ConfigTyped, LinesSound
  <2>2. Len(line.appenders) \in Nat /\ line.category \in CatName
    BY <2>1, FileFacts, SMTT(60)
  <2> QED BY <1>1, <2>1, <2>2
<1>4. made[name] = registry[name] /\ made[name] \in live
  <2>1. /\ name \in AppName
        /\ made[name] = Share!Missing
           \/ (made[name] = registry[name] /\ made[name] \in live)
    BY <1>1, <1>3, AttachedIsMade, ZenonT(60)
  <2> QED BY <1>1, <2>1, ZenonT(60)
<1>5. /\ owned'[line.category] = owned[line.category] \cup {registry[name]}
      /\ \A c \in CatName \ {line.category} : owned'[c] = owned[c]
  BY <1>1, <1>2, <1>3, <1>4, ZenonT(60) DEF ConfigTyped
<1>6. ConfigTyped'
  <2>1. owned' \in [CatName -> SUBSET live']
    BY <1>1, <1>2, <1>3, <1>4, ZenonT(60) DEF ConfigTyped
  <2> QED BY <1>1, <1>2, <1>3, <2>1, SMTT(150) DEF ConfigTyped
<1>7. KeysSound'
  BY <1>1, <1>2 DEF KeysSound, KeysDone
<1>8. LinesSound'
  <2>1. ASSUME NEW m \in 1..(k - 1) PROVE LineDone(m)'
    <3>1. m \in 1..Len(file.categories) /\ m # k
      BY <1>3
    <3>2. /\ file.categories[m].category \in CatName
          /\ file.categories[m].category # line.category
      BY <1>2, <1>3, <3>1, FileFacts, ZenonT(60) DEF ConfigTyped
    <3>3. LineDone(m)
      BY <1>1, <1>2, <2>1 DEF LinesSound
    <3>4. owned'[file.categories[m].category] = owned[file.categories[m].category]
      BY <1>5, <3>2, ZenonT(60)
    <3> QED BY <1>1, <3>3, <3>4, ZenonT(60) DEF LineDone, LineSet, LineHas
  <2>2. LineSet(k)'
    BY <1>1, <1>2, SMTT(60) DEF LinesSound, LineSet
  <2>3. LineHas(k, j - 1)'
    <3>1. owned[line.category] = {registry[line.appenders[i]] : i \in 1..(j - 1)}
      BY <1>1, <1>2, ZenonT(60) DEF LinesSound, LineHas
    <3>2. 1..(j' - 1) = 1..(j - 1) \cup {j}
      BY <1>1, <1>3, SMTT(60)
    <3>3. owned'[line.category] = {registry[line.appenders[i]] : i \in 1..(j' - 1)}
      BY <1>5, <3>1, <3>2, Zenon, ZenonT(60)
    <3> QED BY <1>1, <3>3, SMTT(60) DEF LineHas
  <2> QED BY <1>1, <1>2, <1>3, <2>1, <2>2, <2>3 DEF LinesSound, Finished
<1> QED BY <1>6, <1>7, <1>8 DEF ConfigInv

\* A line is done, and with the last of them the file.
LEMMA AttachedAllKeeps == ASSUME ConfigInv, Share!AttachedAll PROVE ConfigInv'
<1>1. /\ configPc = "attach" /\ j > Len(file.categories[k].appenders)
      /\ configPc' = "categories" /\ k' = k + 1
      /\ UNCHANGED <<file, j, result, made, registry, live, owned, priority, additive>>
  BY DEF Share!AttachedAll, Share!objects, Share!categories
<1>2. ConfigTyped /\ KeysSound /\ LinesSound
  BY DEF ConfigInv
<1>3. /\ k \in 1..Len(file.categories) /\ Len(file.categories) \in Nat
      /\ Len(file.categories[k].appenders) \in Nat /\ Len(file.keys) \in Nat
      /\ j - 1 = Len(file.categories[k].appenders)
  <2>1. /\ k \in 1..Len(file.categories) /\ Len(file.categories) \in Nat /\ j \in Nat
        /\ Len(file.keys) \in Nat
    BY <1>1, <1>2, FileFacts DEF ConfigTyped, LinesSound
  <2>2. Len(file.categories[k].appenders) \in Nat
    BY <1>2, <2>1, FileFacts, ZenonT(60) DEF ConfigTyped
  <2> QED BY <1>1, <1>2, <2>1, <2>2, SMTT(60) DEF LinesSound
<1>4. ConfigTyped'
  BY <1>1, <1>2, <1>3 DEF ConfigTyped
<1>5. KeysSound'
  BY <1>1, <1>2 DEF KeysSound, KeysDone
<1>6. LinesSound'
  <2>1. LineDone(k)
    BY <1>1, <1>2, <1>3 DEF LinesSound, LineDone
  <2>2. ASSUME NEW m \in 1..(k' - 1) PROVE LineDone(m)'
    <3>1. LineDone(m)
      BY <1>1, <1>2, <1>3, <2>1 DEF LinesSound
    <3> QED BY <1>1, <3>1, LinesStay
  <2> QED BY <1>1, <1>2, <1>3, <2>2 DEF LinesSound, Finished
<1> QED BY <1>4, <1>5, <1>6 DEF ConfigInv

\* The call returns with all lines done.
LEMMA ReturnKeeps == ASSUME ConfigInv, Share!Return PROVE ConfigInv' /\ AllDone'
<1>1. /\ configPc = "categories" /\ k > 1 /\ k > Len(file.categories)
      /\ configPc' = "idle" /\ result' = "good"
      /\ UNCHANGED <<file, k, j, made, registry, live, owned, priority, additive>>
  BY DEF Share!Return, Share!objects, Share!categories
<1>2. ConfigTyped /\ KeysSound /\ LinesSound
  BY DEF ConfigInv
<1>3. Len(file.categories) \in Nat /\ DOMAIN file.categories = 1..(k - 1)
  <2>1. /\ k \in Nat /\ DOMAIN file.categories = 1..Len(file.categories)
        /\ Len(file.categories) \in Nat
    BY <1>2, FileFacts DEF ConfigTyped
  <2> QED BY <1>1, <1>2, <2>1 DEF LinesSound
<1>4. ASSUME NEW m \in DOMAIN file.categories PROVE LineDone(m)' /\ LineSet(m)'
  <2>1. LineDone(m)
    BY <1>1, <1>2, <1>3 DEF LinesSound
  <2> QED BY <1>1, <2>1, LinesStay DEF LineDone
<1>5. AllDone'
  BY <1>1, <1>4 DEF AllDone
<1>6. ConfigTyped' /\ KeysSound'
  BY <1>1, <1>2 DEF ConfigTyped, KeysSound
<1>7. LinesSound'
  BY <1>1, <1>2, <1>4, <1>5 DEF LinesSound, Finished
<1> QED BY <1>5, <1>6, <1>7 DEF ConfigInv

\* A line that cannot be followed ends the call.
LEMMA ThrowKeeps ==
  ASSUME ConfigInv, Share!SetCategoryThrows \/ Share!AttachThrows PROVE ConfigInv'
<1>1. /\ configPc' = "idle" /\ result' = "thrown"
      /\ UNCHANGED <<file, k, j, made, registry, live, owned, priority, additive>>
  BY DEF Share!SetCategoryThrows, Share!AttachThrows, Share!Throw, Share!objects,
         Share!categories
<1> QED BY <1>1 DEF ConfigInv, ConfigTyped, KeysSound, LinesSound, Finished

\* Shutting down takes the appenders that the registry has, and from every
\* category what it had.
LEMMA ShutdownForcedKeeps == ASSUME ConfigInv, Share!ShutdownForced PROVE ConfigInv'
<1>1. /\ configPc = "idle" /\ owned' = [c \in CatName |-> {}]
      /\ registry' = [n \in AppName |-> Null]
      /\ UNCHANGED <<configPc, file, k, j, result, made, priority, additive>>
  BY DEF Share!ShutdownForced, Share!call
<1>2. ConfigTyped /\ KeysSound /\ LinesSound
  BY DEF ConfigInv
<1>3. owned' \in [CatName -> SUBSET live'] /\ \A c \in CatName : owned'[c] = {}
  BY <1>1
<1>4. ConfigTyped' /\ KeysSound'
  BY <1>1, <1>2, <1>3 DEF ConfigTyped, KeysSound
<1>5. LinesSound'
  BY <1>1, <1>2, <1>3 DEF LinesSound, Finished, LineSet
<1> QED BY <1>4, <1>5 DEF ConfigInv

\* Within a call, and a call that returns has done all lines.
LEMMA DoConfigureKeeps ==
  ASSUME ConfigInv, OwnNames, Share!DoConfigure
  PROVE  ConfigInv' /\ (Finished' => AllDone')
<1>1. CASE Share!Return
  BY <1>1, ReturnKeeps
<1>2. CASE /\ ~Share!Return
           /\ \/ Share!Make \/ Share!MakeThrows \/ Share!MadeAll \/ Share!SetCategory
              \/ Share!SetCategoryThrows \/ Share!Attach \/ Share!AttachThrows
              \/ Share!AttachedAll
  <2>1. ConfigInv'
    BY <1>2, MakeKeeps, MakeThrowsKeeps, MadeAllKeeps, SetCategoryKeeps, ThrowKeeps, AttachKeeps,
       AttachedAllKeeps
  <2>2. configPc' # "idle" \/ result' = "thrown"
    <3>1. CASE Share!MakeThrows \/ Share!SetCategoryThrows \/ Share!AttachThrows
      BY <3>1, ZenonT(60) DEF Share!MakeThrows, Share!SetCategoryThrows, Share!AttachThrows,
                              Share!Throw
    <3>2. CASE Share!Make \/ Share!MadeAll \/ Share!SetCategory
      BY <3>2, ZenonT(60) DEF Share!Make, Share!MadeAll, Share!SetCategory
    <3>3. CASE Share!Attach \/ Share!AttachedAll
      BY <3>3, ZenonT(60) DEF Share!Attach, Share!AttachedAll
    <3> QED BY <1>2, <3>1, <3>2, <3>3, ZenonT(60)
  <2> QED BY <2>1, <2>2 DEF Finished
<1> QED BY <1>1, <1>2 DEF Share!DoConfigure

\* Whatever is called.
LEMMA ConfigKeeps == ASSUME ConfigInv, OwnNames, Share!ConfigNext PROVE ConfigInv'
BY StartKeeps, DoConfigureKeeps, ShutdownForcedKeeps DEF Share!ConfigNext

\* Nothing moves.
LEMMA ConfigStays ==
  ASSUME ConfigInv, UNCHANGED libraryVars
  PROVE  ConfigInv' /\ (Finished' <=> Finished) /\ (AllDone' <=> AllDone)
<1>1. UNCHANGED <<configPc, file, k, j, result, made, registry, live, owned, priority, additive>>
  BY DEF libraryVars
<1>2. ConfigTyped' /\ KeysSound'
  BY <1>1 DEF ConfigInv, ConfigTyped, KeysSound, KeysDone
<1>3. (Finished' <=> Finished) /\ (AllDone' <=> AllDone)
  BY <1>1 DEF Finished, AllDone, LineDone, LineSet, LineHas
<1>4. LinesSound'
  <2>1. /\ \A m : (LineDone(m)' <=> LineDone(m)) /\ (LineSet(m)' <=> LineSet(m))
        /\ LineHas(k, j - 1)' <=> LineHas(k, j - 1)
    BY <1>1 DEF LineDone, LineSet, LineHas
  <2>2. LineSet(k)' <=> LineSet(k)
    BY <1>1 DEF LineSet
  <2> QED BY <1>1, <1>3, <2>1, <2>2 DEF ConfigInv, LinesSound
<1> QED BY <1>2, <1>3, <1>4 DEF ConfigInv

\* After a call that returned, the root category is as the first line says.
LEMMA RootIsSet ==
  ASSUME ConfigInv, Finished, AllDone
  PROVE  LET line == file.categories[1] IN
         /\ priority[Root] = line.priority
         /\ owned[Root] = {registry[line.appenders[i]] : i \in DOMAIN line.appenders}
<1>1. file.categories # <<>> /\ file.categories[1].category = Root
  BY DEF ConfigInv, LinesSound
<1>2. file \in File \cup {NoFile}
  BY DEF ConfigInv, ConfigTyped
<1>3. 1 \in 1..Len(file.categories) /\ DOMAIN file.categories = 1..Len(file.categories)
  BY <1>1, <1>2, FileFacts
<1>4. LineDone(1)
  BY <1>3 DEF AllDone
<1>5. DOMAIN file.categories[1].appenders = 1..Len(file.categories[1].appenders)
  BY <1>2, <1>3, FileFacts
<1> QED BY <1>1, <1>4, <1>5 DEF LineDone, LineSet, LineHas

\* main ends with a message when the log is set up.
LEMMA SaysLast ==
  ASSUME ConfigInv, MainSound, mainPc \in {"load", "loaded"},
         NEW message, NEW limit, NEW code, Share!Says(message, limit), Share!Exit(code),
         \/ code = 0 /\ limit = 600 /\ message = config
         \/ code = -3 /\ limit = 300 /\ message = "loadFailed",
         UNCHANGED libraryVars, UNCHANGED config
  PROVE  MainSound'
<1>1. /\ ~crashed /\ handle = Root /\ said = {} /\ Finished /\ AllDone
  BY DEF MainSound
<1>0. /\ configPc' = configPc /\ file' = file /\ result' = result /\ registry' = registry
      /\ owned' = owned /\ priority' = priority /\ additive' = additive /\ config' = config
  BY DEF libraryVars
<1>2. handle # Null
  BY <1>1, RootAssumption
<1>3. /\ said' = IF limit <= priority[Root] THEN {message} \X owned[Root] ELSE {}
      /\ crashed' = crashed /\ mainPc' = "exit" /\ exit' = code
  BY <1>1, <1>2 DEF Share!Says, Share!Exit
<1>4. LET line == file.categories[1] IN
      /\ priority[Root] = line.priority
      /\ owned[Root] = {registry[line.appenders[i]] : i \in DOMAIN line.appenders}
  BY <1>1, RootIsSet
<1>5. Share!MainTells'
  <2>1. exit' = code /\ result' = "good" /\ ~crashed' /\ code \notin {-1, -2}
    <3>1. exit' = code /\ ~crashed'
      BY <1>1, <1>3
    <3>2. result' = "good"
      BY <1>0, <1>1 DEF Finished
    <3>3. code \notin {-1, -2}
      OBVIOUS
    <3> QED BY <3>1, <3>2, <3>3
  <2>2. \E c \in {file.categories[1]} :
           said' = IF (IF exit' = 0 THEN 600 ELSE 300) <= c.priority
                   THEN {IF exit' = 0 THEN config' ELSE "loadFailed"} \X
                           {registry[c.appenders[i]] : i \in DOMAIN c.appenders}
                   ELSE {}
    <3>1. /\ (IF exit' = 0 THEN 600 ELSE 300) = limit
          /\ (IF exit' = 0 THEN config' ELSE "loadFailed") = message
      BY <1>0, <2>1
    <3>2. WITNESS file.categories[1] \in {file.categories[1]}
    <3> QED BY <1>3, <1>4, <3>1, SMTT(150)
  <2> QED BY <1>0, <2>1, <2>2 DEF Share!MainTells, Share!INFO, Share!ERROR
<1>6. Finished' => AllDone'
  BY <1>1, ConfigStays
<1> QED BY <1>1, <1>3, <1>5, <1>6 DEF MainSound

\* Nothing of the program moves.
LEMMA MainStays ==
  ASSUME MainSound, UNCHANGED libraryVars, UNCHANGED programVars PROVE MainSound'
<1>1. /\ UNCHANGED <<handle, config, exit, crashed, said, mainPc>>
      /\ UNCHANGED <<configPc, file, result, registry, owned, priority, additive>>
  BY DEF libraryVars, programVars
<1>2. Finished' => AllDone'
  BY <1>1, ZenonT(60) DEF MainSound, Finished, AllDone, LineDone, LineSet, LineHas
<1>3. Share!MainTells' <=> Share!MainTells
  BY <1>1 DEF Share!MainTells
<1>4. Finished' <=> Finished
  BY <1>1 DEF Finished
<1> QED BY <1>1, <1>2, <1>3, <1>4 DEF MainSound, Silence

\* The program keeps its invariant.
LEMMA MainKeeps ==
  ASSUME ConfigInv, MainSound, OwnNames, Share!Next PROVE ConfigInv' /\ MainSound'
<1>1. CASE Share!Usage
  <2>1. /\ mainPc = "main" /\ mainPc' = "exit" /\ exit' = -1
        /\ UNCHANGED libraryVars /\ UNCHANGED <<handle, crashed, said>> /\ result' = result
    BY <1>1 DEF Share!Usage, Share!Exit, libraryVars, Share!configVars, Share!call, Share!objects,
                Share!categories
  <2>2. ConfigInv' /\ ~Finished'
    BY <2>1, ConfigStays DEF MainSound, Finished
  <2>3. Share!MainTells'
    BY <2>1 DEF MainSound, Silence, Share!MainTells
  <2> QED BY <2>1, <2>2, <2>3 DEF MainSound
<1>2. CASE Share!InitLogger
  <2>1. /\ mainPc' = "init" /\ mainPc = "main" /\ UNCHANGED <<handle, crashed, said>>
        /\ (\E f \in File : Share!Configure(f)) \/ Share!ConfigureNoFile
        /\ result' # "good"
    BY <1>2 DEF Share!InitLogger, Share!Configure, Share!ConfigureNoFile
  <2>2. ConfigInv'
    BY <2>1, StartKeeps
  <2> QED BY <2>1, <2>2 DEF MainSound, Silence, Finished
<1>3. CASE Share!Configures
  <2>1. mainPc = "init" /\ Share!DoConfigure /\ UNCHANGED <<mainPc, handle, crashed, said>>
    BY <1>3 DEF Share!Configures, Share!mainVars
  <2>2. ConfigInv' /\ (Finished' => AllDone')
    BY <2>1, DoConfigureKeeps
  <2> QED BY <2>1, <2>2 DEF MainSound, Silence
<1>4. CASE Share!InitFails
  <2>1. /\ mainPc = "init" /\ result = "thrown" /\ mainPc' = "exit" /\ exit' = -2
        /\ UNCHANGED libraryVars /\ UNCHANGED <<handle, crashed, said>> /\ result' = result
    BY <1>4 DEF Share!InitFails, Share!Exit, libraryVars, Share!configVars, Share!call,
                Share!objects, Share!categories
  <2>2. ConfigInv' /\ ~Finished'
    BY <2>1, ConfigStays DEF Finished
  <2>3. Share!MainTells'
    BY <2>1 DEF MainSound, Silence, Share!MainTells
  <2> QED BY <2>1, <2>2, <2>3 DEF MainSound
<1>5. CASE Share!InitDone
  <2>1. /\ mainPc = "init" /\ Finished /\ mainPc' = "load" /\ handle' = Root
        /\ UNCHANGED libraryVars /\ UNCHANGED <<crashed, said>>
    BY <1>5 DEF Share!InitDone, Finished, libraryVars, Share!configVars, Share!call,
                Share!objects, Share!categories
  <2>2. ConfigInv' /\ Finished' /\ AllDone'
    BY <2>1, ConfigStays DEF MainSound
  <2> QED BY <2>1, <2>2 DEF MainSound, Silence
<1>6. CASE Share!Load
  <2>1. /\ mainPc = "load" /\ mainPc' = "loaded"
        /\ UNCHANGED libraryVars /\ UNCHANGED <<handle, crashed, said>>
    BY <1>6 DEF Share!Load, libraryVars, Share!configVars, Share!call, Share!objects,
                Share!categories
  <2>2. ConfigInv' /\ Finished' /\ AllDone'
    BY <2>1, ConfigStays DEF MainSound
  <2> QED BY <2>1, <2>2 DEF MainSound
<1>7. CASE Share!LoadFails \/ Share!Loaded
  <2>1. /\ mainPc \in {"load", "loaded"} /\ UNCHANGED libraryVars
        /\ UNCHANGED config
        /\ \/ Share!Says(config, 600) /\ Share!Exit(0)
           \/ Share!Says("loadFailed", 300) /\ Share!Exit(-3)
    BY <1>7 DEF Share!LoadFails, Share!Loaded, Share!INFO, Share!ERROR, libraryVars,
                Share!configVars, Share!call, Share!objects, Share!categories
  <2>2. ConfigInv'
    BY <2>1, ConfigStays
  <2>3. MainSound'
    <3>1. CASE Share!Says(config, 600) /\ Share!Exit(0)
      <4>1. PICK port : port = config
        OBVIOUS
      <4> QED BY <2>1, <3>1, <4>1, SaysLast
    <3>2. CASE Share!Says("loadFailed", 300) /\ Share!Exit(-3)
      BY <2>1, <3>2, SaysLast
    <3> QED BY <2>1, <3>1, <3>2
  <2> QED BY <2>2, <2>3
<1>8. CASE Share!Ended
  <2>1. UNCHANGED libraryVars /\ UNCHANGED programVars
    BY <1>8 DEF Share!Ended, Share!vars, Share!mainVars, libraryVars, programVars,
                Share!configVars, Share!call, Share!objects, Share!categories
  <2> QED BY <2>1, MainStays, ConfigStays
<1> QED BY <1>1, <1>2, <1>3, <1>4, <1>5, <1>6, <1>7, <1>8 DEF Share!Next

-----------------------------------------------------------------------------
(* The whole.                                                              *)

\* A step of another part moves neither.
LEMMA SetupStays ==
  ASSUME SetupInv, part' = part, UNCHANGED libraryVars, UNCHANGED programVars PROVE SetupInv'
BY ConfigStays, MainStays DEF SetupInv, programVars

\* Every step of the log's set-up keeps the invariant.
LEMMA SetupKeeps ==
  ASSUME SetupInv, OwnNames, [MailStep(Next) \/ OtherStep]_MCvars PROVE SetupInv'
<1>1. \/ part' = part /\ UNCHANGED libraryVars /\ UNCHANGED programVars
      \/ part' = part /\ part = "config" /\ Share!ConfigNext /\ UNCHANGED programVars
      \/ part' = part /\ part = "main" /\ Share!Next
  BY DEF MailStep, OtherStep, MCvars
<1>2. CASE part = "config" /\ part' = part /\ Share!ConfigNext /\ UNCHANGED programVars
  BY <1>2, ConfigKeeps DEF SetupInv, programVars
<1>3. CASE part = "main" /\ part' = part /\ Share!Next
  BY <1>3, MainKeeps DEF SetupInv
<1> QED BY <1>1, <1>2, <1>3, SetupStays

\* It holds in every run.
LEMMA SetupInvariance == ASSUME OwnNames PROVE MCSpec => []SetupInv
<1>1. MCInit => SetupInv
  <2> SUFFICES ASSUME MCInit PROVE SetupInv
    OBVIOUS
  <2>1. /\ Share!ConfigInit /\ mainPc = "main" /\ handle = Null /\ ~crashed /\ said = {}
        /\ result = "none"
    BY DEF MCInit, Share!Init, Share!ConfigInit
  <2>2. ConfigInv
    BY <2>1, InitConfigInv
  <2> QED BY <2>1, <2>2 DEF SetupInv, MainSound, Silence, Finished
<1>2. SetupInv /\ [MailStep(Next) \/ OtherStep]_MCvars => SetupInv'
  BY SetupKeeps
<1> QED BY <1>1, <1>2, PTL DEF MCSpec

\* No category has an appender that is NULL or deleted, however often the
\* configurator is called, also when calls threw and after shutdowns; and after a
\* call that did not, the categories have what the file says
\* (PropertyConfiguratorImpl::doConfigure).
THEOREM CategoriesAreConfigured == ASSUME OwnNames PROVE MCSpec => []Configured
<1>1. SetupInv => Configured
  <2> SUFFICES ASSUME SetupInv PROVE Configured
    OBVIOUS
  <2>1. ConfigTyped /\ LinesSound
    BY DEF SetupInv, ConfigInv
  <2>2. \A c \in CatName : owned[c] \subseteq live
    BY <2>1 DEF ConfigTyped
  <2>3. ASSUME Finished, NEW m \in DOMAIN file.categories
        PROVE  LET line == file.categories[m] IN
               /\ priority[line.category] = line.priority
               /\ additive[line.category] = line.additive
               /\ owned[line.category] # {} =>
                     owned[line.category] =
                        {registry[line.appenders[i]] : i \in DOMAIN line.appenders}
    <3>1. LineSet(m) /\ (AllDone \/ \A c \in CatName : owned[c] = {})
      BY <2>1, <2>3 DEF LinesSound
    <3>2. /\ file.categories[m].category \in CatName
          /\ DOMAIN file.categories[m].appenders = 1..Len(file.categories[m].appenders)
      BY <2>1, FileFacts, ZenonT(60) DEF ConfigTyped
    <3> QED BY <2>3, <3>1, <3>2, ZenonT(60) DEF LineSet, AllDone, LineDone, LineHas
  <2> QED BY <2>2, <2>3 DEF Configured, Share!Configured, Finished
<1> QED BY <1>1, SetupInvariance, PTL

\* What share_bike ends with is what its log says, for every file and every
\* setting, and no call goes through a pointer that is not set (main and
\* Logger::init).
THEOREM MainEndsAsTold == ASSUME OwnNames PROVE MCSpec => []MainTells
<1>1. SetupInv => MainTells
  <2> SUFFICES ASSUME SetupInv PROVE MainTells
    OBVIOUS
  <2>1. mainPc = "exit" => Share!MainTells
    BY DEF SetupInv, MainSound
  <2>2. ~crashed
    BY DEF SetupInv, MainSound
  <2> QED BY <2>1, <2>2 DEF MainTells, Share!MainTells
<1> QED BY <1>1, SetupInvariance, PTL

-----------------------------------------------------------------------------
(* The buffer.                                                             *)

\* The sink takes whatever is dumped.
SinkTakesAll == \A p \in SinkThreshold : p \in Int /\ p >= 800

\* The queue holds the last records, the newest first, and no fewer than it was
\* made for unless a dump has emptied it since.
BufferInv ==
    /\ maxSize \in Nat \ {0} /\ events \in Nat /\ told \in 0..events
    /\ sinkThreshold \in SinkThreshold \cup {800}
    /\ queue \in Seq(Nat) /\ texts \in Seq(Seq(Nat))
    /\ \A i \in 1..Len(queue) : queue[i] = events - i + 1
    /\ Len(queue) <= events - told
    /\ Len(queue) >= maxSize \/ Len(queue) = events - told

\* A sequence turned round.
LEMMA ReverseFacts ==
  ASSUME NEW s \in Seq(Nat)
  PROVE  /\ Buffer!Reverse(s) \in Seq(Nat) /\ Len(Buffer!Reverse(s)) = Len(s)
         /\ \A i \in 1..Len(s) : Buffer!Reverse(s)[i] = s[Len(s) - i + 1]
<1>1. Len(s) \in Nat
  BY LenProperties
<1>2. \A i \in 1..Len(s) : s[Len(s) - i + 1] \in Nat
  <2> SUFFICES ASSUME NEW i \in 1..Len(s) PROVE s[Len(s) - i + 1] \in Nat
    OBVIOUS
  <2>1. Len(s) - i + 1 \in 1..Len(s)
    BY <1>1
  <2> QED BY <2>1, ElementOfSeq
<1>3. Buffer!Reverse(s) = [i \in 1..Len(s) |-> s[Len(s) - i + 1]]
  BY DEF Buffer!Reverse
<1>4. Buffer!Reverse(s) \in [1..Len(s) -> Nat]
  BY <1>2, <1>3
<1>5. Buffer!Reverse(s) \in Seq(Nat)
  BY <1>1, <1>4, SeqDef, SMTT(60)
<1>6. DOMAIN Buffer!Reverse(s) = 1..Len(s) /\ DOMAIN Buffer!Reverse(s) = 1..Len(Buffer!Reverse(s))
      /\ Len(Buffer!Reverse(s)) \in Nat
  BY <1>4, <1>5, LenProperties
<1>7. Len(Buffer!Reverse(s)) = Len(s)
  BY <1>1, <1>6
<1> QED BY <1>3, <1>5, <1>7

\* A sequence of one.
LEMMA SingleFacts ==
  ASSUME NEW S, NEW x \in S
  PROVE  <<x>> \in Seq(S) /\ Len(<<x>>) = 1 /\ <<x>>[1] = x
OBVIOUS

\* At the start, and while nothing moves.
LEMMA InitBufferInv == Buffer!Init => BufferInv
<1> SUFFICES ASSUME Buffer!Init PROVE BufferInv
  OBVIOUS
<1>1. /\ queue = <<>> /\ sinkThreshold = 800 /\ texts = <<>> /\ events = 0 /\ told = 0
      /\ \E n \in Asked : maxSize = Buffer!Max({1, n})
  BY ZenonT(60) DEF Buffer!Init, Buffer!NOTSET
<1>2. maxSize \in Nat \ {0}
  <2>1. PICK n \in Asked : maxSize = Buffer!Max({1, n})
    BY <1>1
  <2>2. n \in Nat
    BY SizesAssumption
  <2>3. \E x \in {1, n} : \A y \in {1, n} : x >= y
    BY <2>2
  <2>4. Buffer!Max({1, n}) \in {1, n} /\ \A y \in {1, n} : Buffer!Max({1, n}) >= y
    BY <2>3 DEF Buffer!Max
  <2> QED BY <2>1, <2>2, <2>4
<1> QED BY <1>1, <1>2, EmptySeq DEF BufferInv

\* A record comes in.
LEMMA AppendTells ==
  ASSUME BufferInv, SinkTakesAll, NEW p \in Level, Buffer!DoAppend(p)
  PROVE  BufferInv' /\ Buffer!Tells
<1> DEFINE room == Buffer!Room
           full == Len(queue) = maxSize /\ ~lossy
           q == <<events + 1>> \o room
           triggers == p <= Trigger
           first == IF full THEN Buffer!Dumped(queue) ELSE <<>>
           second == IF triggers THEN Buffer!Dumped(q) ELSE <<>>
<1>1. /\ events' = events + 1
      /\ texts' = texts \o first \o second
      /\ queue' = (IF triggers THEN <<>> ELSE q)
      /\ told' = (IF triggers THEN events' ELSE told)
      /\ maxSize' = maxSize /\ sinkThreshold' = sinkThreshold
  BY DEF Buffer!DoAppend
<1>2. /\ maxSize \in Nat \ {0} /\ events \in Nat /\ told \in 0..events
      /\ queue \in Seq(Nat) /\ texts \in Seq(Seq(Nat)) /\ Len(queue) \in Nat
      /\ \A i \in 1..Len(queue) : queue[i] = events - i + 1
      /\ Len(queue) <= events - told
      /\ Len(queue) >= maxSize \/ Len(queue) = events - told
  BY LenProperties DEF BufferInv
<1>3. /\ room \in Seq(Nat)
      /\ IF Len(queue) = maxSize /\ lossy THEN Len(room) = Len(queue) - 1 ELSE room = queue
      /\ \A i \in 1..Len(room) : room[i] = events - i + 1
  <2>1. CASE Len(queue) = maxSize /\ lossy
    <3>1. room = SubSeq(queue, 1, Len(queue) - 1)
      BY <2>1 DEF Buffer!Room, Buffer!Front
    <3>2. \A i \in 1..(Len(queue) - 1) : queue[i] \in Nat
      BY <1>2, ElementOfSeq, SMTT(150)
    <3>3. /\ room \in Seq(Nat)
          /\ Len(room) = IF 1 <= Len(queue) - 1 THEN Len(queue) - 1 - 1 + 1 ELSE 0
          /\ \A i \in 1..(Len(queue) - 1 - 1 + 1) : room[i] = queue[1 + i - 1]
      BY <1>2, <3>1, <3>2, SubSeqProperties
    <3>4. Len(room) = Len(queue) - 1
      BY <1>2, <2>1, <3>3
    <3>5. \A i \in 1..Len(room) : room[i] = events - i + 1
      BY <1>2, <3>3, <3>4
    <3> QED BY <2>1, <3>3, <3>4, <3>5
  <2>2. CASE ~(Len(queue) = maxSize /\ lossy)
    BY <1>2, <2>2 DEF Buffer!Room
  <2> QED BY <2>1, <2>2
<1>31. Len(room) = Len(queue) \/ (Len(room) = Len(queue) - 1 /\ Len(queue) = maxSize)
  BY <1>3
<1>4. /\ q \in Seq(Nat) /\ Len(q) = Len(room) + 1 /\ Len(room) \in Nat
      /\ \A i \in 1..Len(q) : q[i] = events + 2 - i
      /\ \A i \in 1..Len(room) : q[i + 1] = room[i]
  <2> HIDE DEF room
  <2>1. events + 1 \in Nat
    BY <1>2
  <2>2. <<events + 1>> \in Seq(Nat) /\ Len(<<events + 1>>) = 1 /\ <<events + 1>>[1] = events + 1
    BY <2>1, SingleFacts
  <2>3. Len(room) \in Nat
    BY <1>3, LenProperties
  <2>4. /\ q \in Seq(Nat) /\ Len(q) = 1 + Len(room)
        /\ \A i \in 1..(1 + Len(room)) :
              q[i] = IF i <= 1 THEN <<events + 1>>[i] ELSE room[i - 1]
    BY <1>3, <2>2, ConcatProperties
  <2>5. \A i \in 1..Len(room) : q[i + 1] = room[i]
    BY <2>3, <2>4
  <2>6. ASSUME NEW i \in 1..Len(q) PROVE q[i] = events + 2 - i
    <3>1. CASE i = 1
      BY <1>2, <2>2, <2>3, <2>4, <3>1
    <3>2. CASE i # 1
      <4>1. i - 1 \in 1..Len(room) /\ q[i] = room[i - 1]
        BY <2>3, <2>4, <3>2
      <4> QED BY <1>2, <1>3, <4>1
    <3> QED BY <3>1, <3>2
  <2> QED BY <2>3, <2>4, <2>5, <2>6
<1>5. ASSUME NEW s \in Seq(Nat)
      PROVE  Buffer!Dumped(s) = <<Buffer!Reverse(s)>> /\ <<Buffer!Reverse(s)>> \in Seq(Seq(Nat))
  <2>1. Buffer!SinkTakes
    BY DEF BufferInv, SinkTakesAll, Buffer!SinkTakes, Buffer!NOTSET
  <2> QED BY <2>1, ReverseFacts, SingleFacts DEF Buffer!Dumped
<1> HIDE DEF q, room
<1>6. first \in Seq(Seq(Nat)) /\ second \in Seq(Seq(Nat))
  BY <1>2, <1>4, <1>5, EmptySeq, ZenonT(60)
<1> HIDE DEF first, second, triggers, full
<1>7. /\ texts \o first \in Seq(Seq(Nat)) /\ texts' \in Seq(Seq(Nat))
      /\ Len(texts') = Len(texts \o first) + Len(second) /\ Len(texts \o first) \in Nat
      /\ \A i \in 1..Len(second) : texts'[Len(texts \o first) + i] = second[i]
  <2>1. texts \o first \in Seq(Seq(Nat))
    BY <1>2, <1>6, ConcatProperties
  <2>2. /\ texts' \in Seq(Seq(Nat)) /\ Len(texts') = Len(texts \o first) + Len(second)
        /\ \A i \in 1..(Len(texts \o first) + Len(second)) :
              texts'[i] = IF i <= Len(texts \o first) THEN (texts \o first)[i]
                          ELSE second[i - Len(texts \o first)]
    BY <1>1, <1>6, <2>1, ConcatProperties
  <2>3. Len(texts \o first) \in Nat /\ Len(second) \in Nat
    BY <1>6, <2>1, LenProperties
  <2>4. ASSUME NEW i \in 1..Len(second)
        PROVE  texts'[Len(texts \o first) + i] = second[i]
    <3> DEFINE n == Len(texts \o first) + i
    <3>1. /\ n \in 1..(Len(texts \o first) + Len(second)) /\ ~(n <= Len(texts \o first))
          /\ n - Len(texts \o first) = i
      BY <2>3
    <3> QED BY <2>2, <3>1, ZenonT(60)
  <2> QED BY <2>1, <2>2, <2>3, <2>4, ZenonT(60)
<1>8. BufferInv'
  <2>1. CASE triggers
    BY <1>1, <1>2, <1>7, <2>1, EmptySeq DEF BufferInv
  <2>2. CASE ~triggers
    <3>1. queue' = q /\ told' = told /\ events' = events + 1
      BY <1>1, <2>2
    <3>2. \A i \in 1..Len(q) : q[i] = (events + 1) - i + 1
      BY <1>2, <1>4
    <3>3. /\ Len(q) <= events + 1 - told
          /\ Len(q) >= maxSize \/ Len(q) = events + 1 - told
      <4>1. Len(q) = Len(room) + 1
        BY <1>4
      <4>2. /\ Len(queue) \in Nat /\ maxSize \in Nat /\ events \in Nat /\ told \in Nat
            /\ Len(queue) <= events - told
            /\ Len(queue) >= maxSize \/ Len(queue) = events - told
        BY <1>2
      <4>3. CASE Len(room) = Len(queue)
        BY <4>1, <4>2, <4>3
      <4>4. CASE Len(room) = Len(queue) - 1 /\ Len(queue) = maxSize
        BY <4>1, <4>2, <4>4
      <4> QED BY <1>31, <4>3, <4>4
    <3>4. told' \in 0..events' /\ events' \in Nat
      BY <1>2, <3>1
    <3>5. q \in Seq(Nat) /\ texts' \in Seq(Seq(Nat))
      BY <1>4, <1>7
    <3> QED BY <1>1, <1>2, <3>1, <3>2, <3>3, <3>4, <3>5, SMTT(60) DEF BufferInv
  <2> QED BY <2>1, <2>2
<1>9. triggers => Len(second) = 1 /\ Buffer!Last(texts') = Buffer!Reverse(q)
                  /\ second[1] = Buffer!Reverse(q)
  <2> SUFFICES ASSUME triggers
               PROVE  Len(second) = 1 /\ Buffer!Last(texts') = Buffer!Reverse(q)
                      /\ second[1] = Buffer!Reverse(q)
    OBVIOUS
  <2>1. second = <<Buffer!Reverse(q)>>
    BY <1>4, <1>5 DEF second
  <2>2. Len(second) = 1 /\ second[1] = Buffer!Reverse(q)
    BY <2>1, <1>4, ReverseFacts, SingleFacts
  <2> QED BY <1>7, <2>2 DEF Buffer!Last
<1>10. ASSUME told' # told
       PROVE  LET last == Buffer!Last(texts') IN
              /\ last = [i \in 1..Len(last) |-> told' - Len(last) + i]
              /\ Len(last) <= told' - told
              /\ Len(last) >= Buffer!Min({maxSize, told' - told})
  <2> DEFINE taken == Buffer!Reverse(q)
  <2>1. triggers /\ told' = events + 1 /\ Buffer!Last(texts') = taken
    BY <1>1, <1>9, <1>10
  <2>2. /\ taken \in Seq(Nat) /\ Len(taken) = Len(q)
        /\ \A i \in 1..Len(q) : taken[i] = q[Len(q) - i + 1]
    BY <1>4, ReverseFacts, ZenonT(60)
  <2> HIDE DEF taken
  <2>3. taken = [i \in 1..Len(taken) |-> told' - Len(taken) + i]
    <3>1. taken \in [1..Len(taken) -> Nat] /\ Len(q) \in Nat
      BY <1>4, <2>2, LenProperties
    <3>2. ASSUME NEW i \in 1..Len(taken) PROVE taken[i] = told' - Len(taken) + i
      <4>1. Len(q) - i + 1 \in 1..Len(q)
        BY <2>2, <3>1
      <4> QED BY <1>2, <1>4, <2>1, <2>2, <3>1, <4>1, SMTT(150)
    <3> QED BY <3>1, <3>2
  <2>4. Len(taken) <= told' - told
    BY <1>2, <1>3, <1>4, <2>1, <2>2, SMTT(150)
  <2>5. Len(taken) >= maxSize \/ Len(taken) >= told' - told
    BY <1>2, <1>3, <1>4, <2>1, <2>2, SMTT(60)
  <2>6. Buffer!Min({maxSize, told' - told}) <= maxSize
        /\ Buffer!Min({maxSize, told' - told}) <= told' - told
        /\ Buffer!Min({maxSize, told' - told}) \in Int
    <3>1. PICK d \in Int : d = told' - told
      BY <1>2, <2>1
    <3>2. \E x \in {maxSize, d} : \A y \in {maxSize, d} : x =< y
      BY <1>2
    <3>3. /\ Buffer!Min({maxSize, d}) \in {maxSize, d}
          /\ \A y \in {maxSize, d} : Buffer!Min({maxSize, d}) =< y
      BY <3>2 DEF Buffer!Min
    <3> QED BY <1>2, <3>1, <3>3
  <2>7. Len(taken) >= Buffer!Min({maxSize, told' - told})
    <3>1. Len(taken) \in Nat /\ maxSize \in Nat /\ told' - told \in Int
      BY <1>2, <1>4, <2>1, <2>2
    <3> QED BY <2>5, <2>6, <3>1
  <2> QED BY <2>1, <2>3, <2>4, <2>7
<1>11. ASSUME ~lossy
       PROVE  Buffer!ToSet(queue) \subseteq Buffer!ToSet(queue') \cup Buffer!InTexts(texts')
  <2> SUFFICES ASSUME NEW i \in DOMAIN queue
               PROVE  queue[i] \in Buffer!ToSet(queue') \cup Buffer!InTexts(texts')
    BY DEF Buffer!ToSet
  <2>1. room = queue /\ i \in 1..Len(queue)
    BY <1>2, <1>3, <1>11, LenProperties, SMTT(60)
  <2>2. i + 1 \in 1..Len(q) /\ q[i + 1] = queue[i]
    <3>1. i \in 1..Len(room) /\ Len(room) \in Nat /\ Len(q) = Len(room) + 1
      BY <1>4, <2>1
    <3>2. q[i + 1] = room[i]
      BY <1>4, <3>1, ZenonT(60)
    <3> QED BY <2>1, <3>1, <3>2
  <2>3. CASE ~triggers
    <3>1. queue' = q /\ i + 1 \in DOMAIN q
      BY <1>1, <1>4, <2>2, <2>3, LenProperties
    <3> QED BY <2>2, <3>1 DEF Buffer!ToSet
  <2>4. CASE triggers
    <3> DEFINE taken == Buffer!Reverse(q)
               n == Len(q) - (i + 1) + 1
    <3>1. /\ taken \in Seq(Nat) /\ Len(taken) = Len(q) /\ DOMAIN taken = 1..Len(q)
          /\ \A l \in 1..Len(q) : taken[l] = q[Len(q) - l + 1]
      BY <1>4, ReverseFacts, LenProperties, ZenonT(60)
    <3>2. n \in 1..Len(q) /\ Len(q) - n + 1 = i + 1
      BY <1>4, <2>2, SMTT(150)
    <3>3. n \in DOMAIN taken /\ taken[n] = queue[i]
      BY <2>2, <3>1, <3>2, SMTT(150)
    <3>4. Len(texts \o first) + 1 \in DOMAIN texts' /\ texts'[Len(texts \o first) + 1] = taken
      <4>1. DOMAIN texts' = 1..Len(texts')
        BY <1>7, LenProperties
      <4>2. Len(second) = 1 /\ second[1] = taken
        BY <1>9, <2>4
      <4>3. texts'[Len(texts \o first) + 1] = second[1]
        BY <1>7, <4>2
      <4>4. Len(texts \o first) + 1 \in 1..Len(texts')
        BY <1>7, <4>2
      <4> QED BY <4>1, <4>2, <4>3, <4>4
    <3> HIDE DEF taken, n
    <3> QED BY <3>3, <3>4 DEF Buffer!InTexts, Buffer!ToSet
  <2> QED BY <2>3, <2>4
<1> QED BY <1>8, <1>10, <1>11 DEF Buffer!Tells

\* The other steps of the buffer.
LEMMA BufferKeeps ==
  ASSUME BufferInv, SinkTakesAll, Buffer!Next PROVE BufferInv' /\ Buffer!Tells
<1>1. CASE \E p \in Level : Buffer!DoAppend(p)
  BY <1>1, AppendTells
<1>2. CASE (\E b \in BOOLEAN : Buffer!SetLossy(b))
           \/ (\E p \in SinkThreshold : Buffer!SetSinkThreshold(p))
  <2>1. /\ UNCHANGED <<queue, maxSize, texts, events, told>>
        /\ sinkThreshold' \in SinkThreshold \cup {sinkThreshold}
    BY <1>2 DEF Buffer!SetLossy, Buffer!SetSinkThreshold
  <2>2. BufferInv'
    BY <2>1 DEF BufferInv
  <2> QED BY <2>1, <2>2 DEF Buffer!Tells
<1> QED BY <1>1, <1>2 DEF Buffer!Next

\* A buffer hands on, with the record that led to it, the records before it, and
\* loses none without lossy (BufferingAppender::_append and dump).
THEOREM BufferHandsOn == ASSUME SinkTakesAll PROVE MCSpec => BufferTells
<1>1. MCInit => BufferInv
  BY InitBufferInv DEF MCInit
<1>2. ASSUME BufferInv, [MailStep(Next) \/ OtherStep]_MCvars
      PROVE  BufferInv' /\ [Buffer!Tells]_(Buffer!vars)
  <2>1. UNCHANGED bufferVars \/ Buffer!Next
    BY <1>2 DEF MailStep, OtherStep, MCvars
  <2>2. CASE UNCHANGED bufferVars
    <3>1. UNCHANGED <<queue, maxSize, lossy, sinkThreshold, texts, events, told>>
      BY <2>2 DEF bufferVars
    <3> QED BY <1>2, <3>1 DEF BufferInv, Buffer!vars
  <2>3. CASE Buffer!Next
    BY <1>2, <2>3, BufferKeeps
  <2> QED BY <2>1, <2>2, <2>3
<1>3. BufferTells <=> [][Buffer!Tells]_(Buffer!vars)
  BY DEF BufferTells, Buffer!BufferTells
<1> QED BY <1>1, <1>2, <1>3, PTL DEF MCSpec

-----------------------------------------------------------------------------
(* The contexts of threads.                                                *)

Frames == [message : Message, fullMessage : Seq(Message)]

\* A stack stands for the messages that were entered: every entry has its own
\* message and the text of those up to it.
StandsFor(s, e) ==
    /\ Len(s) = Len(e)
    /\ \A i \in 1..Len(e) : s[i].message = e[i] /\ s[i].fullMessage = SubSeq(e, 1, i)

Entry(s, e) == s \in Seq(Frames) /\ e \in Seq(Message) /\ StandsFor(s, e)

\* Also the copies; and before the flag is set there is nothing anywhere.
ContextInv ==
    /\ isUsedNDC \in BOOLEAN
    /\ DOMAIN stack = Caller /\ DOMAIN entered = Caller
    /\ \A u \in Caller : Entry(stack[u], entered[u])
    /\ clone \in Seq(Seq(Frames)) /\ lent \in Seq(Seq(Message)) /\ Len(clone) = Len(lent)
    /\ \A i \in 1..Len(clone) : Entry(clone[i], lent[i])
    /\ ~isUsedNDC => /\ \A u \in Caller : stack[u] = <<>>
                     /\ \A i \in 1..Len(clone) : clone[i] = <<>>

\* What every entry knows of itself.
LEMMA EntryFacts ==
  ASSUME NEW s, NEW e, Entry(s, e)
  PROVE  /\ Len(e) \in Nat /\ Len(s) = Len(e)
         /\ DOMAIN s = 1..Len(e) /\ DOMAIN e = 1..Len(e)
         /\ s = <<>> <=> e = <<>>
         /\ e # <<>> <=> Len(e) # 0
         /\ Contexts!FullMessage(s) = e
<1>1. s \in Seq(Frames) /\ e \in Seq(Message) /\ Len(s) = Len(e)
  BY DEF Entry, StandsFor
<1>2. /\ Len(e) \in Nat /\ DOMAIN s = 1..Len(e) /\ DOMAIN e = 1..Len(e)
  BY <1>1, LenProperties
<1>3. (s # <<>> <=> Len(e) # 0) /\ (e # <<>> <=> Len(e) # 0)
  BY <1>1, <1>2, EmptySeq
<1>4. Contexts!FullMessage(s) = e
  <2>1. CASE s = <<>>
    BY <1>3, <2>1 DEF Contexts!FullMessage
  <2>2. CASE s # <<>>
    <3>1. Len(e) \in 1..Len(e) /\ s[Len(s)].fullMessage = SubSeq(e, 1, Len(e))
      BY <1>1, <1>2, <1>3, <2>2 DEF Entry, StandsFor
    <3>2. SubSeq(e, 1, Len(e)) = e
      BY <1>1, SubSeqFull
    <3> QED BY <2>2, <3>1, <3>2 DEF Contexts!FullMessage, Contexts!Last
  <2> QED BY <2>1, <2>2
<1> QED BY <1>1, <1>2, <1>3, <1>4

\* push.
LEMMA PushEntry ==
  ASSUME NEW s, NEW e, Entry(s, e), NEW m \in Message
  PROVE  Entry(Append(s, [message |-> m, fullMessage |-> Contexts!FullMessage(s) \o <<m>>]),
               Append(e, m))
<1> DEFINE frame == [message |-> m, fullMessage |-> Contexts!FullMessage(s) \o <<m>>]
           t1 == Append(s, frame)
           t2 == Append(e, m)
<1>1. s \in Seq(Frames) /\ e \in Seq(Message) /\ Len(s) = Len(e) /\ Len(e) \in Nat
  BY EntryFacts DEF Entry
<1>2. Contexts!FullMessage(s) \o <<m>> = t2
  BY <1>1, EntryFacts, AppendIsConcat, SMTT(60)
<1>3. /\ t2 \in Seq(Message) /\ Len(t2) = Len(e) + 1
      /\ \A i \in 1..Len(e) : t2[i] = e[i]
      /\ t2[Len(e) + 1] = m
  BY <1>1, AppendProperties
<1>4. frame \in Frames /\ frame.message = m /\ frame.fullMessage = t2
  BY <1>2, <1>3, ZenonT(60) DEF Frames
<1> HIDE DEF frame
<1>5. /\ t1 \in Seq(Frames) /\ Len(t1) = Len(s) + 1
      /\ \A i \in 1..Len(s) : t1[i] = s[i]
      /\ t1[Len(s) + 1] = frame
  BY <1>1, <1>4, AppendProperties
<1> HIDE DEF t1
<1>6. ASSUME NEW i \in 1..Len(t2)
      PROVE  t1[i].message = t2[i] /\ t1[i].fullMessage = SubSeq(t2, 1, i)
  <2>1. CASE i = Len(e) + 1
    <3>1. SubSeq(t2, 1, Len(t2)) = t2
      BY <1>3, SubSeqFull
    <3> QED BY <1>1, <1>3, <1>4, <1>5, <2>1, <3>1, ZenonT(60)
  <2>2. CASE i # Len(e) + 1
    <3>1. i \in 1..Len(e)
      BY <1>1, <1>3, <2>2
    <3>2. s[i].message = e[i] /\ s[i].fullMessage = SubSeq(e, 1, i)
      BY <3>1 DEF Entry, StandsFor
    <3>3. SubSeq(t2, 1, i) = SubSeq(e, 1, i)
      <4>1. t2 = e \o <<m>> /\ <<m>> \in Seq(Message)
        BY <1>1, AppendIsConcat
      <4>2. 1 \in 1..Len(e)
        BY <1>1, <3>1
      <4> QED BY <1>1, <3>1, <4>1, <4>2, SubSeqOfConcat1
    <3> QED BY <1>1, <1>3, <1>5, <3>1, <3>2, <3>3
  <2> QED BY <2>1, <2>2
<1> QED BY <1>1, <1>3, <1>5, <1>6, SMTT(60) DEF t1, frame, Entry, StandsFor

\* pop.
LEMMA PopEntry ==
  ASSUME NEW s, NEW e, Entry(s, e), s # <<>>
  PROVE  Entry(Contexts!Front(s), Contexts!Front(e))
<1> DEFINE n == Len(e) - 1
           t1 == SubSeq(s, 1, n)
           t2 == SubSeq(e, 1, n)
<1>1. /\ s \in Seq(Frames) /\ e \in Seq(Message) /\ Len(s) = Len(e) /\ Len(e) \in Nat \ {0}
      /\ n \in Nat /\ n < Len(e)
      /\ \A i \in 1..n : s[i] \in Frames /\ e[i] \in Message
  BY EntryFacts, ElementOfSeq DEF Entry
<1>2. Contexts!Front(s) = t1 /\ Contexts!Front(e) = t2
  BY <1>1 DEF Contexts!Front
<1>3. /\ t1 \in Seq(Frames) /\ Len(t1) = n /\ \A i \in 1..n : t1[i] = s[i]
      /\ t2 \in Seq(Message) /\ Len(t2) = n /\ \A i \in 1..n : t2[i] = e[i]
  <2>1. /\ t1 \in Seq(Frames) /\ Len(t1) = (IF 1 <= n THEN n - 1 + 1 ELSE 0)
        /\ \A i \in 1..(n - 1 + 1) : t1[i] = s[1 + i - 1]
    BY <1>1, SubSeqProperties
  <2>2. /\ t2 \in Seq(Message) /\ Len(t2) = (IF 1 <= n THEN n - 1 + 1 ELSE 0)
        /\ \A i \in 1..(n - 1 + 1) : t2[i] = e[1 + i - 1]
    BY <1>1, SubSeqProperties
  <2> QED BY <1>1, <2>1, <2>2
<1>4. ASSUME NEW i \in 1..n PROVE SubSeq(t2, 1, i) = SubSeq(e, 1, i)
  <2>1. /\ 1 \in 1..Len(e) /\ n \in 1..Len(e) /\ n - 1 + 1 = n
        /\ 1 \in 1..(n - 1 + 1) /\ i \in 1..(n - 1 + 1)
    BY <1>1
  <2>2. SubSeq(SubSeq(e, 1, n), 1, i) = SubSeq(e, 1 + 1 - 1, 1 + i - 1)
    BY <1>1, <2>1, SubSeqOfSubSeq
  <2>3. 1 + 1 - 1 = 1 /\ 1 + i - 1 = i
    OBVIOUS
  <2> QED BY <2>2, <2>3
<1> HIDE DEF t1, t2
<1>5. ASSUME NEW i \in 1..n
      PROVE  t1[i].message = t2[i] /\ t1[i].fullMessage = SubSeq(t2, 1, i)
  <2>1. i \in 1..Len(e)
    BY <1>1
  <2> QED BY <1>3, <1>4, <2>1, SMTT(60) DEF Entry, StandsFor
<1> QED BY <1>2, <1>3, <1>5 DEF Entry, StandsFor

\* Nothing entered.
LEMMA EmptyEntry == Entry(<<>>, <<>>)
<1>1. <<>> \in Seq(Frames) /\ <<>> \in Seq(Message) /\ Len(<<>>) = 0
  BY EmptySeq
<1> QED BY <1>1 DEF Entry, StandsFor

\* A thread does something to its stack, and to no other.
LEMMA StackKeeps ==
  ASSUME ContextInv, NEW u \in Caller, NEW s, NEW e, Entry(s, e),
         stack' = [stack EXCEPT ![u] = s], entered' = [entered EXCEPT ![u] = e],
         isUsedNDC' = TRUE \/ (isUsedNDC' = isUsedNDC /\ (~isUsedNDC => s = <<>>)),
         UNCHANGED <<clone, lent>>
  PROVE  ContextInv'
<1>1. /\ DOMAIN stack' = Caller /\ DOMAIN entered' = Caller
      /\ \A v \in Caller : /\ stack'[v] = IF v = u THEN s ELSE stack[v]
                           /\ entered'[v] = IF v = u THEN e ELSE entered[v]
  BY DEF ContextInv
<1>2. \A v \in Caller : Entry(stack'[v], entered'[v])
  BY <1>1 DEF ContextInv
<1>3. isUsedNDC' \in BOOLEAN
  BY Zenon DEF ContextInv
<1>4. ~isUsedNDC' => \A v \in Caller : stack'[v] = <<>>
  BY <1>1 DEF ContextInv
<1>5. ~isUsedNDC' => ~isUsedNDC
  BY DEF ContextInv
<1> QED BY <1>1, <1>2, <1>3, <1>4, <1>5 DEF ContextInv

\* Every step keeps it.
LEMMA ContextKeeps == ASSUME ContextInv, Contexts!Next PROVE ContextInv'
<1>1. PICK u \in Caller : \/ \E m \in Message : Contexts!Push(u, m)
                          \/ Contexts!Pop(u) \/ Contexts!Clear(u)
                          \/ Contexts!CloneStack(u) \/ Contexts!Inherit(u)
  BY DEF Contexts!Next
<1>2. Entry(stack[u], entered[u]) /\ DOMAIN stack = Caller /\ DOMAIN entered = Caller
  BY DEF ContextInv
<1>3. CASE \E m \in Message : Contexts!Push(u, m)
  <2>1. PICK m \in Message : Contexts!Push(u, m)
    BY <1>3
  <2> DEFINE s == Append(stack[u], [message |-> m,
                                    fullMessage |-> Contexts!FullMessage(stack[u]) \o <<m>>])
             e == Append(entered[u], m)
  <2>2. /\ stack' = [stack EXCEPT ![u] = s] /\ entered' = [entered EXCEPT ![u] = e]
        /\ isUsedNDC' = TRUE /\ UNCHANGED <<clone, lent>>
    BY <1>2, <2>1 DEF Contexts!Push
  <2>3. Entry(s, e)
    BY <1>2, PushEntry
  <2> HIDE DEF s, e
  <2> QED BY <2>2, <2>3, StackKeeps, ZenonT(60)
<1>4. CASE Contexts!Pop(u)
  <2>1. CASE stack[u] # <<>>
    <3>1. /\ stack' = [stack EXCEPT ![u] = Contexts!Front(stack[u])]
          /\ entered' = [entered EXCEPT ![u] = Contexts!Front(entered[u])]
          /\ isUsedNDC' = isUsedNDC /\ UNCHANGED <<clone, lent>>
      BY <1>2, <1>4, <2>1 DEF Contexts!Pop
    <3>2. Entry(Contexts!Front(stack[u]), Contexts!Front(entered[u]))
      BY <1>2, <2>1, PopEntry
    <3>3. isUsedNDC
      BY <2>1 DEF ContextInv
    <3> QED BY <3>1, <3>2, <3>3, StackKeeps, ZenonT(60)
  <2>2. CASE stack[u] = <<>>
    BY <1>4, <2>2 DEF Contexts!Pop
  <2> QED BY <2>1, <2>2
<1>5. CASE Contexts!Clear(u)
  <2>1. /\ stack' = [stack EXCEPT ![u] = <<>>] /\ entered' = [entered EXCEPT ![u] = <<>>]
        /\ isUsedNDC' = isUsedNDC /\ UNCHANGED <<clone, lent>>
    BY <1>5 DEF Contexts!Clear
  <2> QED BY <2>1, EmptyEntry, StackKeeps, ZenonT(60)
<1>6. CASE Contexts!CloneStack(u)
  <2> DEFINE s == stack[u]
             e == entered[u]
  <2>1. /\ clone' = Append(clone, s) /\ lent' = Append(lent, e)
        /\ UNCHANGED <<isUsedNDC, stack, entered>>
    BY <1>6 DEF Contexts!CloneStack
  <2>2. s \in Seq(Frames) /\ e \in Seq(Message)
    BY <1>2 DEF Entry
  <2>3. /\ clone' \in Seq(Seq(Frames)) /\ Len(clone') = Len(clone) + 1
        /\ \A i \in 1..Len(clone) : clone'[i] = clone[i]
        /\ clone'[Len(clone) + 1] = s /\ Len(clone) \in Nat
    BY <2>1, <2>2, AppendProperties, LenProperties DEF ContextInv
  <2>4. /\ lent' \in Seq(Seq(Message)) /\ Len(lent') = Len(lent) + 1
        /\ \A i \in 1..Len(lent) : lent'[i] = lent[i]
        /\ lent'[Len(lent) + 1] = e /\ Len(lent) = Len(clone)
    BY <2>1, <2>2, AppendProperties, LenProperties DEF ContextInv
  <2>5. \A i \in 1..Len(clone') : i \in 1..Len(clone) \/ i = Len(clone) + 1
    BY <2>3
  <2>6. \A i \in 1..Len(clone') : Entry(clone'[i], lent'[i])
    BY <1>2, <2>3, <2>4, <2>5, ZenonT(60) DEF ContextInv
  <2>7. ~isUsedNDC => s = <<>>
    BY DEF ContextInv
  <2>8. ~isUsedNDC => \A i \in 1..Len(clone') : clone'[i] = <<>>
    BY <2>3, <2>5, <2>7, ZenonT(60) DEF ContextInv
  <2> QED BY <2>1, <2>3, <2>4, <2>6, <2>8, ZenonT(60) DEF ContextInv
<1>7. CASE Contexts!Inherit(u)
  <2>1. PICK i \in DOMAIN clone :
           /\ stack' = [stack EXCEPT ![u] = clone[i]]
           /\ entered' = [entered EXCEPT ![u] = lent[i]]
           /\ isUsedNDC' = isUsedNDC /\ UNCHANGED <<clone, lent>>
    BY <1>7, ZenonT(60) DEF Contexts!Inherit
  <2>2. i \in 1..Len(clone)
    BY LenProperties DEF ContextInv
  <2>3. Entry(clone[i], lent[i]) /\ (~isUsedNDC => clone[i] = <<>>)
    BY <2>2 DEF ContextInv
  <2> QED BY <2>1, <2>3, StackKeeps, ZenonT(60)
<1> QED BY <1>1, <1>3, <1>4, <1>5, <1>6, <1>7

\* A record carries the contexts its thread has entered and not left, or those
\* of the thread it has inherited from (NDC::get, push, pop and inherit).
THEOREM ContextsAreOwn == MCSpec => []Contexts!ContextsOwn
<1>1. MCInit => ContextInv
  <2> SUFFICES ASSUME MCInit PROVE ContextInv
    OBVIOUS
  <2>1. /\ isUsedNDC = FALSE /\ stack = [u \in Caller |-> <<>>] /\ clone = <<>>
        /\ entered = [u \in Caller |-> <<>>] /\ lent = <<>>
    BY DEF MCInit, Contexts!Init
  <2>2. /\ clone \in Seq(Seq(Frames)) /\ lent \in Seq(Seq(Message))
        /\ Len(clone) = 0 /\ Len(lent) = 0
    BY <2>1, EmptySeq
  <2>3. \A u \in Caller : Entry(stack[u], entered[u]) /\ stack[u] = <<>>
    BY <2>1, EmptyEntry
  <2>4. 1..Len(clone) = {}
    BY <2>2
  <2>5. DOMAIN stack = Caller /\ DOMAIN entered = Caller /\ isUsedNDC \in BOOLEAN
    BY <2>1, ZenonT(60)
  <2> QED BY <2>2, <2>3, <2>4, <2>5 DEF ContextInv
<1>2. ContextInv /\ [MailStep(Next) \/ OtherStep]_MCvars => ContextInv'
  <2> SUFFICES ASSUME ContextInv, [MailStep(Next) \/ OtherStep]_MCvars PROVE ContextInv'
    OBVIOUS
  <2>1. UNCHANGED contextVars \/ Contexts!Next
    BY DEF MailStep, OtherStep, MCvars
  <2>2. CASE UNCHANGED contextVars
    BY <2>2 DEF contextVars, ContextInv
  <2> QED BY <2>1, <2>2, ContextKeeps
<1>3. ContextInv => Contexts!ContextsOwn
  <2> SUFFICES ASSUME ContextInv, NEW u \in Caller
               PROVE  /\ Contexts!Get(u) = entered[u]
                      /\ Len(stack[u]) = Len(entered[u])
                      /\ \A i \in DOMAIN entered[u] : stack[u][i].message = entered[u][i]
    BY DEF Contexts!ContextsOwn
  <2>1. Entry(stack[u], entered[u])
    BY DEF ContextInv
  <2>2. Contexts!Get(u) = entered[u]
    <3>1. CASE isUsedNDC
      BY <2>1, <3>1, EntryFacts DEF Contexts!Get
    <3>2. CASE ~isUsedNDC
      BY <2>1, <3>2, EntryFacts DEF Contexts!Get, ContextInv
    <3> QED BY <3>1, <3>2
  <2> QED BY <2>1, <2>2, EntryFacts, ZenonT(60) DEF Entry, StandsFor
<1> QED BY <1>1, <1>2, <1>3, PTL DEF MCSpec

-----------------------------------------------------------------------------
(* The packets of a record.                                                *)

Chars == {"text", "priority"} \X Int
Marks == {"priority"} \X Int

\* How much of the record has left.
Gone == Len(record) - left

\* Packet q brings some of the first n characters of the record, behind m.
Brings(q, m, n) ==
    /\ Len(q) =< MaxPacket /\ 1 \in DOMAIN q /\ q[1] = m
    /\ \E i \in DOMAIN q : \E a \in 1..n : q[i] = Syslog!Text(a)
    /\ \A i \in DOMAIN q : q[i] = m \/ \E a \in 1..n : q[i] = Syslog!Text(a)

\* Packets that bring the first n characters of the record, in order.
Complete(ps, n) ==
    \A a \in 1..n : \E g \in DOMAIN ps : \E i \in DOMAIN ps[g] : ps[g][i] = Syslog!Text(a)
Ordered(ps) ==
    \A g, h \in DOMAIN ps : \A i \in DOMAIN ps[g], e \in DOMAIN ps[h] : \A a, b \in Nat :
       (g < h \/ (g = h /\ i < e)) /\ ps[g][i] = Syslog!Text(a) /\ ps[h][e] = Syslog!Text(b)
       => a < b

\* All that has left was sent, behind the same priority as the rest, and in order.
SentSound ==
    /\ \E m \in Marks :
          /\ left > 0 => \A i \in 1..(Len(buf) - left) : buf[i] = m
          /\ \A g \in DOMAIN packets : Brings(packets[g], m, Gone)
    /\ Complete(packets, Gone) /\ Ordered(packets)

\* The buffer: the priority, at most five characters of it, and the rest.
BufSound ==
    left > 0 =>
       /\ Len(buf) - left \in 1..5
       /\ \A i \in (Len(buf) - left + 1)..Len(buf) :
             buf[i] = Syslog!Text(Len(record) - Len(buf) + i)

\* The appender has one socket at most, and never descriptor 0.
SocketSound ==
    /\ open \subseteq Nat \cap {socket} /\ 0 \notin open /\ (~up => open = {})
    /\ facility \in -99..992

SyslogInv ==
    /\ buf \in Seq(Chars) /\ packets \in Seq(Seq(Chars))
    /\ Len(record) \in Nat /\ left \in 0..Len(record)
    /\ record = [a \in 1..Len(record) |-> Syslog!Text(a)]
    /\ SentSound /\ BufSound /\ SocketSound

\* What tells the characters of a record apart, from each other and from a priority.
LEMMA TextFacts ==
  /\ \A a \in Nat : /\ Syslog!Text(a) \in Chars /\ Syslog!Text(a) \notin Marks
                    /\ Syslog!Text(a)[1] = "text" /\ Syslog!Text(a)[2] = a
  /\ \A a, b \in Nat : Syslog!Text(a) = Syslog!Text(b) => a = b
  /\ \A m \in Marks : m \in Chars /\ m[1] = "priority"
BY DEF Syslog!Text, Chars, Marks

\* One more packet, of p characters of the priority and the next of the record.
LEMMA AppendPacket ==
  ASSUME NEW ps \in Seq(Seq(Chars)), NEW m \in Marks, NEW n \in Nat,
         \A g \in DOMAIN ps : Brings(ps[g], m, n), Complete(ps, n), Ordered(ps),
         NEW q \in Seq(Chars), NEW p \in Nat, 0 < p, p < Len(q), Len(q) =< MaxPacket,
         \A i \in 1..p : q[i] = m,
         \A i \in (p + 1)..Len(q) : q[i] = Syslog!Text(n + i - p)
  PROVE  /\ \A g \in DOMAIN Append(ps, q) : Brings(Append(ps, q)[g], m, n + Len(q) - p)
         /\ Complete(Append(ps, q), n + Len(q) - p) /\ Ordered(Append(ps, q))
<1> DEFINE ts == Append(ps, q)
           z == n + Len(q) - p
<1>1. /\ DOMAIN ps = 1..Len(ps) /\ DOMAIN ts = 1..(Len(ps) + 1) /\ Len(ps) \in Nat
      /\ \A g \in 1..Len(ps) : ts[g] = ps[g]
      /\ ts[Len(ps) + 1] = q
  BY AppendProperties, LenProperties
<1>2. DOMAIN q = 1..Len(q) /\ Len(q) \in Nat /\ z \in Nat /\ n < z
  BY LenProperties
<1> HIDE DEF ts, z
<1>3. Brings(q, m, z)
  <2>1. p + 1 \in DOMAIN q /\ q[p + 1] = Syslog!Text(n + 1) /\ n + 1 \in 1..z
    <3>1. p + 1 \in (p + 1)..Len(q) /\ n + (p + 1) - p = n + 1
      BY <1>2
    <3> QED BY <1>2, <3>1
  <2>2. ASSUME NEW i \in DOMAIN q PROVE q[i] = m \/ \E a \in 1..z : q[i] = Syslog!Text(a)
    <3>1. CASE i \in 1..p
      BY <3>1
    <3>2. CASE i \in (p + 1)..Len(q)
      <4>1. n + i - p \in 1..z
        BY <1>2, <3>2 DEF z
      <4> QED BY <3>2, <4>1
    <3> QED BY <1>2, <3>1, <3>2
  <2>3. 1 \in DOMAIN q /\ q[1] = m
    BY <1>2
  <2> QED BY <2>1, <2>2, <2>3 DEF Brings
<1>4. ASSUME NEW g \in DOMAIN ts PROVE Brings(ts[g], m, z)
  <2>1. CASE g \in 1..Len(ps)
    <3>1. Brings(ps[g], m, n) /\ 1..n \subseteq 1..z
      BY <1>1, <1>2, <2>1
    <3> QED BY <1>1, <2>1, <3>1, SMTT(60) DEF Brings
  <2>2. CASE g = Len(ps) + 1
    BY <1>1, <1>3, <2>2
  <2> QED BY <1>1, <2>1, <2>2
<1>5. Complete(ts, z)
  <2> SUFFICES ASSUME NEW a \in 1..z
               PROVE  \E g \in DOMAIN ts : \E i \in DOMAIN ts[g] : ts[g][i] = Syslog!Text(a)
    BY DEF Complete
  <2>1. CASE a =< n
    <3>1. PICK g \in DOMAIN ps : \E i \in DOMAIN ps[g] : ps[g][i] = Syslog!Text(a)
      BY <2>1 DEF Complete
    <3>2. g \in DOMAIN ts /\ ts[g] = ps[g]
      BY <1>1
    <3> QED BY <3>1, <3>2
  <2>2. CASE n < a
    <3>1. a - n + p \in (p + 1)..Len(q) /\ n + (a - n + p) - p = a
      BY <1>2, <2>2 DEF z
    <3>2. Len(ps) + 1 \in DOMAIN ts /\ a - n + p \in DOMAIN q
      BY <1>1, <1>2, <3>1
    <3> QED BY <1>1, <3>1, <3>2, ZenonT(60)
  <2> QED BY <1>2, <2>1, <2>2
<1>6. ASSUME NEW i \in DOMAIN q, NEW a \in Nat, q[i] = Syslog!Text(a)
      PROVE  a = n + i - p /\ i > p
  <2>1. i \notin 1..p
    BY <1>6, TextFacts, ZenonT(60)
  <2>2. i \in (p + 1)..Len(q)
    BY <1>2, <2>1
  <2>3. n + i - p \in Nat
    BY <2>2
  <2> QED BY <1>6, <2>2, <2>3, TextFacts, SMTT(60)
<1>7. ASSUME NEW g \in DOMAIN ps, NEW i \in DOMAIN ps[g], NEW a \in Nat,
             ps[g][i] = Syslog!Text(a)
      PROVE  a =< n
  <2>1. ps[g][i] # m
    BY <1>7, TextFacts
  <2>2. PICK b \in 1..n : ps[g][i] = Syslog!Text(b)
    BY <2>1 DEF Brings
  <2>3. b \in Nat /\ b =< n
    BY <2>2
  <2> QED BY <1>7, <2>2, <2>3, TextFacts, ZenonT(60)
<1>8. Ordered(ts)
  <2> SUFFICES ASSUME NEW g \in DOMAIN ts, NEW h \in DOMAIN ts,
                      NEW i \in DOMAIN ts[g], NEW e \in DOMAIN ts[h],
                      NEW a \in Nat, NEW b \in Nat, g < h \/ (g = h /\ i < e),
                      ts[g][i] = Syslog!Text(a), ts[h][e] = Syslog!Text(b)
               PROVE  a < b
    BY DEF Ordered
  <2>1. CASE h \in 1..Len(ps)
    <3>1. g \in 1..Len(ps)
      BY <1>1, <2>1, SMTT(60)
    <3>2. /\ g \in DOMAIN ps /\ h \in DOMAIN ps /\ i \in DOMAIN ps[g] /\ e \in DOMAIN ps[h]
          /\ ps[g][i] = Syslog!Text(a) /\ ps[h][e] = Syslog!Text(b)
      BY <1>1, <2>1, <3>1
    <3> QED BY <3>2, SMTT(60) DEF Ordered
  <2>2. CASE h = Len(ps) + 1 /\ g \in 1..Len(ps)
    <3>1. a =< n
      BY <1>1, <1>7, <2>2
    <3>2. e \in DOMAIN q /\ b = n + e - p /\ e > p
      BY <1>1, <1>6, <2>2
    <3> QED BY <1>2, <3>1, <3>2
  <2>3. CASE h = Len(ps) + 1 /\ g = h
    <3>1. i \in DOMAIN q /\ e \in DOMAIN q /\ a = n + i - p /\ b = n + e - p
      BY <1>1, <1>6, <2>3
    <3> QED BY <1>1, <1>2, <2>3, <3>1, SMTT(150)
  <2> QED BY <1>1, <2>1, <2>2, <2>3, SMTT(60)
<1> QED BY <1>4, <1>5, <1>8 DEF ts, z

\* The lowest free descriptor is one of the free ones.
LEMMA LowestIsIn == ASSUME NEW S, S \subseteq Nat, S # {} PROVE Syslog!MinOf(S) \in S
<1>1. PICK a \in S : \A b \in S : ~(b < a)
  <2>1. PICK x \in S : \A y \in S : <<y, x>> \notin OpToRel(<, Nat)
    BY NatLessThanWellFounded, WFMin, Zenon
  <2>2. \A y \in S : ~(y < x)
    BY <2>1, Zenon DEF OpToRel
  <2> QED BY <2>2
<1>2. a \in Nat /\ S \subseteq Nat
  OBVIOUS
<1>3. \A b \in S : a =< b
  BY <1>1, <1>2
<1> QED BY <1>3, ZenonT(60) DEF Syslog!MinOf

\* Opening when no socket is open.
LEMMA OpenedSound ==
  ASSUME open \subseteq Nat, 0 \notin open, Syslog!Opened({})
  PROVE  open' \subseteq Nat \cap {socket'} /\ 0 \notin open'
<1> DEFINE free == Syslog!Free \cup open
<1>1. free \subseteq Nat \ {0}
  BY PacketAssumption DEF Syslog!Free
<1>2. \/ open' = {}
      \/ free # {} /\ socket' = Syslog!MinOf(free) /\ open' = {socket'}
  BY DEF Syslog!Opened
<1> HIDE DEF free
<1>3. free # {} => Syslog!MinOf(free) \in free
  BY <1>1, LowestIsIn, ZenonT(60)
<1> QED BY <1>1, <1>2, <1>3, ZenonT(60)

\* Opening and closing do not touch a record.
LEMMA SocketKeeps ==
  ASSUME SyslogInv, Syslog!Construct \/ Syslog!Reopen \/ Syslog!Close \/ Syslog!Destroy
  PROVE  SyslogInv'
<1>1. UNCHANGED <<buf, left, record, packets>>
  BY DEF Syslog!Construct, Syslog!Reopen, Syslog!Close, Syslog!Destroy
<1>2. SentSound' /\ BufSound'
  BY <1>1 DEF SyslogInv, SentSound, BufSound, Gone
<1>3. Syslog!Closed(open) = {}
  BY DEF SyslogInv, SocketSound, Syslog!Closed
<1>4. SocketSound'
  <2>1. CASE Syslog!Construct
    <3>1. up' = TRUE /\ facility' \in -99..992 /\ Syslog!Opened(open) /\ open = {}
      BY <2>1, PacketAssumption, SMTT(60) DEF Syslog!Construct, SyslogInv, SocketSound, Syslog!LOG_USER
    <3> QED BY <3>1, OpenedSound DEF SyslogInv, SocketSound
  <2>2. CASE Syslog!Reopen
    <3>1. up /\ up' = up /\ facility' = facility /\ Syslog!Opened({})
      BY <1>3, <2>2 DEF Syslog!Reopen
    <3> QED BY <3>1, OpenedSound DEF SyslogInv, SocketSound
  <2>3. CASE Syslog!Close \/ Syslog!Destroy
    <3>1. open' = {} /\ facility' = facility
      BY <1>3, <2>3 DEF Syslog!Close, Syslog!Destroy
    <3> QED BY <3>1 DEF SyslogInv, SocketSound
  <2> QED BY <2>1, <2>2, <2>3
<1> QED BY <1>1, <1>2, <1>4 DEF SyslogInv

\* A priority and its brackets.
LEMMA PreambleFacts ==
  ASSUME facility \in -99..992, NEW p \in RecordPriority
  PROVE  \E m \in Marks : \E d \in 1..5 : Syslog!Preamble(p) = [i \in 1..d |-> m]
<1> DEFINE n == facility + Syslog!ToSyslogPriority(p)
<1>1. n \in Int
  <2>1. p \in Int /\ (p + 1) \div 100 \in Int
    BY PacketAssumption
  <2> QED BY <2>1 DEF Syslog!ToSyslogPriority
<1>2. Syslog!Mark(n) \in Marks
  BY <1>1 DEF Syslog!Mark, Marks
<1>3. Syslog!DigitsOf(n) + 2 \in 1..5
  BY <1>1 DEF Syslog!DigitsOf
<1> QED BY <1>2, <1>3, Zenon, ZenonT(60) DEF Syslog!Preamble

\* A record comes in.
LEMMA RecordKeeps == ASSUME SyslogInv, Syslog!Log PROVE SyslogInv'
<1>1. PICK n \in 0..MaxRecord : \E p \in RecordPriority :
         /\ record' = [a \in 1..n |-> Syslog!Text(a)]
         /\ buf' = Syslog!Preamble(p) \o record' /\ left' = n
  BY ZenonT(60) DEF Syslog!Log
<1>2. PICK p \in RecordPriority : buf' = Syslog!Preamble(p) \o record'
  BY <1>1
<1>3. /\ packets' = <<>> /\ UNCHANGED <<up, open, socket, facility>>
  BY DEF Syslog!Log
<1>4. PICK m \in Marks, d \in 1..5 : Syslog!Preamble(p) = [i \in 1..d |-> m]
  BY PreambleFacts DEF SyslogInv, SocketSound
<1> DEFINE r == [a \in 1..n |-> Syslog!Text(a)]
           s == [i \in 1..d |-> m]
<1>5. n \in Nat /\ d \in Nat
  BY <1>1
<1>6. /\ r \in Seq(Chars) /\ Len(r) = n
  <2>1. r \in [1..n -> Chars]
    BY <1>5, TextFacts
  <2>2. r \in Seq(Chars)
    BY <1>5, <2>1, SeqDef
  <2> QED BY <1>5, <2>1, <2>2, LenProperties
<1>7. s \in Seq(Chars) /\ Len(s) = d
  <2>1. s \in [1..d -> Chars]
    BY <1>5, TextFacts
  <2>2. s \in Seq(Chars)
    BY <1>5, <2>1, SeqDef
  <2> QED BY <1>5, <2>1, <2>2, LenProperties
<1>8. /\ record' = r /\ left' = n /\ buf' = s \o r
      /\ \A a \in 1..n : r[a] = Syslog!Text(a)
      /\ \A i \in 1..d : s[i] = m
  BY <1>1, <1>2, <1>4, SMTT(60)
<1> HIDE DEF r, s
<1>9. /\ buf' \in Seq(Chars) /\ Len(buf') = d + n
      /\ \A i \in 1..(d + n) : buf'[i] = IF i =< d THEN s[i] ELSE r[i - d]
  BY <1>6, <1>7, <1>8, ConcatProperties, ZenonT(60)
<1>10. Len(buf') - left' = d /\ Gone' = 0 /\ Len(record') = n
  BY <1>5, <1>6, <1>8, <1>9 DEF Gone
<1>11. SentSound'
  <2>1. packets' \in Seq(Seq(Chars)) /\ DOMAIN packets' = {}
    BY <1>3, EmptySeq
  <2>2. \A i \in 1..(Len(buf') - left') : buf'[i] = m
    BY <1>5, <1>8, <1>9, <1>10
  <2>3. Complete(packets', Gone') /\ Ordered(packets')
    BY <1>10, <2>1 DEF Complete, Ordered
  <2> QED BY <2>1, <2>2, <2>3 DEF SentSound
<1>12. BufSound'
  <2>1. ASSUME NEW i \in (d + 1)..(d + n) PROVE buf'[i] = Syslog!Text(i - d)
    <3>1. i \in 1..(d + n) /\ ~(i =< d) /\ i - d \in 1..n
      BY <1>5, <2>1
    <3> QED BY <1>8, <1>9, <3>1, ZenonT(60)
  <2>2. \A i \in (d + 1)..(d + n) : n - (d + n) + i = i - d
    BY <1>5
  <2> QED BY <1>4, <1>8, <1>9, <1>10, <2>1, <2>2, SMTT(60) DEF BufSound
<1>13. /\ left' \in 0..Len(record') /\ Len(record') \in Nat
       /\ record' = [a \in 1..Len(record') |-> Syslog!Text(a)]
  BY <1>1, <1>5, <1>10
<1>14. packets' \in Seq(Seq(Chars)) /\ SocketSound'
  BY <1>3, EmptySeq, SMTT(60) DEF SyslogInv, SocketSound
<1> QED BY <1>9, <1>11, <1>12, <1>13, <1>14 DEF SyslogInv

\* A packet is sent, the last or not.
LEMMA PacketKeeps ==
  ASSUME SyslogInv, left > 0, NEW q \in Seq(Chars), packets' = Append(packets, q),
         record' = record, left' \in 0..left, left > left',
         Len(q) =< MaxPacket, Len(q) = Len(buf) - left',
         \A i \in 1..Len(q) : q[i] = buf[i],
         left' > 0 => \A i \in 1..(Len(buf') - left') :
                         i \in 1..(Len(buf) - left) /\ buf'[i] = buf[i]
  PROVE  SentSound' /\ packets' \in Seq(Seq(Chars))
<1> DEFINE p == Len(buf) - left
<1>1. /\ p \in 1..5 /\ Len(buf) \in Nat /\ left \in Nat /\ Len(record) \in Nat
      /\ left' \in Nat /\ Gone \in Nat /\ p < Len(q) /\ Len(q) =< Len(buf) /\ Len(q) \in Nat
  BY LenProperties, SMTT(60) DEF SyslogInv, BufSound, Gone
<1>2. PICK m \in Marks : /\ \A i \in 1..p : buf[i] = m
                         /\ \A g \in DOMAIN packets : Brings(packets[g], m, Gone)
  BY ZenonT(60) DEF SyslogInv, SentSound
<1>3. \A i \in 1..p : q[i] = m
  BY <1>1, <1>2, SMTT(60)
<1>4. ASSUME NEW i \in (p + 1)..Len(q) PROVE q[i] = Syslog!Text(Gone + i - p)
  <2>1. i \in 1..Len(q) /\ i \in (p + 1)..Len(buf)
    BY <1>1, SMTT(150)
  <2>2. buf[i] = Syslog!Text(Len(record) - Len(buf) + i)
    BY <2>1 DEF SyslogInv, BufSound
  <2>3. Len(record) - Len(buf) + i = Gone + i - p
    BY <1>1, <2>1 DEF Gone
  <2> QED BY <2>1, <2>2, <2>3
<1>5. Gone' = Gone + Len(q) - p
  BY <1>1, SMTT(60) DEF Gone
<1>6. /\ packets \in Seq(Seq(Chars)) /\ Complete(packets, Gone) /\ Ordered(packets)
  BY DEF SyslogInv, SentSound
<1>7. /\ \A g \in DOMAIN packets' : Brings(packets'[g], m, Gone')
      /\ Complete(packets', Gone') /\ Ordered(packets')
  <2> HIDE DEF p
  <2>1. p \in Nat /\ 0 < p
    BY <1>1, SMTT(60)
  <2> QED BY <1>1, <1>2, <1>3, <1>4, <1>5, <1>6, <2>1, AppendPacket, ZenonT(60)
<1>8. left' > 0 => \A i \in 1..(Len(buf') - left') : buf'[i] = m
  BY <1>2, ZenonT(60)
<1>9. packets' \in Seq(Seq(Chars))
  BY <1>6, AppendProperties
<1> QED BY <1>7, <1>8, <1>9 DEF SentSound

\* A part of a record is sent, and the rest moved behind the priority.
LEMMA PartKeeps == ASSUME SyslogInv, Syslog!SendsPart PROVE SyslogInv'
<1> DEFINE p == Len(buf) - left
           q == SubSeq(buf, 1, MaxPacket)
           front == SubSeq(buf, 1, p)
           back == SubSeq(buf, MaxPacket + 1, Len(buf))
<1>1. /\ left > 0 /\ Len(buf) > MaxPacket /\ packets' = Append(packets, q)
      /\ buf' = front \o back /\ left' = left - (MaxPacket - p)
      /\ UNCHANGED <<up, open, socket, facility, record>>
  BY DEF Syslog!SendsPart
<1>2. /\ p \in 1..5 /\ Len(buf) \in Nat /\ left \in Nat /\ Len(record) \in Nat
      /\ MaxPacket \in Nat /\ MaxPacket > 5 /\ left =< Len(record) /\ buf \in Seq(Chars)
      /\ \A i \in (p + 1)..Len(buf) : buf[i] = Syslog!Text(Len(record) - Len(buf) + i)
  BY <1>1, LenProperties, PacketAssumption, SMTT(60) DEF SyslogInv, BufSound
<1>3. \A i \in 1..Len(buf) : buf[i] \in Chars
  BY <1>2, ElementOfSeq
<1>4. /\ q \in Seq(Chars) /\ Len(q) = MaxPacket
      /\ \A i \in 1..MaxPacket : q[i] = buf[i]
  <2>1. \A i \in 1..MaxPacket : buf[i] \in Chars
    BY <1>1, <1>2, <1>3
  <2>2. /\ q \in Seq(Chars) /\ Len(q) = MaxPacket
        /\ \A i \in 1..(MaxPacket - 1 + 1) : q[i] = buf[1 + i - 1]
    BY <1>2, <2>1, SubSeqProperties
  <2> QED BY <1>2, <2>2
<1>5. /\ front \in Seq(Chars) /\ Len(front) = p
      /\ \A i \in 1..p : front[i] = buf[i]
  <2>1. \A i \in 1..p : buf[i] \in Chars
    BY <1>1, <1>2, <1>3
  <2>2. /\ front \in Seq(Chars) /\ Len(front) = p
        /\ \A i \in 1..(p - 1 + 1) : front[i] = buf[1 + i - 1]
    BY <1>2, <2>1, SubSeqProperties
  <2> HIDE DEF p, front
  <2>3. ASSUME NEW i \in 1..p PROVE front[i] = buf[i]
    <3>1. i \in 1..(p - 1 + 1) /\ 1 + i - 1 = i
      BY <1>2
    <3> QED BY <2>2, <3>1
  <2> QED BY <2>2, <2>3
<1>6. /\ back \in Seq(Chars) /\ Len(back) = Len(buf) - MaxPacket
      /\ \A i \in 1..(Len(buf) - MaxPacket) : back[i] = buf[MaxPacket + i]
  <2>1. \A i \in (MaxPacket + 1)..Len(buf) : buf[i] \in Chars
    BY <1>2, <1>3
  <2>2. /\ back \in Seq(Chars)
        /\ Len(back) = IF MaxPacket + 1 =< Len(buf) THEN Len(buf) - (MaxPacket + 1) + 1 ELSE 0
        /\ \A i \in 1..(Len(buf) - (MaxPacket + 1) + 1) : back[i] = buf[MaxPacket + 1 + i - 1]
    BY <1>2, <2>1, SubSeqProperties
  <2>3. ASSUME NEW i \in 1..(Len(buf) - MaxPacket) PROVE back[i] = buf[MaxPacket + i]
    <3>1. i \in 1..(Len(buf) - (MaxPacket + 1) + 1) /\ MaxPacket + 1 + i - 1 = MaxPacket + i
      BY <1>2
    <3> QED BY <2>2, <3>1
  <2> QED BY <1>1, <1>2, <2>2, <2>3
<1> HIDE DEF q, front, back
<1>7. /\ buf' \in Seq(Chars) /\ Len(buf') = p + (Len(buf) - MaxPacket)
      /\ \A i \in 1..(p + (Len(buf) - MaxPacket)) :
            buf'[i] = IF i =< p THEN front[i] ELSE back[i - p]
  <2> HIDE DEF p
  <2>1. /\ front \o back \in Seq(Chars) /\ Len(front \o back) = Len(front) + Len(back)
        /\ \A i \in 1..(Len(front) + Len(back)) :
              (front \o back)[i] = IF i =< Len(front) THEN front[i] ELSE back[i - Len(front)]
    BY <1>5, <1>6, ConcatProperties, ZenonT(60)
  <2> QED BY <1>1, <1>5, <1>6, <2>1, SMTT(60)
<1>8. /\ left' = Len(buf) - MaxPacket /\ left' \in 0..left /\ left > left' /\ left' > 0
      /\ Len(buf') - left' = p
  BY <1>1, <1>2, <1>7, SMTT(150)
<1>9. ASSUME NEW i \in 1..p PROVE buf'[i] = buf[i]
  <2> HIDE DEF p
  <2>1. i \in 1..(p + (Len(buf) - MaxPacket)) /\ i =< p
    BY <1>1, <1>2
  <2> QED BY <1>5, <1>7, <2>1
<1>10. SentSound' /\ packets' \in Seq(Seq(Chars))
  <2>1. Len(q) =< MaxPacket /\ Len(q) = Len(buf) - left'
    BY <1>2, <1>4, <1>8
  <2>2. \A i \in 1..(Len(buf') - left') : i \in 1..(Len(buf) - left) /\ buf'[i] = buf[i]
    BY <1>8, <1>9
  <2>3. record' = record /\ \A i \in 1..Len(q) : q[i] = buf[i]
    BY <1>1, <1>4
  <2> QED BY <1>1, <1>4, <1>8, <2>1, <2>2, <2>3, PacketKeeps, ZenonT(60)
<1>11. BufSound'
  <2>1. ASSUME NEW i \in (p + 1)..Len(buf')
        PROVE  buf'[i] = Syslog!Text(Len(record) - Len(buf') + i)
    <3>1. /\ i \in 1..(p + (Len(buf) - MaxPacket)) /\ ~(i =< p)
          /\ i - p \in 1..(Len(buf) - MaxPacket)
          /\ MaxPacket + (i - p) \in (p + 1)..Len(buf)
          /\ Len(record) - Len(buf) + (MaxPacket + (i - p)) = Len(record) - Len(buf') + i
      BY <1>1, <1>2, <1>7, SMTT(60)
    <3>2. buf'[i] = buf[MaxPacket + (i - p)]
      BY <1>6, <1>7, <3>1, ZenonT(60)
    <3> QED BY <1>2, <3>1, <3>2, ZenonT(60)
  <2> QED BY <1>1, <1>2, <1>8, <2>1, ZenonT(60) DEF BufSound
<1>12. SocketSound'
  BY <1>1, ZenonT(60) DEF SyslogInv, SocketSound
<1>13. /\ left' \in 0..Len(record') /\ Len(record') \in Nat
       /\ record' = [a \in 1..Len(record') |-> Syslog!Text(a)]
  BY <1>1, <1>2, <1>8 DEF SyslogInv
<1> QED BY <1>7, <1>10, <1>11, <1>12, <1>13 DEF SyslogInv

\* The rest of a record is sent.
LEMMA RestKeeps == ASSUME SyslogInv, Syslog!SendsRest PROVE SyslogInv'
<1>1. /\ left > 0 /\ Len(buf) =< MaxPacket /\ packets' = Append(packets, buf) /\ left' = 0
      /\ UNCHANGED <<up, open, socket, facility, buf, record>>
  BY DEF Syslog!SendsRest
<1>2. buf \in Seq(Chars) /\ Len(buf) \in Nat /\ left \in Nat /\ Len(record) \in Nat
  BY LenProperties DEF SyslogInv
<1>3. SentSound' /\ packets' \in Seq(Seq(Chars))
  <2>1. left' \in 0..left /\ left > left' /\ Len(buf) = Len(buf) - left' /\ ~(left' > 0)
    BY <1>1, <1>2
  <2> QED BY <1>1, <1>2, <2>1, PacketKeeps
<1>4. BufSound' /\ SocketSound'
  BY <1>1 DEF SyslogInv, BufSound, SocketSound
<1>5. /\ left' \in 0..Len(record') /\ Len(record') \in Nat
      /\ record' = [a \in 1..Len(record') |-> Syslog!Text(a)]
  BY <1>1, <1>2 DEF SyslogInv
<1> QED BY <1>1, <1>2, <1>3, <1>4, <1>5 DEF SyslogInv

\* A record that is cut into packets in place is sent whole: each character once
\* and in order, each packet behind the same priority and no longer than allowed;
\* and a socket is closed before the next one is opened
\* (RemoteSyslogAppender::_append, open, close and reopen).
THEOREM RecordsAreSent == MCSpec => []Syslog!RecordSent
<1>1. MCInit => SyslogInv
  <2> SUFFICES ASSUME MCInit PROVE SyslogInv
    OBVIOUS
  <2>1. /\ open = {} /\ facility = 0 /\ buf = <<>> /\ left = 0 /\ record = <<>>
        /\ packets = <<>>
    BY DEF MCInit, Syslog!Init
  <2>2. /\ buf \in Seq(Chars) /\ packets \in Seq(Seq(Chars)) /\ DOMAIN packets = {}
        /\ Len(record) = 0
    BY <2>1, EmptySeq
  <2>3. record = [a \in 1..Len(record) |-> Syslog!Text(a)]
    BY <2>1, <2>2
  <2>4. <<"priority", 0>> \in Marks /\ Gone = 0
    BY <2>1, <2>2 DEF Marks, Gone
  <2>5. SentSound
    BY <2>1, <2>2, <2>4 DEF SentSound, Complete, Ordered
  <2> QED BY <2>1, <2>2, <2>3, <2>5 DEF SyslogInv, BufSound, SocketSound
<1>2. SyslogInv /\ [MailStep(Next) \/ OtherStep]_MCvars => SyslogInv'
  <2> SUFFICES ASSUME SyslogInv, [MailStep(Next) \/ OtherStep]_MCvars PROVE SyslogInv'
    OBVIOUS
  <2>1. UNCHANGED syslogVars \/ Syslog!Next
    BY DEF MailStep, OtherStep, MCvars
  <2>2. CASE UNCHANGED syslogVars
    BY <2>2, SMTT(60) DEF syslogVars, SyslogInv, SentSound, BufSound, SocketSound, Gone
  <2>3. CASE Syslog!Next
    BY <2>3, SocketKeeps, RecordKeeps, PartKeeps, RestKeeps DEF Syslog!Next
  <2> QED BY <2>1, <2>2, <2>3
<1>3. SyslogInv => Syslog!RecordSent
  <2> SUFFICES ASSUME SyslogInv, left = 0
               PROVE  /\ Syslog!PacketsFit /\ Syslog!AllSent /\ Syslog!InOrder
                      /\ open \subseteq {socket}
    BY DEF Syslog!RecordSent, SyslogInv, SocketSound
  <2>1. Gone = Len(record) /\ Len(record) \in Nat
    BY DEF SyslogInv, Gone
  <2>2. Syslog!ToSet(record) = {Syslog!Text(a) : a \in 1..Len(record)}
    <3>1. DOMAIN record = 1..Len(record) /\ \A a \in 1..Len(record) : record[a] = Syslog!Text(a)
      BY Zenon DEF SyslogInv
    <3> QED BY <3>1, Zenon DEF Syslog!ToSet
  <2>3. PICK m \in Marks : \A g \in DOMAIN packets : Brings(packets[g], m, Gone)
    BY DEF SyslogInv, SentSound
  <2>4. DOMAIN packets = 1..Len(packets) /\ Len(packets) \in Nat
    BY LenProperties DEF SyslogInv
  <2>5. Syslog!PacketsFit
    <3> SUFFICES ASSUME NEW g \in DOMAIN packets
                 PROVE  /\ Len(packets[g]) <= MaxPacket
                        /\ packets[g][1] = packets[1][1] /\ packets[1][1][1] = "priority"
                        /\ \E i \in DOMAIN packets[g] : packets[g][i] \in Syslog!ToSet(record)
                        /\ \A i \in DOMAIN packets[g] :
                              packets[g][i] \in Syslog!ToSet(record) \cup {packets[1][1]}
      BY DEF Syslog!PacketsFit
    <3>1. 1 \in DOMAIN packets
      BY <2>4
    <3>2. packets[1][1] = m /\ m[1] = "priority"
      BY <2>3, <3>1, TextFacts DEF Brings
    <3>3. Brings(packets[g], m, Len(record))
      BY <2>1, <2>3
    <3> QED BY <2>2, <3>2, <3>3, Zenon DEF Brings
  <2>6. Syslog!AllSent
    <3> SUFFICES ASSUME NEW a \in 1..Len(record)
                 PROVE  \E g \in DOMAIN packets : Syslog!Text(a) \in Syslog!ToSet(packets[g])
      BY <2>2 DEF Syslog!AllSent
    <3>1. \E g \in DOMAIN packets : \E i \in DOMAIN packets[g] : packets[g][i] = Syslog!Text(a)
      BY <2>1 DEF SyslogInv, SentSound, Complete
    <3> QED BY <3>1, Zenon DEF Syslog!ToSet
  <2>7. Syslog!InOrder
    <3> SUFFICES ASSUME NEW g \in DOMAIN packets, NEW h \in DOMAIN packets,
                        NEW i \in DOMAIN packets[g], NEW e \in DOMAIN packets[h],
                        g < h \/ (g = h /\ i < e),
                        packets[g][i] \in Syslog!ToSet(record),
                        packets[h][e] \in Syslog!ToSet(record)
                 PROVE  packets[g][i][2] < packets[h][e][2]
      BY DEF Syslog!InOrder
    <3>1. PICK a \in 1..Len(record) : packets[g][i] = Syslog!Text(a)
      BY <2>2
    <3>2. PICK b \in 1..Len(record) : packets[h][e] = Syslog!Text(b)
      BY <2>2
    <3>3. a \in Nat /\ b \in Nat
      BY <2>1
    <3>4. a < b
      BY <3>1, <3>2, <3>3, SMTT(60) DEF SyslogInv, SentSound, Ordered
    <3> QED BY <3>1, <3>2, <3>3, <3>4, TextFacts
  <2>8. open \subseteq {socket}
    BY DEF SyslogInv, SocketSound
  <2> QED BY <2>5, <2>6, <2>7, <2>8
<1> QED BY <1>1, <1>2, <1>3, PTL DEF MCSpec

=============================================================================
