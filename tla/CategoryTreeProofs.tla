------------------------- MODULE CategoryTreeProofs -------------------------
(***************************************************************************)
(* Proofs about the logging library: what an event reaches, that no        *)
(* threads wait for each other, and that no appender is called after its   *)
(* end, for any tree of categories, any appenders and any threads.         *)
(***************************************************************************)
EXTENDS CategoryTree, SequenceTheorems, TLAPS

-----------------------------------------------------------------------------
(* The invariants.                                                         *)

Climbing == {"enter", "call", "unwind"}
Label == Climbing \cup {"idle", "walk", "stream", "written", "delete", "purge",
                        "shut", "force", "reopen", "close"}
Elements(s) == {s[i] : i \in 1..Len(s)}

\* The types of the variables, and of what TypeOK leaves to the other
\* invariants.
TreeTyped ==
    /\ known \subseteq Category /\ Root \in known
    /\ \A c \in known : Chain[c] \subseteq known
    /\ priority \in [Category -> Nat] /\ priority[Root] < NOTSET
    /\ additive \in [Category -> BOOLEAN]
HeapTyped ==
    /\ attached \in [Category -> SUBSET Appender]
    /\ owns \in [Category -> SUBSET Appender]
    /\ \A c \in Category : owns[c] \subseteq attached[c]
    /\ object \in [Appender -> {"none", "live", "dying", "freed"}]
    /\ registry \in [Name -> Appender \cup {NoAppender}]
PlaceTyped ==
    /\ pc \in [Thread -> Label]
    /\ at \in [Thread -> known]
    /\ from \in [Thread -> known]
    /\ rest \in [Thread -> SUBSET known]
    /\ owner \in [Lock -> Thread \cup {Nobody}]
WorkTyped ==
    /\ level \in [Thread -> Nat]
    /\ path \in [Thread -> Seq(Category)]
    /\ todo \in [Thread -> SUBSET Appender]
    /\ got \in [Thread -> SUBSET (Category \X Appender)]
    /\ drop \in [Thread -> SUBSET Appender]
    /\ forced \in [Thread -> BOOLEAN]

TypeInv == TreeTyped /\ HeapTyped /\ PlaceTyped /\ WorkTyped

\* d is a proper ancestor of c.
Above(d, c) == c # Root /\ d \in Chain[Parent[c]]

\* What a thread holds while it climbs, and what it holds otherwise.
Holds(t) ==
    /\ pc[t] \in Climbing =>
          \A i \in 1..Len(path[t]) : owner[path[t][i]] = t
    /\ pc[t] \notin Climbing => path[t] = <<>>
    /\ pc[t] \in {"call", "unwind"} => path[t] # <<>>
    /\ pc[t] = "call" => path[t][1] = at[t]
    /\ pc[t] = "delete" => owner[at[t]] = t
    /\ owner["appenders"] = t => pc[t] \in {"reopen", "close"}
    /\ \A c \in Category : owner[c] = t =>
          \/ pc[t] \in Climbing /\ c \in Elements(path[t])
          \/ pc[t] = "delete" /\ c = at[t]

\* The mutexes a thread holds are of categories below the one it has reached.
Ascends(t) ==
    /\ \A i, j \in 1..Len(path[t]) : path[t][i] = path[t][j] => i = j
    /\ pc[t] = "enter" => \A i \in 1..Len(path[t]) : Above(at[t], path[t][i])
    /\ pc[t] = "call" => \A i \in 2..Len(path[t]) : Above(at[t], path[t][i])

\* What it has delivered.
Delivered(t) ==
    /\ \A i \in 1..Len(path[t]) :
        LET c == path[t][i]
            left == IF i = 1 /\ pc[t] = "call" THEN todo[t] ELSE {}
        IN {a \in Appender : <<c, a>> \in got[t]} =
               {a \in attached[c] \ left : Passes(a, level[t])}
    /\ pc[t] \in {"enter", "call"} => \A p \in got[t] : p[1] \in Elements(path[t])
    /\ pc[t] = "call" => todo[t] \subseteq attached[at[t]]
    /\ pc[t] \notin Climbing \cup {"reopen", "close"} => got[t] = {}

ThreadInv(t) == Holds(t) /\ Ascends(t) /\ Delivered(t)
LockInv == TypeInv /\ \A t \in Thread : ThreadInv(t)

\* The callers' part in Lifetimes: one thread configures, an appender that a
\* category owns is attached nowhere else, and no two appenders have one name.
OneAdmin(m) ==
    /\ Admin = {m}
    /\ OwnedOnce
    /\ \A a, b \in Appender : NameOf[a] = NameOf[b] => a = b

Busy == {"delete", "purge", "shut", "force", "reopen", "close"}

\* What is attached is alive, except for what m is deleting.
HeapSound(m) ==
    /\ \A c, d \in Category, a \in Appender :
          a \in owns[c] /\ a \in attached[d] => c = d
    /\ \A c \in Category : c \notin known => attached[c] = {}
    /\ \A c \in Category : \A a \in attached[c] :
          \/ object[a] = "live"
          \/ pc[m] = "delete" /\ at[m] = c /\ a \in drop[m]
    /\ \A n \in Name : registry[n] # NoAppender =>
          /\ NameOf[registry[n]] = n
          /\ object[registry[n]] \in {"live", "dying"}
    /\ \A a \in Appender : object[a] = "live" =>
          \/ registry[NameOf[a]] = a
          \/ pc[m] = "purge" /\ a \in todo[m]
    /\ \A a \in Appender : object[a] = "dying" =>
          pc[m] \in {"delete", "purge"} /\ a \in todo[m]

\* What a thread calls is alive, and only m configures.
CallsSound(m) == \A t \in Thread :
    /\ pc[t] \in Busy => t = m
    /\ pc[t] = "call" => \A a \in todo[t] : object[a] = "live"

\* What m is about to reopen, to close or to delete.
AdminSound(m) ==
    /\ pc[m] \in {"reopen", "close"} => \A a \in todo[m] : object[a] = "live"
    /\ pc[m] \in {"delete", "purge"} =>
          \A a \in todo[m] : object[a] \in {"live", "dying"}
    /\ pc[m] = "delete" =>
          /\ todo[m] \subseteq drop[m] \cap owns[at[m]]
          /\ drop[m] \subseteq attached[at[m]]
    /\ pc[m] = "purge" => \A c \in Category : todo[m] \cap attached[c] = {}
    /\ pc[m] = "force" => \A c \in Category : attached[c] = {}

\* How far m has come in shutdown.
ShutSound(m) ==
    /\ pc[m] = "shut" =>
          /\ owner["categories"] = m
          /\ \A c \in Category : c \notin rest[m] => attached[c] = {}
    /\ pc[m] = "delete" /\ owner["categories"] = m =>
          /\ drop[m] = attached[at[m]]
          /\ \A c \in Category : c \notin rest[m] => attached[c] = {} \/ c = at[m]
    /\ owner["categories"] = m => pc[m] \in {"shut", "delete"}

LifeInv(m) == HeapSound(m) /\ CallsSound(m) /\ AdminSound(m) /\ ShutSound(m)

-----------------------------------------------------------------------------
(* The tree of names, and the path of mutexes a call of callAppenders holds. *)

\* A category is among its ancestors and its own, and so are their parents.
LEMMA ChainFacts ==
  ASSUME NEW c \in Category
  PROVE  /\ Chain[c] \subseteq Category /\ c \in Chain[c]
         /\ ClosedUp(Chain[c])
         /\ \A S \in SUBSET Category : c \in S /\ ClosedUp(S) => Chain[c] \subseteq S
<1>1. Chain[c] = {d \in Category : \A S \in SUBSET Category :
                                      c \in S /\ ClosedUp(S) => d \in S}
  BY DEF Chain
<1>2. ASSUME NEW e \in Chain[c], e # Root PROVE Parent[e] \in Chain[c]
  <2>1. e \in Category /\ Parent[e] \in Category
    BY <1>1, <1>2, ParentAssumption
  <2>2. ASSUME NEW S \in SUBSET Category, c \in S, ClosedUp(S)
        PROVE  Parent[e] \in S
    BY <1>1, <1>2, <2>2 DEF ClosedUp
  <2> QED BY <1>1, <2>1, <2>2
<1> QED BY <1>1, <1>2 DEF ClosedUp

\* The ancestors of an ancestor are ancestors.
LEMMA ChainOfAncestor ==
  ASSUME NEW c \in Category, NEW d \in Chain[c]
  PROVE  d \in Category /\ Chain[d] \subseteq Chain[c]
  BY ChainFacts

\* One step of getInstance: a category and the ancestors of its parent; the
\* category itself is not among those.
LEMMA ChainUnfold ==
  ASSUME NEW c \in Category
  PROVE  /\ c # Root => Parent[c] \in Category /\ Chain[c] = {c} \cup Chain[Parent[c]]
         /\ c = Root => Chain[c] = {Root}
<1>1. CASE c = Root
  <2>1. ClosedUp({Root})
    BY DEF ClosedUp
  <2> QED BY <1>1, <2>1, ChainFacts, ParentAssumption
<1>2. CASE c # Root
  <2> DEFINE S == {c} \cup Chain[Parent[c]]
  <2>1. Parent[c] \in Category
    BY <1>2, ParentAssumption
  <2>2. Parent[c] \in Chain[c] /\ Chain[Parent[c]] \subseteq Chain[c]
    <3>1. Parent[c] \in Chain[c]
      BY <1>2, ChainFacts DEF ClosedUp
    <3> QED BY <3>1, ChainOfAncestor
  <2>3. S \in SUBSET Category /\ ClosedUp(S)
    <3>1. /\ Chain[Parent[c]] \subseteq Category
          /\ Parent[c] \in Chain[Parent[c]]
          /\ ClosedUp(Chain[Parent[c]])
      BY <2>1, ChainFacts
    <3> QED BY <3>1 DEF ClosedUp
  <2>4. Chain[c] \subseteq S
    BY <2>3, ChainFacts
  <2>5. S \subseteq Chain[c]
    BY <2>2, ChainFacts
  <2> QED BY <1>2, <2>1, <2>4, <2>5
<1> QED BY <1>1, <1>2

\* One turn up the tree stays above what was below.
LEMMA AboveParent ==
  ASSUME NEW c \in Category, NEW d \in Category, d # Root
  PROVE  /\ Parent[d] \in Category
         /\ Above(Parent[d], d)
         /\ Above(d, c) => Above(Parent[d], c)
<1>1. Parent[d] \in Category
  BY ParentAssumption
<1>2. Above(Parent[d], d)
  BY <1>1, ChainFacts DEF Above
<1>3. ASSUME Above(d, c) PROVE Above(Parent[d], c)
  <2>1. Parent[c] \in Category
    BY <1>3, ParentAssumption DEF Above
  <2> QED BY <1>3, <2>1, ChainFacts DEF Above, ClosedUp
<1> QED BY <1>1, <1>2, <1>3

\* A path with the mutex of Enter pushed.
LEMMA PushFacts ==
  ASSUME NEW s \in Seq(Category), NEW c \in Category, NEW q, q = <<c>> \o s
  PROVE  /\ q \in Seq(Category) /\ q # <<>>
         /\ Len(s) \in Nat /\ Len(q) = Len(s) + 1
         /\ q[1] = c
         /\ \A i \in 2..Len(q) : i - 1 \in 1..Len(s) /\ q[i] = s[i - 1]
         /\ Elements(q) = {c} \cup Elements(s)
<1>1. /\ <<c>> \in Seq(Category) /\ Len(<<c>>) = 1 /\ <<c>>[1] = c
  OBVIOUS
<1>2. Len(s) \in Nat
  BY LenProperties
<1>3. /\ q \in Seq(Category)
      /\ Len(q) = Len(s) + 1
      /\ \A i \in 1..Len(q) : q[i] = IF i <= 1 THEN <<c>>[i] ELSE s[i - 1]
  BY <1>1, <1>2, ConcatProperties
<1>4. q # <<>>
  BY <1>2, <1>3, EmptySeq
<1>5. q[1] = c /\ \A i \in 2..Len(q) : i - 1 \in 1..Len(s) /\ q[i] = s[i - 1]
  BY <1>1, <1>2, <1>3
<1>6. Elements(q) \subseteq {c} \cup Elements(s)
  <2>1. ASSUME NEW i \in 1..Len(q) PROVE q[i] \in {c} \cup Elements(s)
    <3>1. CASE i = 1
      BY <1>5, <3>1
    <3>2. CASE i # 1
      <4>1. i \in 2..Len(q)
        BY <1>2, <1>3, <3>2
      <4> QED BY <1>5, <4>1 DEF Elements
    <3> QED BY <3>1, <3>2
  <2> QED BY <2>1 DEF Elements
<1>7. {c} \cup Elements(s) \subseteq Elements(q)
  <2>1. c \in Elements(q)
    <3>1. 1 \in 1..Len(q)
      BY <1>2, <1>3
    <3> QED BY <1>5, <3>1 DEF Elements
  <2>2. ASSUME NEW j \in 1..Len(s) PROVE s[j] \in Elements(q)
    <3>1. j + 1 \in 2..Len(q) /\ (j + 1) - 1 = j
      BY <1>2, <1>3
    <3>2. q[j + 1] = s[j] /\ j + 1 \in 1..Len(q)
      BY <1>5, <3>1
    <3> QED BY <3>2 DEF Elements
  <2> QED BY <2>1, <2>2 DEF Elements
<1> QED BY <1>2, <1>3, <1>4, <1>5, <1>6, <1>7

\* A path with the mutex of Unwind popped.
LEMMA PopFacts ==
  ASSUME NEW s \in Seq(Category), s # <<>>
  PROVE  /\ Len(s) \in Nat \ {0}
         /\ Head(s) = s[1] /\ Head(s) \in Category
         /\ Tail(s) \in Seq(Category)
         /\ Len(Tail(s)) = Len(s) - 1
         /\ \A i \in 1..Len(Tail(s)) : i + 1 \in 2..Len(s) /\ Tail(s)[i] = s[i + 1]
         /\ Elements(s) \subseteq {Head(s)} \cup Elements(Tail(s))
         /\ Len(s) = 1 => Tail(s) = <<>>
<1>1. Len(s) \in Nat \ {0}
  BY EmptySeq
<1>2. /\ Head(s) = s[1] /\ Head(s) \in Category
      /\ Tail(s) \in Seq(Category)
      /\ Len(Tail(s)) = Len(s) - 1
      /\ \A i \in 1..Len(Tail(s)) : Tail(s)[i] = s[i + 1]
  BY <1>1, HeadTailProperties
<1>3. \A i \in 1..Len(Tail(s)) : i + 1 \in 2..Len(s)
  BY <1>1, <1>2
<1>4. ASSUME NEW i \in 1..Len(s) PROVE s[i] \in {Head(s)} \cup Elements(Tail(s))
  <2>1. CASE i = 1
    BY <1>2, <2>1
  <2>2. CASE i # 1
    <3>1. i - 1 \in 1..Len(Tail(s)) /\ (i - 1) + 1 = i
      BY <1>1, <1>2, <2>2
    <3>2. Tail(s)[i - 1] = s[i]
      BY <1>2, <3>1
    <3> QED BY <3>1, <3>2 DEF Elements
  <2> QED BY <2>1, <2>2
<1>5. ASSUME Len(s) = 1 PROVE Tail(s) = <<>>
  <2>1. Tail(s) \in Seq(Category) /\ ~(Len(Tail(s)) \in Nat \ {0})
    BY <1>2, <1>5
  <2> QED BY <2>1, EmptySeq
<1> QED BY <1>1, <1>2, <1>3, <1>4, <1>5 DEF Elements

-----------------------------------------------------------------------------
(* Types.                                                                   *)

USE DEF Goto, Acquire, Release, Forget, Empty, Start, Sweep, tree, heap, locals

\* The types in the initial state.
LEMMA InitTypeInv == Init => TypeInv
<1> SUFFICES ASSUME Init PROVE TypeInv
  OBVIOUS
<1> USE ParentAssumption DEF Init
<1>1. TreeTyped
  <2>1. \A c \in known : Chain[c] \subseteq known
    BY ChainUnfold
  <2> QED BY <2>1 DEF TreeTyped, NOTSET, INFO
<1>2. HeapTyped
  BY DEF HeapTyped
<1>3. PlaceTyped
  BY DEF PlaceTyped, Label, Climbing
<1>4. WorkTyped
  BY EmptySeq DEF WorkTyped
<1> QED BY <1>1, <1>2, <1>3, <1>4 DEF TypeInv

\* The types the run checks are among those proved.
LEMMA TypesOfCode == TypeInv => TypeOK
  BY DEF TypeInv, TreeTyped, HeapTyped, PlaceTyped, WorkTyped, TypeOK

\* The tree keeps its types: getInstance adds all ancestors, setPriority keeps
\* the root from NOTSET.
LEMMA NextTreeTyped == TypeInv /\ [Next]_vars => TreeTyped'
<1> SUFFICES ASSUME TypeInv, [Next]_vars PROVE TreeTyped'
  OBVIOUS
<1> USE DEF TypeInv, TreeTyped
<1>1. ASSUME NEW t \in Thread, NEW c \in Category, GetInstance(t, c)
      PROVE  TreeTyped'
  <2>1. known' = known \cup Chain[c] /\ Chain[c] \subseteq Category
    BY <1>1, ChainFacts DEF GetInstance
  <2>2. \A d \in known' : Chain[d] \subseteq known'
    BY <2>1, ChainOfAncestor
  <2> QED BY <1>1, <2>1, <2>2 DEF GetInstance
<1>2. ASSUME NEW t \in Thread, NEW c \in Category, NEW p \in Given,
             SetPriority(t, c, p)
      PROVE  TreeTyped'
  BY <1>2, ParentAssumption, PrioritiesAssumption DEF SetPriority
<1>3. ASSUME NEW t \in Thread, NEW c \in Category, NEW b \in BOOLEAN,
             SetAdditivity(t, c, b)
      PROVE  TreeTyped'
  BY <1>3 DEF SetAdditivity
<1>4. ASSUME UNCHANGED tree PROVE TreeTyped'
  BY <1>4
<1>5. ASSUME NEW t \in Thread, Logging(t) PROVE UNCHANGED tree
  BY <1>5 DEF Logging, Log, GetStream, LogFixed, Walk, Flush, Enter, Up, Unwind,
     DoAppend
<1>6. ASSUME NEW t \in Thread, Configuring(t) PROVE TreeTyped'
  <2>1. ASSUME NEW c \in Category,
               \/ Remove(t, c) \/ ShutdownOne(t, c)
               \/ \E a \in Appender : AddAppender(t, c, a)
        PROVE  UNCHANGED tree
    BY <2>1 DEF Remove, ShutdownOne, AddAppender
  <2>2. ASSUME NEW a \in Appender,
               \/ NewAppender(t, a) \/ DeleteAppender(t, a)
               \/ BeginDelete(t, a) \/ EndDelete(t, a) \/ Visit(t, a)
        PROVE  UNCHANGED tree
    BY <2>2 DEF NewAppender, DeleteAppender, BeginDelete, EndDelete, Visit
  <2>3. ASSUME \/ Detach(t) \/ Purged(t) \/ Shutdown(t) \/ ShutdownEnd(t)
               \/ Collect(t) \/ ReopenAll(t) \/ CloseAll(t) \/ SweepEnd(t)
        PROVE  UNCHANGED tree
    BY <2>3 DEF Detach, Purged, Shutdown, ShutdownEnd, Collect, ReopenAll,
       CloseAll, SweepEnd
  <2> QED BY <1>1, <1>2, <1>3, <1>4, <1>6, <2>1, <2>2, <2>3 DEF Configuring
<1>7. CASE UNCHANGED vars
  BY <1>4, <1>7 DEF vars
<1> QED BY <1>4, <1>5, <1>6, <1>7 DEF Next, Thread

\* The appenders keep theirs.
LEMMA NextHeapTyped == TypeInv /\ [Next]_vars => HeapTyped'
<1> SUFFICES ASSUME TypeInv, [Next]_vars PROVE HeapTyped'
  OBVIOUS
<1> USE DEF TypeInv, HeapTyped
<1>1. ASSUME UNCHANGED heap PROVE HeapTyped'
  BY <1>1
<1>2. ASSUME NEW t \in Thread, Logging(t) PROVE UNCHANGED heap
  BY <1>2 DEF Logging, Log, GetStream, LogFixed, Walk, Flush, Enter, Up, Unwind,
     DoAppend
<1>3. ASSUME NEW t \in Thread, Configuring(t) PROVE HeapTyped'
  <2>1. ASSUME NEW c \in Category, NEW a \in Appender, AddAppender(t, c, a)
        PROVE  HeapTyped'
    <3>1. attached' = [attached EXCEPT ![c] = @ \cup {a}] /\ UNCHANGED <<object, registry>>
      BY <2>1 DEF AddAppender
    <3>2. \/ owns' = [owns EXCEPT ![c] = @ \cup {a}]
          \/ owns' = owns
      BY <2>1 DEF AddAppender
    <3> QED BY <3>1, <3>2
  <2>2. ASSUME NEW c \in Category,
               \/ Remove(t, c) \/ ShutdownOne(t, c) \/ GetInstance(t, c)
               \/ \E p \in Given : SetPriority(t, c, p)
               \/ \E b \in BOOLEAN : SetAdditivity(t, c, b)
        PROVE  UNCHANGED heap
    BY <2>2 DEF Remove, ShutdownOne, GetInstance, SetPriority, SetAdditivity
  <2>3. ASSUME NEW a \in Appender,
               NewAppender(t, a) \/ BeginDelete(t, a) \/ EndDelete(t, a)
        PROVE  HeapTyped'
    BY <2>3 DEF NewAppender, BeginDelete, EndDelete
  <2>4. ASSUME NEW a \in Appender, DeleteAppender(t, a) \/ Visit(t, a)
        PROVE  UNCHANGED heap
    BY <2>4 DEF DeleteAppender, Visit
  <2>5. CASE Detach(t) \/ Collect(t)
    BY <2>5 DEF Detach, Collect, PlaceTyped
  <2>6. ASSUME \/ Purged(t) \/ Shutdown(t) \/ ShutdownEnd(t)
               \/ ReopenAll(t) \/ CloseAll(t) \/ SweepEnd(t)
        PROVE  UNCHANGED heap
    BY <2>6 DEF Purged, Shutdown, ShutdownEnd, ReopenAll, CloseAll, SweepEnd
  <2> QED BY <1>1, <1>3, <2>1, <2>2, <2>3, <2>4, <2>5, <2>6 DEF Configuring
<1>4. CASE UNCHANGED vars
  BY <1>1, <1>4 DEF vars
<1> QED BY <1>1, <1>2, <1>3, <1>4 DEF Next, Thread

\* The way up stays among the categories of the tree.
LEMMA ParentIsKnown ==
  ASSUME TypeInv, NEW c \in known, c # Root
  PROVE  Parent[c] \in known
<1>1. Chain[c] \subseteq known /\ c \in Category
  BY DEF TypeInv, TreeTyped
<1>2. Parent[c] \in Chain[c]
  BY <1>1, ChainFacts DEF ClosedUp
<1> QED BY <1>1, <1>2

\* The places of the threads keep theirs.
LEMMA NextPlaceTyped == TypeInv /\ [Next]_vars => PlaceTyped'
<1> SUFFICES ASSUME TypeInv, [Next]_vars PROVE PlaceTyped'
  OBVIOUS
<1>a. known \subseteq Category /\ Root \in known /\ priority[Root] < NOTSET
  BY DEF TypeInv, TreeTyped
<1> USE DEF PlaceTyped, Label, Climbing, Lock
<1>b. PlaceTyped
  BY DEF TypeInv
<1>1. ASSUME NEW t \in Thread, NEW c \in Category, NEW l \in Level,
             Log(t, c, l) \/ GetStream(t, c, l) \/ LogFixed(t, c, l)
      PROVE  PlaceTyped'
  <2>1. ASSUME NEW x \in {"walk", "stream", "enter"}, Start(t, c, l, x)
        PROVE  PlaceTyped'
    BY <1>b, <2>1
  <2> QED BY <1>1, <2>1 DEF Log, GetStream, LogFixed
<1>2. ASSUME NEW t \in Thread, Walk(t) PROVE PlaceTyped'
  <2>1. CASE priority[at[t]] >= NOTSET
    <3>1. at[t] # Root
      BY <2>1, <1>a DEF TypeInv, TreeTyped, NOTSET
    <3>2. Parent[at[t]] \in known
      BY <1>b, <3>1, ParentIsKnown
    <3>3. /\ at' = [at EXCEPT ![t] = Parent[@]]
          /\ UNCHANGED <<known, pc, from, rest, owner>>
      BY <1>2, <2>1, <1>b DEF Walk, TypeInv, TreeTyped, NOTSET
    <3> QED BY <1>b, <3>2, <3>3
  <2>2. CASE /\ Goto(t, IF pc[t] = "walk" THEN "enter" ELSE "written")
             /\ at' = [at EXCEPT ![t] = from[t]]
             /\ UNCHANGED from
    BY <1>2, <1>b, <2>2 DEF Walk
  <2>3. CASE Goto(t, "idle") /\ Forget(t)
    BY <1>2, <1>a, <1>b, <2>3 DEF Walk
  <2> QED BY <1>2, <2>1, <2>2, <2>3 DEF Walk
<1>3. ASSUME NEW t \in Thread, Flush(t) \/ Purged(t) PROVE PlaceTyped'
  BY <1>3, <1>b DEF Flush, Purged
<1>4. ASSUME NEW t \in Thread, Enter(t) PROVE PlaceTyped'
  BY <1>4, <1>a, <1>b DEF Enter
<1>5. ASSUME NEW t \in Thread, NEW a \in Appender, DoAppend(t, a)
      PROVE  PlaceTyped'
  BY <1>5, <1>b DEF DoAppend
<1>6. ASSUME NEW t \in Thread, Up(t) PROVE PlaceTyped'
  <2>1. CASE /\ at[t] # Root
             /\ at' = [at EXCEPT ![t] = Parent[@]]
             /\ Goto(t, "enter")
    <3>1. Parent[at[t]] \in known
      BY <1>b, <2>1, ParentIsKnown
    <3> QED BY <1>6, <1>b, <2>1, <3>1 DEF Up
  <2>2. CASE Goto(t, "unwind") /\ UNCHANGED at
    BY <1>6, <1>b, <2>2 DEF Up
  <2> QED BY <1>6, <2>1, <2>2 DEF Up
<1>7. ASSUME NEW t \in Thread, Unwind(t) PROVE PlaceTyped'
  <2>1. owner' \in [Lock -> Thread \cup {Nobody}]
    BY <1>7, <1>b DEF Unwind
  <2>2. CASE UNCHANGED <<pc, from, at, level, got>>
    BY <1>7, <1>b, <2>1, <2>2 DEF Unwind
  <2>3. CASE Goto(t, "idle") /\ Forget(t)
    BY <1>7, <1>a, <1>b, <2>1, <2>3 DEF Unwind
  <2> QED BY <1>7, <2>2, <2>3 DEF Unwind
<1>8. ASSUME NEW t \in Thread, NEW c \in Category, GetInstance(t, c)
      PROVE  PlaceTyped'
  BY <1>8, <1>b DEF GetInstance
<1>9. ASSUME NEW t \in Thread, NEW c \in Category,
             \/ \E p \in Given : SetPriority(t, c, p)
             \/ \E b \in BOOLEAN : SetAdditivity(t, c, b)
             \/ \E a \in Appender : AddAppender(t, c, a)
      PROVE  PlaceTyped'
  BY <1>9, <1>b DEF SetPriority, SetAdditivity, AddAppender
<1>10. ASSUME NEW t \in Thread, NEW c \in Category, Remove(t, c)
       PROVE  PlaceTyped'
  <2>1. /\ owner' = [owner EXCEPT ![c] = t]
        /\ at' = [at EXCEPT ![t] = c] /\ c \in known
        /\ pc' = [pc EXCEPT ![t] = "delete"]
        /\ UNCHANGED <<known, from, rest>>
    BY <1>10 DEF Remove
  <2> QED BY <1>b, <2>1
<1>11. ASSUME NEW t \in Thread, NEW c \in Category, ShutdownOne(t, c)
       PROVE  PlaceTyped'
  <2>1. /\ owner' = [owner EXCEPT ![c] = t]
        /\ at' = [at EXCEPT ![t] = c] /\ c \in known
        /\ pc' = [pc EXCEPT ![t] = "delete"]
        /\ rest' = [rest EXCEPT ![t] = @ \ {c}]
        /\ UNCHANGED <<known, from>>
    BY <1>11, <1>b DEF ShutdownOne
  <2> QED BY <1>b, <2>1
<1>12. ASSUME NEW t \in Thread, NEW a \in Appender,
              \/ NewAppender(t, a) \/ DeleteAppender(t, a)
              \/ BeginDelete(t, a) \/ EndDelete(t, a) \/ Visit(t, a)
       PROVE  PlaceTyped'
  BY <1>12, <1>b DEF NewAppender, DeleteAppender, BeginDelete, EndDelete, Visit
<1>13. ASSUME NEW t \in Thread, Detach(t) PROVE PlaceTyped'
  <2>1. /\ owner' = [owner EXCEPT ![at[t]] = Nobody]
        /\ at' = [at EXCEPT ![t] = Root]
        /\ pc' = [pc EXCEPT ![t] = "shut"] \/ pc' = [pc EXCEPT ![t] = "idle"]
        /\ UNCHANGED <<known, from, rest>>
    BY <1>13 DEF Detach
  <2> QED BY <1>a, <1>b, <2>1
<1>14. ASSUME NEW t \in Thread, Shutdown(t) \/ Collect(t) PROVE PlaceTyped'
  BY <1>14, <1>b DEF Shutdown, Collect
<1>15. ASSUME NEW t \in Thread, ShutdownEnd(t) PROVE PlaceTyped'
  BY <1>15, <1>b DEF ShutdownEnd
<1>16. ASSUME NEW t \in Thread, ReopenAll(t) \/ CloseAll(t) PROVE PlaceTyped'
  BY <1>16, <1>b DEF ReopenAll, CloseAll
<1>17. ASSUME NEW t \in Thread, SweepEnd(t) PROVE PlaceTyped'
  BY <1>17, <1>a, <1>b DEF SweepEnd
<1>18. CASE UNCHANGED vars
  BY <1>18, <1>b DEF vars
<1> QED
  BY ZenonT(60), <1>1, <1>2, <1>3, <1>4, <1>5, <1>6, <1>7, <1>8, <1>9, <1>10, <1>11, <1>12,
     <1>13, <1>14, <1>15, <1>16, <1>17, <1>18
     DEF Next, Logging, Configuring, Thread

\* So does what they work with.
LEMMA NextWorkTyped ==
  TypeInv /\ (\A t \in Thread : Holds(t)) /\ [Next]_vars => WorkTyped'
<1> SUFFICES ASSUME TypeInv, \A t \in Thread : Holds(t), [Next]_vars
             PROVE  WorkTyped'
  OBVIOUS
<1>a. WorkTyped /\ at \in [Thread -> Category]
  BY DEF TypeInv, PlaceTyped, TreeTyped
<1>b. Registered \subseteq Appender
  BY DEF Registered, TypeInv, HeapTyped
<1>c. attached \in [Category -> SUBSET Appender] /\ owns \in [Category -> SUBSET Appender]
  BY DEF TypeInv, HeapTyped
<1> USE DEF WorkTyped
<1>1. ASSUME NEW t \in Thread, NEW c \in Category, NEW l \in Level,
             Log(t, c, l) \/ GetStream(t, c, l) \/ LogFixed(t, c, l)
      PROVE  WorkTyped'
  <2>1. /\ level' = [level EXCEPT ![t] = l] /\ l \in Nat
        /\ UNCHANGED <<path, todo, got, drop, forced>>
    BY <1>1, PrioritiesAssumption DEF Log, GetStream, LogFixed
  <2> QED BY <1>a, <2>1
<1>2. ASSUME NEW t \in Thread, Walk(t) \/ SweepEnd(t) PROVE WorkTyped'
  <2>1. UNCHANGED <<path, todo, drop, forced>>
    BY <1>2 DEF Walk, SweepEnd
  <2>2. \/ UNCHANGED <<level, got>>
        \/ level' = [level EXCEPT ![t] = 0] /\ got' = [got EXCEPT ![t] = {}]
    BY <1>2 DEF Walk, SweepEnd
  <2>3. level' \in [Thread -> Nat]
    BY <1>a, <2>2
  <2>4. got' \in [Thread -> SUBSET (Category \X Appender)]
    BY <1>a, <2>2
  <2> QED BY <1>a, <2>1, <2>3, <2>4
<1>3. ASSUME NEW t \in Thread, Flush(t) \/ Purged(t) \/ Up(t) \/ ShutdownEnd(t)
      PROVE  WorkTyped'
  BY <1>3, <1>a DEF Flush, Purged, Up, ShutdownEnd
<1>4. ASSUME NEW t \in Thread, Enter(t) PROVE WorkTyped'
  <2>1. <<at[t]>> \o path[t] \in Seq(Category)
    BY <1>a, PushFacts
  <2> QED BY <1>4, <1>a, <1>c, <2>1 DEF Enter
<1>5. ASSUME NEW t \in Thread, NEW a \in Appender, DoAppend(t, a)
      PROVE  WorkTyped'
  <2>1. /\ todo' = [todo EXCEPT ![t] = @ \ {a}]
        /\ got' = [got EXCEPT ![t] = @ \cup {<<at[t], a>>}] \/ got' = got
        /\ UNCHANGED <<level, path, drop, forced>>
    BY <1>5, <1>a DEF DoAppend
  <2>2. <<at[t], a>> \in Category \X Appender
    BY <1>a
  <2>3. got' \in [Thread -> SUBSET (Category \X Appender)]
    <3>1. got[t] \cup {<<at[t], a>>} \in SUBSET (Category \X Appender)
      BY <1>a, <2>2
    <3> QED BY <1>a, <2>1, <3>1
  <2>4. todo' \in [Thread -> SUBSET Appender]
    BY <1>a, <2>1
  <2> QED BY <1>a, <2>1, <2>3, <2>4
<1>6. ASSUME NEW t \in Thread, Unwind(t) PROVE WorkTyped'
  <2>1. Tail(path[t]) \in Seq(Category)
    BY <1>6, <1>a, PopFacts DEF Unwind, Holds
  <2>2. /\ path' = [path EXCEPT ![t] = Tail(@)]
        /\ UNCHANGED <<todo, drop, forced>>
    BY <1>6 DEF Unwind
  <2>3. \/ UNCHANGED <<level, got>>
        \/ level' = [level EXCEPT ![t] = 0] /\ got' = [got EXCEPT ![t] = {}]
    BY <1>6 DEF Unwind
  <2>4. level' \in [Thread -> Nat]
    BY <1>a, <2>3
  <2>5. got' \in [Thread -> SUBSET (Category \X Appender)]
    BY <1>a, <2>3
  <2>6. path' \in [Thread -> Seq(Category)]
    BY <1>a, <2>1, <2>2
  <2> QED BY <1>a, <2>2, <2>4, <2>5, <2>6
<1>7. ASSUME NEW t \in Thread, NEW c \in Category,
             \/ GetInstance(t, c)
             \/ \E p \in Given : SetPriority(t, c, p)
             \/ \E b \in BOOLEAN : SetAdditivity(t, c, b)
             \/ \E a \in Appender : AddAppender(t, c, a)
      PROVE  WorkTyped'
  BY <1>7, <1>a DEF GetInstance, SetPriority, SetAdditivity, AddAppender
<1>8. ASSUME NEW t \in Thread, NEW c \in Category, Remove(t, c) \/ ShutdownOne(t, c)
      PROVE  WorkTyped'
  <2>1. PICK S \in SUBSET Appender :
          /\ drop' = [drop EXCEPT ![t] = S]
          /\ todo' = [todo EXCEPT ![t] = S \cap owns[c]]
    BY <1>8, <1>c, SMTT(150) DEF Remove, ShutdownOne
  <2>2. UNCHANGED <<level, path, got, forced>>
    BY <1>8 DEF Remove, ShutdownOne
  <2> QED BY <1>a, <2>1, <2>2
<1>9. ASSUME NEW t \in Thread, NEW a \in Appender,
             \/ NewAppender(t, a) \/ DeleteAppender(t, a)
             \/ BeginDelete(t, a) \/ EndDelete(t, a)
      PROVE  WorkTyped'
  <2>1. /\ \/ todo' = todo
           \/ todo' = [todo EXCEPT ![t] = {a}]
           \/ todo' = [todo EXCEPT ![t] = @ \ {a}]
        /\ UNCHANGED <<level, path, got, drop, forced>>
    BY <1>9 DEF NewAppender, DeleteAppender, BeginDelete, EndDelete
  <2> QED BY <1>a, <2>1
<1>10. ASSUME NEW t \in Thread, NEW a \in Appender, Visit(t, a) PROVE WorkTyped'
  <2>1. <<Root, a>> \in Category \X Appender
    BY ParentAssumption
  <2>2. /\ \/ todo' = [todo EXCEPT ![t] = @ \ {a}]
           \/ todo' = [todo EXCEPT ![t] = {}]
        /\ got' = [got EXCEPT ![t] = @ \cup {<<Root, a>>}]
        /\ UNCHANGED <<level, path, drop, forced>>
    BY <1>10 DEF Visit
  <2> QED BY <1>a, <2>1, <2>2, ZenonT(60)
<1>11. ASSUME NEW t \in Thread, Detach(t) \/ Shutdown(t) PROVE WorkTyped'
  BY <1>11, <1>a, ZenonT(60) DEF Detach, Shutdown
<1>12. ASSUME NEW t \in Thread, Collect(t) \/ ReopenAll(t) \/ CloseAll(t)
       PROVE  WorkTyped'
  BY <1>12, <1>a, <1>b, ZenonT(60) DEF Collect, ReopenAll, CloseAll
<1>13. CASE UNCHANGED vars
  BY <1>13, <1>a DEF vars
<1> QED
  BY ZenonT(60), <1>1, <1>2, <1>3, <1>4, <1>5, <1>6, <1>7, <1>8, <1>9, <1>10, <1>11, <1>12,
     <1>13 DEF Next, Logging, Configuring, Thread

-----------------------------------------------------------------------------
(* Mutexes: the threads other than the one that steps, and those that do    *)
(* not climb.                                                               *)

\* A step of another thread: what u knows and holds stays, and so do the
\* appenders of the categories it holds.
Undisturbed(u) ==
    /\ pc'[u] = pc[u] /\ at'[u] = at[u] /\ path'[u] = path[u]
    /\ level'[u] = level[u] /\ got'[u] = got[u]
    /\ pc[u] = "call" => todo'[u] = todo[u]
    /\ \A c \in Category : owner'[c] = u <=> owner[c] = u
    /\ owner'["appenders"] = u => owner["appenders"] = u
    /\ \A c \in Category : owner[c] = u => attached'[c] = attached[c]

\* What a thread knows survives the steps that do not disturb it.
LEMMA OtherThread ==
  ASSUME TypeInv, NEW u \in Thread, ThreadInv(u), Undisturbed(u)
  PROVE  ThreadInv(u)'
<1>a. /\ path[u] \in Seq(Category) /\ at[u] \in Category
      /\ \A i \in 1..Len(path[u]) : path[u][i] \in Category
  BY ElementOfSeq DEF TypeInv, WorkTyped, PlaceTyped, TreeTyped
<1>1. Holds(u)'
  BY <1>a DEF ThreadInv, Holds, Undisturbed
<1>2. Ascends(u)'
  BY DEF ThreadInv, Ascends, Undisturbed
<1>3. Delivered(u)'
  <2>1. ASSUME NEW i \in 1..Len(path[u])
        PROVE  /\ owner[path[u][i]] = u
               /\ attached'[path[u][i]] = attached[path[u][i]]
    <3>1. pc[u] \in Climbing
      <4>1. path[u] # <<>>
        BY <2>1
      <4> QED BY <4>1 DEF ThreadInv, Holds
    <3> QED BY <1>a, <3>1 DEF ThreadInv, Holds, Undisturbed
  <2>2. pc[u] = "call" => attached'[at[u]] = attached[at[u]]
    <3> SUFFICES ASSUME pc[u] = "call" PROVE attached'[at[u]] = attached[at[u]]
      OBVIOUS
    <3>1. path[u] # <<>> /\ path[u][1] = at[u]
      BY DEF ThreadInv, Holds
    <3>2. 1 \in 1..Len(path[u])
      BY <1>a, <3>1, EmptySeq
    <3> QED BY <2>1, <3>1, <3>2
  <2>3. path'[u] = path[u] /\ pc'[u] = pc[u] /\ got'[u] = got[u] /\ at'[u] = at[u]
        /\ level'[u] = level[u] /\ (pc[u] = "call" => todo'[u] = todo[u])
    BY DEF Undisturbed
  <2>4. ASSUME NEW i \in 1..Len(path'[u])
        PROVE  LET c == path'[u][i]
                   left == IF i = 1 /\ pc'[u] = "call" THEN todo'[u] ELSE {}
               IN {a \in Appender : <<c, a>> \in got'[u]} =
                      {a \in attached'[c] \ left : Passes(a, level'[u])}
    <3>1. i \in 1..Len(path[u]) /\ attached'[path[u][i]] = attached[path[u][i]]
      BY <2>1, <2>3, <2>4
    <3> DEFINE left == IF i = 1 /\ pc[u] = "call" THEN todo[u] ELSE {}
    <3>2. {a \in Appender : <<path[u][i], a>> \in got[u]} =
                      {a \in attached[path[u][i]] \ left : Passes(a, level[u])}
      BY <3>1 DEF ThreadInv, Delivered
    <3> QED BY <2>3, <3>1, <3>2
  <2>5. /\ pc[u] \in {"enter", "call"} => \A p \in got[u] : p[1] \in Elements(path[u])
        /\ pc[u] = "call" => todo[u] \subseteq attached[at[u]]
        /\ pc[u] \notin Climbing \cup {"reopen", "close"} => got[u] = {}
    BY DEF ThreadInv, Delivered
  <2> QED BY <2>2, <2>3, <2>4, <2>5 DEF Delivered
<1> QED BY <1>1, <1>2, <1>3 DEF ThreadInv

\* A step after which the thread does not climb.
LEMMA GroundThread ==
  ASSUME NEW t \in Thread,
         pc'[t] \notin Climbing, path'[t] = <<>>,
         pc'[t] = "delete" => owner'[at'[t]] = t,
         owner'["appenders"] = t => pc'[t] \in {"reopen", "close"},
         \A c \in Category : owner'[c] = t => pc'[t] = "delete" /\ c = at'[t],
         pc'[t] \notin {"reopen", "close"} => got'[t] = {}
  PROVE  ThreadInv(t)'
<1>1. Len(<<>>) = 0
  OBVIOUS
<1>2. 1..Len(path'[t]) = {} /\ 2..Len(path'[t]) = {}
  BY <1>1
<1>3. Holds(t)'
  BY <1>2 DEF Holds, Climbing
<1>4. Ascends(t)'
  BY <1>2 DEF Ascends, Climbing
<1>5. Delivered(t)'
  BY <1>2 DEF Delivered, Climbing
<1> QED BY <1>3, <1>4, <1>5 DEF ThreadInv

-----------------------------------------------------------------------------
(* Mutexes: the steps of logging.                                           *)

\* The invariant of the mutexes in the initial state.
LEMMA InitLockInv == Init => LockInv
<1> SUFFICES ASSUME Init PROVE LockInv
  OBVIOUS
<1>1. ASSUME NEW t \in Thread PROVE ThreadInv(t)
  <2>1. path[t] = <<>> /\ pc[t] = "idle" /\ got[t] = {}
    BY DEF Init
  <2>2. \A k \in Lock : owner[k] # t
    BY NullsAssumption DEF Init
  <2>3. 1..Len(path[t]) = {} /\ 2..Len(path[t]) = {}
    BY <2>1
  <2>4. owner["appenders"] # t /\ \A c \in Category : owner[c] # t
    BY <2>2 DEF Lock
  <2> QED BY <2>1, <2>3, <2>4 DEF ThreadInv, Holds, Ascends, Delivered, Climbing
<1> QED BY <1>1, InitTypeInv DEF LockInv

\* Steps that leave every mutex, every place and every path alone.
LEMMA QuietStep ==
  ASSUME LockInv, UNCHANGED <<attached, owner, pc, at, level, path, got>>,
         \A u \in Thread : pc[u] = "call" => todo'[u] = todo[u]
  PROVE  \A u \in Thread : ThreadInv(u)'
<1> SUFFICES ASSUME NEW u \in Thread PROVE ThreadInv(u)'
  OBVIOUS
<1>1. Undisturbed(u)
  BY DEF Undisturbed
<1> QED BY <1>1, OtherThread DEF LockInv

\* A step of t that leaves the others alone: what remains is t itself.
LEMMA StepOf ==
  ASSUME LockInv, NEW t \in Thread, ThreadInv(t)',
         \A u \in Thread \ {t} : Undisturbed(u)
  PROVE  \A u \in Thread : ThreadInv(u)'
  BY OtherThread DEF LockInv

\* What LockInv says of a thread that is about to step.
LEMMA GroundFacts ==
  ASSUME LockInv, NEW t \in Thread
  PROVE  /\ pc[t] \notin Climbing => path[t] = <<>>
         /\ pc[t] \notin Climbing \cup {"reopen", "close"} => got[t] = {}
         /\ pc[t] \notin Climbing \cup {"delete"} =>
               \A c \in Category : owner[c] # t
         /\ pc[t] \notin {"reopen", "close"} => owner["appenders"] # t
         /\ path[t] \in Seq(Category) /\ at[t] \in Category
  BY DEF LockInv, ThreadInv, Holds, Delivered, Climbing, TypeInv, WorkTyped, PlaceTyped, TreeTyped

\* The steps of logging keep it.
LEMMA LoggingThreadInv ==
  ASSUME LockInv, NEW t \in Thread, Logging(t)
  PROVE  \A u \in Thread : ThreadInv(u)'
<1>a. /\ TypeInv /\ ThreadInv(t) /\ Holds(t) /\ Ascends(t) /\ Delivered(t)
      /\ Nobody \notin Thread
      /\ pc \in [Thread -> Label] /\ at \in [Thread -> Category]
      /\ path \in [Thread -> Seq(Category)] /\ todo \in [Thread -> SUBSET Appender]
      /\ got \in [Thread -> SUBSET (Category \X Appender)]
      /\ level \in [Thread -> Nat]
      /\ owner \in [Lock -> Thread \cup {Nobody}]
  BY NullsAssumption DEF LockInv, ThreadInv, TypeInv, PlaceTyped, WorkTyped, TreeTyped
<1>1. ASSUME NEW c \in Category, NEW l \in Level,
             Log(t, c, l) \/ GetStream(t, c, l) \/ LogFixed(t, c, l)
      PROVE  \A u \in Thread : ThreadInv(u)'
  <2>1. PICK x \in {"walk", "stream", "enter"} : Start(t, c, l, x)
    BY <1>1 DEF Log, GetStream, LogFixed
  <2>2. path[t] = <<>> /\ got[t] = {}
    BY <2>1, GroundFacts DEF Climbing
  <2>3. /\ pc'[t] = x /\ path'[t] = <<>> /\ got'[t] = {} /\ owner' = owner
    BY <1>a, <2>1, <2>2
  <2>4. owner["appenders"] # t /\ \A c2 \in Category : owner[c2] # t
    BY <2>1, GroundFacts DEF Climbing
  <2>5. ThreadInv(t)'
    <3>1. 1..Len(path'[t]) = {} /\ 2..Len(path'[t]) = {}
      BY <2>3
    <3> QED BY <2>1, <2>3, <2>4, <3>1
            DEF ThreadInv, Holds, Ascends, Delivered, Climbing
  <2>6. \A u \in Thread \ {t} : Undisturbed(u)
    BY <1>a, <2>1 DEF Undisturbed
  <2> QED BY <2>5, <2>6, StepOf
<1>2. CASE Walk(t) \/ Flush(t)
  <2>1. /\ pc[t] \in {"walk", "stream", "written"}
        /\ pc'[t] \in {"walk", "stream", "written", "enter", "idle"}
        /\ UNCHANGED <<owner, path, todo, attached>>
        /\ got' = got \/ got' = [got EXCEPT ![t] = {}]
    BY <1>a, <1>2 DEF Walk, Flush
  <2>2. path[t] = <<>> /\ got[t] = {}
    BY <2>1, GroundFacts DEF Climbing
  <2>3. path'[t] = <<>> /\ got'[t] = {}
    BY <1>a, <2>1, <2>2
  <2>4. owner["appenders"] # t /\ \A c2 \in Category : owner[c2] # t
    BY <2>1, GroundFacts DEF Climbing
  <2>5. ThreadInv(t)'
    <3>1. 1..Len(path'[t]) = {} /\ 2..Len(path'[t]) = {}
      BY <2>3
    <3> QED BY <2>1, <2>3, <2>4, <3>1
            DEF ThreadInv, Holds, Ascends, Delivered, Climbing
  <2>6. \A u \in Thread \ {t} : Undisturbed(u)
    BY <1>a, <1>2 DEF Undisturbed, Walk, Flush
  <2> QED BY <2>5, <2>6, StepOf
<1>3. CASE Enter(t)
  <2> DEFINE c == at[t]
             p == path[t]
             q == path'[t]
  <2>1. /\ pc[t] = "enter" /\ pc'[t] = "call" /\ at' = at /\ level' = level
        /\ got' = got /\ attached' = attached
        /\ owner[c] = Nobody /\ owner' = [owner EXCEPT ![c] = t]
        /\ q = <<c>> \o p
        /\ todo'[t] = attached[c]
        /\ c \in Category /\ c \in Lock
    BY <1>3, <1>a DEF Enter, Lock
  <2>2. /\ q \in Seq(Category) /\ q # <<>>
        /\ Len(p) \in Nat /\ Len(q) = Len(p) + 1
        /\ q[1] = c
        /\ \A i \in 2..Len(q) : i - 1 \in 1..Len(p) /\ q[i] = p[i - 1]
        /\ Elements(q) = {c} \cup Elements(p)
    <3>1. p \in Seq(Category) /\ c \in Category /\ q = <<c>> \o p
      BY <1>a, <2>1
    <3> QED BY <3>1, PushFacts, ZenonT(60)
  <2>3. /\ \A i \in 1..Len(p) : owner[p[i]] = t /\ p[i] \in Category
        /\ \A i \in 1..Len(p) : p[i] # c
    <3>1. \A i \in 1..Len(p) : owner[p[i]] = t /\ p[i] \in Category
      BY <1>a, <2>1 DEF Holds, Climbing
    <3> QED BY <1>a, <2>1, <3>1
  <2>4. \A k \in Lock : owner'[k] = IF k = c THEN t ELSE owner[k]
    BY <1>a, <2>1
  <2>5. \A i \in 1..Len(q) : owner'[q[i]] = t
    <3> SUFFICES ASSUME NEW i \in 1..Len(q) PROVE owner'[q[i]] = t
      OBVIOUS
    <3>1. CASE i = 1
      BY <2>1, <2>2, <2>4, <3>1
    <3>2. CASE i # 1
      <4>1. i \in 2..Len(q)
        BY <2>2, <3>2
      <4>2. q[i] = p[i - 1] /\ i - 1 \in 1..Len(p)
        BY <2>2, <4>1
      <4> QED BY <2>3, <2>4, <4>2 DEF Lock
    <3> QED BY <3>1, <3>2
  <2>6. Holds(t)'
    <3>1. owner'["appenders"] # t
      BY <1>a, <2>1, <2>4, LocksAssumption DEF Holds, Lock
    <3>2. \A d \in Category : owner'[d] = t => d \in Elements(q)
      BY <1>a, <2>1, <2>2, <2>4, ZenonT(60) DEF Holds, Lock, Climbing
    <3> QED BY <2>1, <2>2, <2>5, <3>1, <3>2 DEF Holds, Climbing
  <2>7. Ascends(t)'
    <3>1. \A i, j \in 1..Len(q) : q[i] = q[j] => i = j
      <4> SUFFICES ASSUME NEW i \in 1..Len(q), NEW j \in 1..Len(q), q[i] = q[j]
                   PROVE  i = j
        OBVIOUS
      <4>1. CASE i = 1 \/ j = 1
        BY <2>2, <2>3, <4>1, SMTT(60)
      <4>2. CASE i # 1 /\ j # 1
        <5>1. i \in 2..Len(q) /\ j \in 2..Len(q)
          BY <2>2, <4>2
        <5>2. i - 1 = j - 1
          <6>1. /\ q[i] = p[i - 1] /\ q[j] = p[j - 1]
                /\ i - 1 \in 1..Len(p) /\ j - 1 \in 1..Len(p)
            BY <2>2, <5>1
          <6>2. \A x, y \in 1..Len(p) : p[x] = p[y] => x = y
            BY <1>a DEF Ascends
          <6>3. p[i - 1] = p[j - 1]
            BY <6>1
          <6> HIDE DEF p, q
          <6> QED BY <6>1, <6>2, <6>3
        <5> QED BY <5>1, <5>2
      <4> QED BY <4>1, <4>2
    <3>2. \A i \in 2..Len(q) : Above(c, q[i])
      BY <1>a, <2>1, <2>2 DEF Ascends
    <3> HIDE DEF q
    <3>3. pc'[t] = "call" /\ at'[t] = c
      BY <2>1
    <3>4. (\A i, j \in 1..Len(path'[t]) : path'[t][i] = path'[t][j] => i = j)
          /\ (\A i \in 2..Len(path'[t]) : Above(at'[t], path'[t][i]))
      BY <3>1, <3>2, <3>3 DEF q
    <3> QED BY <3>3, <3>4 DEF Ascends, Above
  <2>8. Delivered(t)'
    <3>1. \A d \in Elements(p) : d # c
      BY <2>3 DEF Elements
    <3>2. \A r \in got[t] : r[1] \in Elements(p)
      BY <1>a, <2>1 DEF Delivered
    <3>3. \A a \in Appender : <<c, a>> \notin got[t]
      BY <3>1, <3>2
    <3>4. ASSUME NEW i \in 1..Len(q)
          PROVE  {a \in Appender : <<q[i], a>> \in got[t]} =
                    {a \in attached[q[i]] \ (IF i = 1 THEN todo'[t] ELSE {}) :
                        Passes(a, level[t])}
      <4>1. CASE i = 1
        BY <2>1, <2>2, <3>3, <4>1
      <4>2. CASE i # 1
        <5>1. i \in 2..Len(q)
          BY <2>2, <4>2
        <5>2. i - 1 \in 1..Len(p) /\ q[i] = p[i - 1]
          BY <2>2, <5>1
        <5>3. {a \in Appender : <<p[i - 1], a>> \in got[t]} =
                 {a \in attached[p[i - 1]] : Passes(a, level[t])}
          BY <1>a, <2>1, <5>2, ZenonT(60) DEF Delivered
        <5> QED BY <4>2, <5>2, <5>3
      <4> QED BY <4>1, <4>2
    <3>5. \A r \in got[t] : r[1] \in Elements(q)
      BY <2>2, <3>2
    <3> QED BY <2>1, <3>4, <3>5 DEF Delivered, Climbing
  <2>9. \A u \in Thread \ {t} : Undisturbed(u)
    BY <1>3, <1>a, <2>1, <2>4 DEF Undisturbed, Enter, Lock
  <2> QED BY <2>6, <2>7, <2>8, <2>9, StepOf DEF ThreadInv
<1>4. ASSUME NEW a \in Appender, DoAppend(t, a)
      PROVE  \A u \in Thread : ThreadInv(u)'
  <2> DEFINE c == at[t]
             p == path[t]
  <2>1. /\ pc[t] = "call" /\ a \in todo[t]
        /\ todo'[t] = todo[t] \ {a}
        /\ got'[t] = IF Passes(a, level[t]) THEN got[t] \cup {<<c, a>>} ELSE got[t]
        /\ UNCHANGED <<pc, at, level, path, owner, attached>>
        /\ c \in Category
    BY <1>4, <1>a DEF DoAppend
  <2>2. /\ p # <<>> /\ p[1] = c /\ Len(p) \in Nat \ {0}
        /\ \A i \in 2..Len(p) : p[i] # c
        /\ c \in Elements(p)
    <3>1. p # <<>> /\ p[1] = c
      BY <1>a, <2>1 DEF Holds
    <3>2. Len(p) \in Nat \ {0}
      BY <1>a, <3>1, EmptySeq
    <3>3. ASSUME NEW i \in 2..Len(p) PROVE p[i] # c
      <4>1. i \in 1..Len(p) /\ 1 \in 1..Len(p) /\ i # 1
        BY <3>2
      <4> QED BY <1>a, <3>1, <4>1 DEF Ascends
    <3> QED BY <3>1, <3>2, <3>3 DEF Elements
  <2>3. Holds(t)' /\ Ascends(t)'
    BY <1>a, <2>1, ZenonT(60) DEF Holds, Ascends
  <2>4. Delivered(t)'
    <3>1. ASSUME NEW i \in 1..Len(p)
          PROVE  {b \in Appender : <<p[i], b>> \in got'[t]} =
                    {b \in attached[p[i]] \ (IF i = 1 THEN todo'[t] ELSE {}) :
                        Passes(b, level[t])}
      <4>1. {b \in Appender : <<p[i], b>> \in got[t]} =
               {b \in attached[p[i]] \ (IF i = 1 THEN todo[t] ELSE {}) :
                    Passes(b, level[t])}
        BY <1>a, <2>1 DEF Delivered
      <4>2. CASE i = 1
        <5>1. a \in attached[c] /\ p[i] = c /\ a \in Appender
          BY <1>a, <2>1, <2>2, <4>2 DEF Delivered
        <5> QED BY <2>1, <4>1, <4>2, <5>1
      <4>3. CASE i # 1
        <5>1. p[i] # c
          BY <2>2, <4>3
        <5> QED BY <2>1, <4>1, <4>3, <5>1
      <4> QED BY <4>2, <4>3
    <3>2. \A r \in got'[t] : r[1] \in Elements(p)
      <4>1. \A r \in got[t] : r[1] \in Elements(p)
        BY <1>a, <2>1 DEF Delivered
      <4>2. <<c, a>>[1] = c
        OBVIOUS
      <4> QED BY <2>1, <2>2, <4>1, <4>2
    <3>3. todo'[t] \subseteq attached[c]
      BY <1>a, <2>1 DEF Delivered
    <3> QED BY <2>1, <3>1, <3>2, <3>3 DEF Delivered, Climbing
  <2>5. \A u \in Thread \ {t} : Undisturbed(u)
    BY <1>4, <1>a DEF Undisturbed, DoAppend
  <2> QED BY <2>3, <2>4, <2>5, StepOf DEF ThreadInv
<1>5. CASE Up(t)
  <2> DEFINE c == at[t]
             p == path[t]
  <2>1. /\ pc[t] = "call" /\ todo[t] = {}
        /\ UNCHANGED <<level, path, owner, attached, got, todo>>
        /\ c \in Category
    BY <1>5, <1>a DEF Up
  <2>2. /\ p # <<>> /\ p[1] = c /\ Len(p) \in Nat \ {0}
    <3>1. p # <<>> /\ p[1] = c
      BY <1>a, <2>1 DEF Holds
    <3> QED BY <1>a, <3>1, EmptySeq
  <2>3. pc'[t] \in {"enter", "unwind"}
    BY <1>5, <1>a DEF Up
  <2>4. Holds(t)'
    BY <1>a, <2>1, <2>2, <2>3 DEF Holds, Climbing
  <2>5. Ascends(t)'
    <3>1. \A i, j \in 1..Len(p) : p[i] = p[j] => i = j
      BY <1>a DEF Ascends
    <3>2. CASE pc'[t] = "enter"
      <4>1. c # Root /\ at'[t] = Parent[c]
        BY <1>5, <1>a, <3>2 DEF Up
      <4>2. ASSUME NEW i \in 1..Len(p) PROVE Above(at'[t], p[i])
        <5>1. CASE i = 1
          BY <2>1, <2>2, <4>1, <5>1, AboveParent
        <5>2. CASE i # 1
          <6>1. i \in 2..Len(p) /\ p[i] \in Category
            BY <1>a, <2>2, <5>2, ElementOfSeq
          <6>2. Above(c, p[i])
            BY <1>a, <2>1, <6>1 DEF Ascends
          <6> QED BY <2>1, <4>1, <6>1, <6>2, AboveParent
        <5> QED BY <5>1, <5>2
      <4> HIDE DEF p
      <4>3. /\ \A i, j \in 1..Len(path'[t]) : path'[t][i] = path'[t][j] => i = j
            /\ \A i \in 1..Len(path'[t]) : Above(at'[t], path'[t][i])
        BY <2>1, <3>1, <4>2 DEF p
      <4> QED BY <3>2, <4>3 DEF Ascends, Above
    <3>3. CASE pc'[t] = "unwind"
      BY <2>1, <3>1, <3>3 DEF Ascends
    <3> QED BY <2>3, <3>2, <3>3
  <2>6. Delivered(t)'
    <3>1. ASSUME NEW i \in 1..Len(p)
          PROVE  {b \in Appender : <<p[i], b>> \in got[t]} =
                    {b \in attached[p[i]] : Passes(b, level[t])}
      BY <1>a, <2>1 DEF Delivered
    <3>2. \A r \in got[t] : r[1] \in Elements(p)
      BY <1>a, <2>1 DEF Delivered
    <3> QED BY <2>1, <2>3, <3>1, <3>2 DEF Delivered, Climbing
  <2>7. \A u \in Thread \ {t} : Undisturbed(u)
    BY <1>5, <1>a DEF Undisturbed, Up
  <2> QED BY <2>4, <2>5, <2>6, <2>7, StepOf DEF ThreadInv
<1>6. CASE Unwind(t)
  <2> DEFINE p == path[t]
             q == path'[t]
             h == Head(path[t])
  <2>1. /\ pc[t] = "unwind" /\ p # <<>>
        /\ owner' = [owner EXCEPT ![h] = Nobody]
        /\ q = Tail(p)
        /\ UNCHANGED <<attached, todo>>
    BY <1>6, <1>a DEF Unwind, Holds
  <2>2. /\ Len(p) \in Nat \ {0}
        /\ h = p[1] /\ h \in Category
        /\ q \in Seq(Category)
        /\ Len(q) = Len(p) - 1
        /\ \A i \in 1..Len(q) : i + 1 \in 2..Len(p) /\ q[i] = p[i + 1]
        /\ Elements(p) \subseteq {h} \cup Elements(q)
        /\ Len(p) = 1 => q = <<>>
    BY <1>a, <2>1, PopFacts
  <2>3. \A k \in Lock : owner'[k] = IF k = h THEN Nobody ELSE owner[k]
    BY <1>a, <2>1
  <2>4. owner[h] = t
    BY <1>a, <2>1, <2>2 DEF Holds, Climbing
  <2>5. /\ owner'["appenders"] # t
        /\ \A d \in Category : owner'[d] = t => d \in Elements(q)
    <3>1. owner["appenders"] # t /\ \A d \in Category : owner[d] = t => d \in Elements(p)
      BY <1>a, <2>1 DEF Holds
    <3> QED BY <1>a, <2>2, <2>3, <3>1, ZenonT(60) DEF Lock
  <2>6. \A u \in Thread \ {t} : Undisturbed(u)
    <3> SUFFICES ASSUME NEW u \in Thread \ {t} PROVE Undisturbed(u)
      OBVIOUS
    <3>1. /\ \A k \in Category : owner'[k] = u <=> owner[k] = u
          /\ owner'["appenders"] = u => owner["appenders"] = u
      BY <1>a, <2>3, <2>4 DEF Lock
    <3>2. /\ pc'[u] = pc[u] /\ at'[u] = at[u] /\ path'[u] = path[u]
          /\ level'[u] = level[u] /\ got'[u] = got[u]
      BY <1>6, <1>a DEF Unwind
    <3> QED BY <2>1, <3>1, <3>2 DEF Undisturbed
  <2>7. CASE Len(p) = 1
    <3>1. pc'[t] = "idle" /\ got'[t] = {} /\ q = <<>>
      BY <1>6, <1>a, <2>2, <2>7 DEF Unwind
    <3>2. Elements(q) = {}
      BY <3>1 DEF Elements
    <3>3. ThreadInv(t)'
      BY <2>5, <3>1, <3>2, GroundThread DEF Climbing
    <3> QED BY <2>6, <3>3, StepOf
  <2>8. CASE Len(p) # 1
    <3>1. UNCHANGED <<pc, at, level, got>>
      BY <1>6, <2>2, <2>8 DEF Unwind
    <3>2. q # <<>>
      <4>1. Len(q) # 0
        BY <2>2, <2>8
      <4> QED BY <4>1
    <3>3. \A i \in 1..Len(q) : owner'[q[i]] = t
      <4> SUFFICES ASSUME NEW i \in 1..Len(q) PROVE owner'[q[i]] = t
        OBVIOUS
      <4>1. i + 1 \in 2..Len(p) /\ q[i] = p[i + 1] /\ p[i + 1] \in Category
        BY <1>a, <2>2, ElementOfSeq
      <4>2. p[i + 1] # h /\ owner[p[i + 1]] = t
        BY <1>a, <2>1, <2>2, <4>1 DEF Ascends, Holds, Climbing
      <4> QED BY <2>3, <4>1, <4>2 DEF Lock
    <3>4. Holds(t)'
      BY <2>1, <2>5, <3>1, <3>2, <3>3 DEF Holds, Climbing
    <3>5. Ascends(t)'
      <4>1. \A i, j \in 1..Len(q) : q[i] = q[j] => i = j
        BY <1>a, <2>2 DEF Ascends
      <4> QED BY <2>1, <3>1, <4>1 DEF Ascends
    <3>6. Delivered(t)'
      <4>1. ASSUME NEW i \in 1..Len(q)
            PROVE  {b \in Appender : <<q[i], b>> \in got[t]} =
                      {b \in attached[q[i]] : Passes(b, level[t])}
        <5>1. i + 1 \in 1..Len(p) /\ q[i] = p[i + 1]
          BY <2>2, SMTT(150)
        <5> QED BY <1>a, <2>1, <5>1 DEF Delivered
      <4> QED BY <2>1, <3>1, <4>1 DEF Delivered, Climbing
    <3> QED BY <2>6, <3>4, <3>5, <3>6, StepOf DEF ThreadInv
  <2> QED BY <2>7, <2>8
<1> QED BY <1>1, <1>2, <1>3, <1>4, <1>5, <1>6 DEF Logging

-----------------------------------------------------------------------------
(* Mutexes: the steps that configure, and what follows.                     *)

\* So do the steps that configure.
LEMMA ConfiguringThreadInv ==
  ASSUME LockInv, NEW t \in Thread, Configuring(t)
  PROVE  \A u \in Thread : ThreadInv(u)'
<1>a. /\ TypeInv /\ ThreadInv(t) /\ Holds(t)
      /\ Nobody \notin Thread
      /\ pc \in [Thread -> Label] /\ at \in [Thread -> Category]
      /\ path \in [Thread -> Seq(Category)] /\ todo \in [Thread -> SUBSET Appender]
      /\ got \in [Thread -> SUBSET (Category \X Appender)]
      /\ level \in [Thread -> Nat]
      /\ owner \in [Lock -> Thread \cup {Nobody}]
      /\ attached \in [Category -> SUBSET Appender]
  BY NullsAssumption
     DEF LockInv, ThreadInv, TypeInv, PlaceTyped, WorkTyped, TreeTyped, HeapTyped
<1>1. ASSUME NEW c \in Category,
             \/ GetInstance(t, c)
             \/ \E p \in Given : SetPriority(t, c, p)
             \/ \E b \in BOOLEAN : SetAdditivity(t, c, b)
      PROVE  \A u \in Thread : ThreadInv(u)'
  BY <1>1, QuietStep DEF GetInstance, SetPriority, SetAdditivity
<1>2. ASSUME NEW a \in Appender,
             NewAppender(t, a) \/ BeginDelete(t, a) \/ EndDelete(t, a)
      PROVE  \A u \in Thread : ThreadInv(u)'
  <2>1. UNCHANGED <<attached, owner, pc, at, level, path, got>>
    BY <1>2 DEF NewAppender, BeginDelete, EndDelete
  <2>2. \A u \in Thread : pc[u] = "call" => todo'[u] = todo[u]
    BY <1>2, <1>a DEF NewAppender, BeginDelete, EndDelete
  <2> QED BY <2>1, <2>2, QuietStep
<1>3. ASSUME NEW c \in Category, NEW a \in Appender, AddAppender(t, c, a)
      PROVE  \A u \in Thread : ThreadInv(u)'
  <2>1. /\ owner[c] = Nobody
        /\ UNCHANGED <<owner, pc, at, level, path, got, todo>>
        /\ \A d \in Category \ {c} : attached'[d] = attached[d]
    BY <1>3, <1>a DEF AddAppender
  <2>2. ASSUME NEW u \in Thread PROVE Undisturbed(u)
    BY <1>a, <2>1 DEF Undisturbed
  <2> QED BY <2>2, OtherThread DEF LockInv
<1>4. ASSUME NEW c \in Category, Remove(t, c) \/ ShutdownOne(t, c)
      PROVE  \A u \in Thread : ThreadInv(u)'
  <2>1. /\ pc[t] \in {"idle", "shut"} /\ pc'[t] = "delete"
        /\ owner[c] = Nobody /\ owner' = [owner EXCEPT ![c] = t]
        /\ at'[t] = c
        /\ UNCHANGED <<attached, path, got, level>>
        /\ c \in Lock
    BY <1>4, <1>a, ZenonT(60) DEF Remove, ShutdownOne, Lock
  <2>2. path[t] = <<>> /\ got[t] = {}
    BY <2>1, GroundFacts DEF Climbing
  <2>3. owner["appenders"] # t /\ \A d \in Category : owner[d] # t
    BY <2>1, GroundFacts DEF Climbing
  <2>4. \A k \in Lock : owner'[k] = IF k = c THEN t ELSE owner[k]
    BY <1>a, <2>1
  <2>5. /\ owner'[at'[t]] = t /\ owner'["appenders"] # t
        /\ \A d \in Category : owner'[d] = t => d = at'[t]
    BY <2>1, <2>3, <2>4, LocksAssumption DEF Lock
  <2>6. ThreadInv(t)'
    BY <2>1, <2>2, <2>5, GroundThread DEF Climbing
  <2>7. \A u \in Thread \ {t} : Undisturbed(u)
    BY <1>4, <1>a, <2>1, <2>4 DEF Undisturbed, Remove, ShutdownOne, Lock
  <2> QED BY <2>6, <2>7, StepOf
<1>5. ASSUME \/ Purged(t) \/ Collect(t)
             \/ \E a \in Appender : DeleteAppender(t, a)
      PROVE  \A u \in Thread : ThreadInv(u)'
  <2>1. /\ pc[t] \in {"idle", "purge", "force"} /\ pc'[t] \in {"idle", "purge"}
        /\ UNCHANGED <<owner, attached, path, got, level, at>>
    BY <1>5, <1>a DEF Purged, Collect, DeleteAppender
  <2>2. /\ path[t] = <<>> /\ got[t] = {}
        /\ owner["appenders"] # t /\ \A d \in Category : owner[d] # t
    BY <2>1, GroundFacts DEF Climbing
  <2>3. ThreadInv(t)'
    BY <2>1, <2>2, GroundThread DEF Climbing
  <2>4. \A u \in Thread \ {t} : Undisturbed(u)
    BY <1>5, <1>a, <2>1 DEF Undisturbed, Purged, Collect, DeleteAppender
  <2> QED BY <2>3, <2>4, StepOf
<1>6. CASE Detach(t)
  <2> DEFINE c == at[t]
  <2>1. /\ pc[t] = "delete" /\ pc'[t] \in {"shut", "idle"}
        /\ owner[c] = t /\ owner' = [owner EXCEPT ![c] = Nobody]
        /\ UNCHANGED <<path, got, level, todo>>
        /\ attached' = [attached EXCEPT ![c] = @ \ drop[t]]
        /\ c \in Category /\ c \in Lock
    BY <1>6, <1>a DEF Detach, Holds, Lock
  <2>2. /\ path[t] = <<>> /\ got[t] = {} /\ owner["appenders"] # t
    BY <2>1, GroundFacts DEF Climbing
  <2>3. \A k \in Lock : owner'[k] = IF k = c THEN Nobody ELSE owner[k]
    BY <1>a, <2>1
  <2>4. owner'["appenders"] # t /\ \A d \in Category : owner'[d] # t
    BY <1>a, <2>1, <2>2, <2>3 DEF Holds, Lock, Climbing
  <2>5. ThreadInv(t)'
    BY <2>1, <2>2, <2>4, GroundThread DEF Climbing
  <2>6. \A u \in Thread \ {t} : Undisturbed(u)
    <3> SUFFICES ASSUME NEW u \in Thread \ {t} PROVE Undisturbed(u)
      OBVIOUS
    <3>1. /\ \A k \in Category : owner'[k] = u <=> owner[k] = u
          /\ owner'["appenders"] = u => owner["appenders"] = u
      BY <1>a, <2>1, <2>3 DEF Lock
    <3>2. \A d \in Category : owner[d] = u => attached'[d] = attached[d]
      BY <1>a, <2>1
    <3>3. pc'[u] = pc[u] /\ at'[u] = at[u]
      BY <1>6, <1>a DEF Detach
    <3> QED BY <2>1, <3>1, <3>2, <3>3 DEF Undisturbed
  <2> QED BY <2>5, <2>6, StepOf
<1>7. CASE Shutdown(t) \/ ShutdownEnd(t)
  <2>1. /\ pc[t] \in {"idle", "shut"} /\ pc'[t] \in {"shut", "idle", "force"}
        /\ UNCHANGED <<attached, at, path, got, level, todo>>
        /\ \A k \in Lock \ {"categories"} : owner'[k] = owner[k]
    BY <1>7, <1>a DEF Shutdown, ShutdownEnd
  <2>2. /\ path[t] = <<>> /\ got[t] = {}
        /\ owner["appenders"] # t /\ \A d \in Category : owner[d] # t
    BY <2>1, GroundFacts DEF Climbing
  <2>3. owner'["appenders"] # t /\ \A d \in Category : owner'[d] # t
    BY <2>1, <2>2, LocksAssumption DEF Lock
  <2>4. ThreadInv(t)'
    BY <2>1, <2>2, <2>3, GroundThread DEF Climbing
  <2>5. \A u \in Thread \ {t} : pc'[u] = pc[u]
    BY <1>7, <1>a DEF Shutdown, ShutdownEnd
  <2>6. \A u \in Thread \ {t} : Undisturbed(u)
    BY <2>1, <2>5, LocksAssumption DEF Undisturbed, Lock
  <2> QED BY <2>4, <2>6, StepOf
<1>8. CASE ReopenAll(t) \/ CloseAll(t)
  <2>1. /\ pc[t] = "idle" /\ pc'[t] \in {"reopen", "close"}
        /\ UNCHANGED <<attached, at, path, got, level>>
        /\ \A k \in Lock \ {"appenders"} : owner'[k] = owner[k]
        /\ owner'["appenders"] = t
    BY <1>8, <1>a DEF ReopenAll, CloseAll, Lock
  <2>2. path[t] = <<>> /\ \A d \in Category : owner[d] # t
    BY <2>1, GroundFacts DEF Climbing
  <2>3. \A d \in Category : owner'[d] = owner[d]
    BY <2>1, LocksAssumption DEF Lock
  <2>4. ThreadInv(t)'
    BY <2>1, <2>2, <2>3, GroundThread DEF Climbing
  <2>5. \A u \in Thread \ {t} : pc'[u] = pc[u] /\ todo'[u] = todo[u]
    BY <1>8, <1>a DEF ReopenAll, CloseAll
  <2>6. \A u \in Thread \ {t} : Undisturbed(u)
    BY <2>1, <2>3, <2>5 DEF Undisturbed
  <2> QED BY <2>4, <2>6, StepOf
<1>9. ASSUME NEW a \in Appender, Visit(t, a)
      PROVE  \A u \in Thread : ThreadInv(u)'
  <2>1. /\ pc[t] \in {"reopen", "close"}
        /\ UNCHANGED <<attached, at, pc, owner, path, level>>
    BY <1>9 DEF Visit
  <2>2. path[t] = <<>> /\ \A d \in Category : owner[d] # t
    BY <1>a, <2>1, GroundFacts DEF Climbing, Holds
  <2>3. ThreadInv(t)'
    BY <2>1, <2>2, GroundThread DEF Climbing
  <2>4. \A u \in Thread \ {t} : todo'[u] = todo[u] /\ got'[u] = got[u]
    BY <1>9, <1>a DEF Visit
  <2>5. \A u \in Thread \ {t} : Undisturbed(u)
    BY <2>1, <2>4 DEF Undisturbed
  <2> QED BY <2>3, <2>5, StepOf
<1>10. CASE SweepEnd(t)
  <2>1. /\ pc[t] \in {"reopen", "close"} /\ pc'[t] = "idle" /\ got'[t] = {}
        /\ UNCHANGED <<attached, path, todo>>
        /\ owner' = [owner EXCEPT !["appenders"] = Nobody]
    BY <1>10, <1>a DEF SweepEnd
  <2>2. path[t] = <<>> /\ \A d \in Category : owner[d] # t
    BY <1>a, <2>1, GroundFacts DEF Climbing, Holds
  <2>3. /\ owner'["appenders"] = Nobody
        /\ \A d \in Category : owner'[d] = owner[d]
    BY <1>a, <2>1, LocksAssumption DEF Lock
  <2>4. ThreadInv(t)'
    BY <1>a, <2>1, <2>2, <2>3, GroundThread, ZenonT(60) DEF Climbing
  <2>5. \A u \in Thread \ {t} : /\ pc'[u] = pc[u] /\ got'[u] = got[u]
                                /\ at'[u] = at[u] /\ level'[u] = level[u]
    BY <1>10, <1>a DEF SweepEnd
  <2>6. \A u \in Thread \ {t} : Undisturbed(u)
    BY <1>a, <2>1, <2>3, <2>5 DEF Undisturbed
  <2> QED BY <2>4, <2>6, StepOf
<1> QED
  BY <1>1, <1>2, <1>3, <1>4, <1>5, <1>6, <1>7, <1>8, <1>9, <1>10 DEF Configuring

\* Hence every step does.
LEMMA NextLockInv == LockInv /\ [Next]_vars => LockInv'
<1> SUFFICES ASSUME LockInv, [Next]_vars PROVE LockInv'
  OBVIOUS
<1>1. TypeInv'
  BY NextTreeTyped, NextHeapTyped, NextPlaceTyped, NextWorkTyped
     DEF LockInv, ThreadInv, TypeInv
<1>2. ASSUME Next PROVE \A u \in Thread : ThreadInv(u)'
  BY <1>2, LoggingThreadInv, ConfiguringThreadInv DEF Next, Thread
<1>3. ASSUME UNCHANGED vars PROVE \A u \in Thread : ThreadInv(u)'
  BY <1>3, QuietStep DEF vars
<1> QED BY <1>1, <1>2, <1>3 DEF LockInv

\* The mutexes are held as the code means them to be.
LEMMA LockInvariance == Spec => []LockInv
  BY InitLockInv, NextLockInv, PTL DEF Spec

\* An event reaches one snapshot of the appenders on its way up, for any tree,
\* appenders and threads (Category::callAppenders keeps the mutex of every
\* category it has passed while it calls itself on the parent).
THEOREM EventsAreDelivered == Spec => []SnapshotDelivered
<1>1. LockInv => SnapshotDelivered
  BY DEF LockInv, ThreadInv, Delivered, SnapshotDelivered
<1> QED BY LockInvariance, <1>1, PTL

\* What a thread that keeps another one waiting is doing.
LEMMA WantedFacts ==
  ASSUME LockInv, NEW t \in Thread, NEW u \in Thread, WaitsFor(t, u)
  PROVE  \/ pc[u] \in {"reopen", "close"}
         \/ /\ pc[t] \in {"enter", "shut"}
            /\ \E k \in Category :
                  /\ pc[t] = "enter" => k = at[t]
                  /\ \/ pc[u] = "enter" /\ Above(at[u], k)
                     \/ pc[u] \in {"call", "unwind", "delete"}
<1>1. PICK k \in Wanted(t) : owner[k] = u
  BY DEF WaitsFor
<1>2. CASE k = "appenders"
  BY <1>1, <1>2 DEF LockInv, ThreadInv, Holds
<1>3. CASE k # "appenders"
  <2>1. /\ pc[t] \in {"enter", "shut"}
        /\ pc[t] = "enter" => k = at[t]
        /\ pc[t] = "shut" => k \in rest[t]
    BY <1>1, <1>3 DEF Wanted
  <2>2. k \in Category
    BY <2>1 DEF LockInv, TypeInv, PlaceTyped, TreeTyped
  <2>3. \/ pc[u] \in Climbing /\ k \in Elements(path[u])
        \/ pc[u] = "delete"
    BY <1>1, <2>2 DEF LockInv, ThreadInv, Holds
  <2>4. CASE pc[u] = "enter"
    <3>1. PICK i \in 1..Len(path[u]) : path[u][i] = k
      BY <2>3, <2>4 DEF Elements
    <3>2. Above(at[u], k)
      BY <2>4, <3>1 DEF LockInv, ThreadInv, Ascends
    <3> QED BY <2>1, <2>2, <2>4, <3>2
  <2>5. CASE pc[u] # "enter"
    BY <2>1, <2>2, <2>3, <2>5 DEF Climbing
  <2> QED BY <2>4, <2>5
<1> QED BY <1>2, <1>3

\* No set of threads waits for each other (the ScopedLocks of Category.cpp,
\* HierarchyMaintainer.cpp and Appender.cpp).  Of the threads in a circle none
\* has the registry, so none waits for it; each waits for a category, and the
\* one it waits for climbs above that category: a circle would climb forever.
THEOREM NobodyWaitsInACircle == Spec => []NoDeadlock
<1>1. LockInv => NoDeadlock
  <2> SUFFICES ASSUME LockInv, NEW S \in SUBSET Thread, S # {},
                      \A t \in S : \E u \in S : WaitsFor(t, u)
               PROVE  FALSE
    BY DEF NoDeadlock
  <2>1. \A t \in S : pc[t] \in {"enter", "shut", "force", "delete", "purge"}
    BY DEF WaitsFor, Wanted
  <2>2. ASSUME NEW t \in S
        PROVE  \E u \in S, k \in Category :
                  /\ pc[t] \in {"enter", "shut"}
                  /\ pc[t] = "enter" => k = at[t]
                  /\ \/ pc[u] = "enter" /\ Above(at[u], k)
                     \/ pc[u] \in {"call", "unwind", "delete"}
    <3>1. PICK u \in S : WaitsFor(t, u)
      OBVIOUS
    <3>2. pc[u] \notin {"reopen", "close"}
      BY <2>1
    <3> QED BY <3>1, <3>2, WantedFacts
  <2>3. \A t \in S : pc[t] \in {"enter", "shut"}
    BY <2>2
  <2>4. ASSUME NEW t \in S
        PROVE  \E u \in S, k \in Category :
                  /\ pc[t] = "enter" => k = at[t]
                  /\ pc[u] = "enter" /\ Above(at[u], k)
    BY <2>2, <2>3, ZenonT(60)
  <2> DEFINE A == {at[t] : t \in {v \in S : pc[v] = "enter"}}
             B == {c \in Category : \E d \in A : d \in Chain[c]}
  <2>5. A # {} /\ A \subseteq Category
    <3>1. PICK u \in S : pc[u] = "enter"
      BY <2>4
    <3>2. at[u] \in A
      BY <3>1
    <3>3. at \in [Thread -> known] /\ known \subseteq Category
      BY DEF LockInv, TypeInv, PlaceTyped, TreeTyped
    <3>4. \A v \in S : at[v] \in Category
      BY <3>3
    <3> QED BY <3>2, <3>4
  <2>6. \A d \in A : \E e \in A : Above(e, d)
    <3> SUFFICES ASSUME NEW t \in S, pc[t] = "enter"
                 PROVE  \E e \in A : Above(e, at[t])
      OBVIOUS
    <3>1. PICK u \in S, k \in Category :
             /\ pc[t] = "enter" => k = at[t]
             /\ pc[u] = "enter" /\ Above(at[u], k)
      BY <2>4
    <3>2. Above(at[u], at[t]) /\ at[u] \in A
      BY <3>1
    <3> QED BY <3>2
  <2>7. B \in SUBSET Category /\ B # {}
    BY <2>5, ChainFacts
  <2>8. PICK c \in B : c = Root \/ Parent[c] \notin B
    BY <2>7, ParentAssumption
  <2>9. PICK d \in A : d \in Chain[c]
    OBVIOUS
  <2>10. PICK e \in A : Above(e, d)
    BY <2>6
  <2>11. c # Root
    BY <2>9, <2>10, ChainUnfold DEF Above
  <2>12. Parent[c] \in Category /\ Chain[c] = {c} \cup Chain[Parent[c]]
    BY <2>11, ChainUnfold
  <2>13. d = c
    BY <2>8, <2>9, <2>11, <2>12
  <2>14. Parent[c] \in B
    BY <2>10, <2>12, <2>13 DEF Above
  <2> QED BY <2>8, <2>11, <2>14
<1> QED BY LockInvariance, <1>1, PTL

-----------------------------------------------------------------------------
(* Lives of appenders: the steps of logging.                                *)

\* The lives of the appenders in the initial state.
LEMMA InitLifeInv ==
  ASSUME NEW m \in Thread, Init
  PROVE  LifeInv(m)
<1>1. HeapSound(m)
  BY DEF Init, HeapSound, Name
<1>2. CallsSound(m) /\ AdminSound(m)
  BY DEF Init, CallsSound, AdminSound, Busy
<1>3. ShutSound(m)
  BY NullsAssumption DEF Init, ShutSound, Lock
<1> QED BY <1>1, <1>2, <1>3 DEF LifeInv

\* A step of logging changes nothing that m works with.
LEMMA LoggingLifeInv ==
  ASSUME NEW m \in Thread, OneAdmin(m), LockInv, LifeInv(m),
         NEW t \in Thread, Logging(t)
  PROVE  LifeInv(m)'
<1>a. /\ Nobody \notin Thread
      /\ pc \in [Thread -> Label] /\ at \in [Thread -> Category]
      /\ todo \in [Thread -> SUBSET Appender]
      /\ owner \in [Lock -> Thread \cup {Nobody}]
      /\ path \in [Thread -> Seq(Category)]
      /\ ThreadInv(t)
  BY NullsAssumption DEF LockInv, TypeInv, PlaceTyped, WorkTyped, TreeTyped
<1>b. HeapSound(m) /\ CallsSound(m) /\ AdminSound(m) /\ ShutSound(m)
  BY DEF LifeInv
<1>1. UNCHANGED <<known, heap, drop, rest>>
  BY DEF Logging, Log, GetStream, LogFixed, Walk, Flush, Enter, DoAppend, Up, Unwind
<1>2. pc[t] \notin Busy /\ pc'[t] \notin Busy
  <2>1. ASSUME NEW c \in Category, NEW l \in Level,
               Log(t, c, l) \/ GetStream(t, c, l) \/ LogFixed(t, c, l)
        PROVE  pc[t] \notin Busy /\ pc'[t] \notin Busy
    BY <1>a, <2>1 DEF Log, GetStream, LogFixed, Busy
  <2>2. ASSUME \/ Walk(t) \/ Flush(t) \/ Enter(t) \/ Up(t) \/ Unwind(t)
               \/ \E a \in Appender : DoAppend(t, a)
        PROVE  pc[t] \notin Busy /\ pc'[t] \notin Busy
    BY <1>a, <2>2 DEF Walk, Flush, Enter, Up, Unwind, DoAppend, Busy
  <2> QED BY <2>1, <2>2 DEF Logging
<1>3. \A u \in Thread \ {t} : pc'[u] = pc[u] /\ at'[u] = at[u] /\ todo'[u] = todo[u]
  <2>1. ASSUME NEW c \in Category, NEW l \in Level,
               Log(t, c, l) \/ GetStream(t, c, l) \/ LogFixed(t, c, l)
        PROVE  \A u \in Thread \ {t} :
                  pc'[u] = pc[u] /\ at'[u] = at[u] /\ todo'[u] = todo[u]
    BY <1>a, <2>1 DEF Log, GetStream, LogFixed
  <2>2. ASSUME \/ Walk(t) \/ Flush(t) \/ Enter(t) \/ Up(t) \/ Unwind(t)
               \/ \E a \in Appender : DoAppend(t, a)
        PROVE  \A u \in Thread \ {t} :
                  pc'[u] = pc[u] /\ at'[u] = at[u] /\ todo'[u] = todo[u]
    BY <1>a, <2>2 DEF Walk, Flush, Enter, Up, Unwind, DoAppend
  <2> QED BY <2>1, <2>2 DEF Logging
<1>4. owner'["categories"] = owner["categories"]
  <2>1. CASE Enter(t)
    BY <1>a, <2>1, LocksAssumption DEF Enter
  <2>2. CASE Unwind(t)
    <3>1. Head(path[t]) \in Category
      BY <1>a, <2>2, PopFacts DEF Unwind, ThreadInv, Holds
    <3> QED BY <1>a, <2>2, <3>1, LocksAssumption DEF Unwind
  <2>3. ASSUME NEW c \in Category, NEW l \in Level,
               Log(t, c, l) \/ GetStream(t, c, l) \/ LogFixed(t, c, l)
        PROVE  owner' = owner
    BY <2>3 DEF Log, GetStream, LogFixed
  <2>4. ASSUME Walk(t) \/ Flush(t) \/ Up(t) \/ \E a \in Appender : DoAppend(t, a)
        PROVE  owner' = owner
    BY <2>4 DEF Walk, Flush, Up, DoAppend
  <2> QED BY <2>1, <2>2, <2>3, <2>4 DEF Logging
<1>5. pc'[t] = "call" => \A a \in todo'[t] : object[a] = "live"
  <2>1. CASE Enter(t)
    <3>1. todo'[t] = attached[at[t]] /\ at[t] \in Category /\ owner[at[t]] = Nobody
      BY <1>a, <2>1 DEF Enter
    <3>2. ~(pc[m] = "delete" /\ at[m] = at[t])
      BY <1>a, <3>1 DEF LockInv, ThreadInv, Holds
    <3> QED BY <1>b, <3>1, <3>2 DEF HeapSound
  <2>2. ASSUME NEW a \in Appender, DoAppend(t, a)
        PROVE  \A b \in todo'[t] : object[b] = "live"
    BY <1>a, <1>b, <2>2 DEF DoAppend, CallsSound
  <2>3. ASSUME NEW c \in Category, NEW l \in Level,
               Log(t, c, l) \/ GetStream(t, c, l) \/ LogFixed(t, c, l)
        PROVE  pc'[t] # "call"
    BY <1>a, <2>3 DEF Log, GetStream, LogFixed
  <2>4. ASSUME Walk(t) \/ Flush(t) \/ Up(t) \/ Unwind(t)
        PROVE  pc'[t] # "call"
    BY <1>a, <2>4 DEF Walk, Flush, Up, Unwind
  <2> QED BY <2>1, <2>2, <2>3, <2>4 DEF Logging
<1>6. /\ pc[m] \in Busy \/ pc'[m] \in Busy =>
            pc'[m] = pc[m] /\ at'[m] = at[m] /\ todo'[m] = todo[m]
      /\ UNCHANGED <<known, attached, owns, object, registry, drop, rest>>
  BY <1>1, <1>2, <1>3
<1>7. HeapSound(m)'
  BY <1>b, <1>6 DEF HeapSound, Busy
<1>8. CallsSound(m)'
  BY <1>b, <1>1, <1>2, <1>3, <1>5 DEF CallsSound
<1>9. AdminSound(m)'
  BY <1>b, <1>6 DEF AdminSound, Busy
<1>10. ShutSound(m)'
  BY <1>b, <1>4, <1>6 DEF ShutSound, Busy
<1> QED BY <1>7, <1>8, <1>9, <1>10 DEF LifeInv

-----------------------------------------------------------------------------
(* Lives of appenders: the steps that configure.                            *)

\* A step of m deletes nothing that another thread is about to call.
LEMMA CallersAreSafe ==
  ASSUME NEW m \in Thread, OneAdmin(m), LockInv, LifeInv(m), Configuring(m)
  PROVE  CallsSound(m)'
<1>a. /\ pc \in [Thread -> Label] /\ at \in [Thread -> Category]
      /\ todo \in [Thread -> SUBSET Appender]
      /\ object \in [Appender -> {"none", "live", "dying", "freed"}]
      /\ \A u \in Thread : ThreadInv(u)
  BY DEF LockInv, TypeInv, PlaceTyped, WorkTyped, TreeTyped, HeapTyped
<1>b. HeapSound(m) /\ CallsSound(m) /\ AdminSound(m)
  BY DEF LifeInv
<1> DEFINE MovesOnly ==
        /\ \A u \in Thread \ {m} : pc'[u] = pc[u] /\ todo'[u] = todo[u]
        /\ pc'[m] # "call"
<1>1. MovesOnly
  <2>1. ASSUME NEW c \in Category,
               \/ GetInstance(m, c) \/ Remove(m, c) \/ ShutdownOne(m, c)
               \/ \E p \in Given : SetPriority(m, c, p)
               \/ \E b \in BOOLEAN : SetAdditivity(m, c, b)
               \/ \E a \in Appender : AddAppender(m, c, a)
        PROVE  MovesOnly
    BY <1>a, <2>1 DEF GetInstance, Remove, ShutdownOne, SetPriority, SetAdditivity, AddAppender
  <2>2. ASSUME NEW a \in Appender,
               \/ NewAppender(m, a) \/ DeleteAppender(m, a)
               \/ BeginDelete(m, a) \/ EndDelete(m, a) \/ Visit(m, a)
        PROVE  MovesOnly
    BY <1>a, <2>2 DEF NewAppender, DeleteAppender, BeginDelete, EndDelete, Visit
  <2>3. ASSUME \/ Detach(m) \/ Purged(m) \/ Shutdown(m) \/ ShutdownEnd(m) \/ Collect(m)
               \/ ReopenAll(m) \/ CloseAll(m) \/ SweepEnd(m)
        PROVE  MovesOnly
    BY <1>a, <2>3
       DEF Detach, Purged, Shutdown, ShutdownEnd, Collect, ReopenAll, CloseAll, SweepEnd
  <2> QED BY <2>1, <2>2, <2>3 DEF Configuring
<1>2. ASSUME NEW u \in Thread \ {m}, pc[u] = "call", NEW a \in todo[u]
      PROVE  object'[a] = "live"
  <2>1. object[a] = "live" /\ a \in Appender
    BY <1>a, <1>b, <1>2 DEF CallsSound
  <2>2. owner[at[u]] = u /\ a \in attached[at[u]]
    <3>1. path[u] # <<>> /\ path[u][1] = at[u] /\ path[u] \in Seq(Category)
      BY <1>a, <1>2 DEF ThreadInv, Holds, LockInv, TypeInv, WorkTyped
    <3>2. 1 \in 1..Len(path[u])
      BY <3>1, EmptySeq
    <3> QED BY <1>a, <1>2, <3>1, <3>2, SMTT(60) DEF ThreadInv, Holds, Delivered, Climbing
  <2>3. ASSUME NEW b \in Appender, BeginDelete(m, b) PROVE b # a
    <3>1. CASE pc[m] = "delete"
      <4>1. at[u] # at[m]
        BY <1>a, <2>2, <3>1 DEF ThreadInv, Holds
      <4> QED BY <1>a, <1>b, <2>2, <2>3, <3>1, <4>1 DEF BeginDelete, AdminSound, HeapSound
    <3>2. CASE pc[m] = "purge"
      BY <1>a, <1>b, <2>2, <2>3, <3>2 DEF BeginDelete, AdminSound
    <3> QED BY <2>3, <3>1, <3>2 DEF BeginDelete
  <2>4. ASSUME NEW b \in Appender,
               NewAppender(m, b) \/ BeginDelete(m, b) \/ EndDelete(m, b)
        PROVE  object'[a] = "live"
    BY <1>a, <2>1, <2>3, <2>4 DEF NewAppender, BeginDelete, EndDelete
  <2>5. ASSUME NEW c \in Category,
               \/ GetInstance(m, c) \/ Remove(m, c) \/ ShutdownOne(m, c)
               \/ \E p \in Given : SetPriority(m, c, p)
               \/ \E b \in BOOLEAN : SetAdditivity(m, c, b)
               \/ \E b \in Appender : AddAppender(m, c, b)
        PROVE  object' = object
    BY <2>5 DEF GetInstance, Remove, ShutdownOne, SetPriority, SetAdditivity, AddAppender
  <2>6. ASSUME \/ \E b \in Appender : DeleteAppender(m, b) \/ Visit(m, b)
               \/ Detach(m) \/ Purged(m) \/ Shutdown(m) \/ ShutdownEnd(m) \/ Collect(m)
               \/ ReopenAll(m) \/ CloseAll(m) \/ SweepEnd(m)
        PROVE  object' = object
    BY <2>6 DEF DeleteAppender, Visit, Detach, Purged, Shutdown, ShutdownEnd, Collect,
                ReopenAll, CloseAll, SweepEnd
  <2> QED BY <2>1, <2>4, <2>5, <2>6 DEF Configuring
<1> QED BY <1>1, <1>2, <1>b DEF CallsSound, Busy

\* What the steps of m do to the rest of the invariant.
LEMMA ConfiguringLifeInv ==
  ASSUME NEW m \in Thread, OneAdmin(m), LockInv, LifeInv(m), Configuring(m)
  PROVE  LifeInv(m)'
<1> DEFINE Sound == HeapSound(m)' /\ AdminSound(m)' /\ ShutSound(m)'
<1>a. /\ pc \in [Thread -> Label] /\ at \in [Thread -> Category]
      /\ todo \in [Thread -> SUBSET Appender] /\ drop \in [Thread -> SUBSET Appender]
      /\ rest \in [Thread -> SUBSET Category]
      /\ forced \in [Thread -> BOOLEAN]
      /\ object \in [Appender -> {"none", "live", "dying", "freed"}]
      /\ attached \in [Category -> SUBSET Appender]
      /\ owns \in [Category -> SUBSET Appender]
      /\ registry \in [Name -> Appender \cup {NoAppender}]
      /\ owner \in [Lock -> Thread \cup {Nobody}]
      /\ \A a \in Appender : NameOf[a] \in Name
      /\ m # Nobody /\ NoAppender \notin Appender
      /\ \A c \in Category : c # "categories" /\ c # "appenders" /\ c \in Lock
      /\ "categories" \in Lock /\ "appenders" \in Lock
  BY NullsAssumption, LocksAssumption, ZenonT(60)
     DEF LockInv, TypeInv, PlaceTyped, WorkTyped, TreeTyped, HeapTyped, Lock, Name
<1>b. HeapSound(m) /\ AdminSound(m) /\ ShutSound(m)
  BY DEF LifeInv
<1>c. \A a, b \in Appender : NameOf[a] = NameOf[b] => a = b
  BY DEF OneAdmin
<1>1. ASSUME NEW c \in Category,
             \/ GetInstance(m, c)
             \/ \E p \in Given : SetPriority(m, c, p)
             \/ \E b \in BOOLEAN : SetAdditivity(m, c, b)
      PROVE  Sound
  <2>1. /\ pc[m] = "idle" /\ known \subseteq known'
        /\ UNCHANGED <<heap, owner, pc, locals>>
    BY <1>1 DEF GetInstance, SetPriority, SetAdditivity
  <2>2. HeapSound(m)'
    BY <1>b, <2>1 DEF HeapSound
  <2> QED BY <1>b, <2>1, <2>2 DEF AdminSound, ShutSound
<1>2. ASSUME NEW a \in Appender, NewAppender(m, a)
      PROVE  Sound
  <2>1. /\ pc[m] = "idle" /\ pc' = pc
        /\ object[a] \in {"none", "freed"}
        /\ \A b \in Appender : object'[b] = IF b = a THEN "live" ELSE object[b]
        /\ \A n \in Name : registry'[n] = IF n = NameOf[a] THEN a ELSE registry[n]
        /\ UNCHANGED <<known, attached, owns, owner, locals>>
    BY <1>2, <1>a DEF NewAppender
  <2>2. HeapSound(m)'
    BY <1>a, <1>b, <1>c, <2>1, SMTT(150) DEF HeapSound
  <2> QED BY <1>b, <2>1, <2>2 DEF AdminSound, ShutSound
<1>3. ASSUME NEW c \in Category, NEW a \in Appender, AddAppender(m, c, a)
      PROVE  Sound
  <2>1. /\ pc[m] = "idle" /\ pc' = pc /\ c \in known
        /\ object[a] = "live" /\ \A d \in Category : a \notin owns[d]
        /\ \A d \in Category : attached'[d] = IF d = c THEN attached[d] \cup {a} ELSE attached[d]
        /\ \/ /\ \A d \in Category : a \notin attached[d]
              /\ \A d \in Category : owns'[d] = IF d = c THEN owns[d] \cup {a} ELSE owns[d]
           \/ owns' = owns
        /\ UNCHANGED <<known, object, registry, owner, locals>>
    BY <1>3, <1>a, ZenonT(60) DEF AddAppender, MayPass, MayLend, Owned, Attached, OneAdmin
  <2>3. ASSUME NEW d \in Category, NEW e \in Category, NEW b \in Appender,
               b \in owns'[d], b \in attached'[e]
        PROVE  d = e
    <3>1. CASE b = a
      BY <2>1, <2>3, <3>1, ZenonT(60)
    <3>2. CASE b # a
      <4>1. b \in owns[d] /\ b \in attached[e]
        BY <2>1, <2>3, <3>2, ZenonT(60)
      <4> QED BY <1>b, <4>1 DEF HeapSound
    <3> QED BY <3>1, <3>2
  <2>4. ASSUME NEW d \in Category, NEW b \in attached'[d]
        PROVE  object'[b] = "live"
    <3>1. b = a \/ b \in attached[d]
      BY <2>1, <2>4
    <3> QED BY <1>b, <2>1, <3>1 DEF HeapSound
  <2>2. HeapSound(m)'
    BY <1>b, <2>1, <2>3, <2>4, ZenonT(60) DEF HeapSound
  <2> QED BY <1>b, <2>1, <2>2 DEF AdminSound, ShutSound
<1>4. ASSUME NEW c \in Category, Remove(m, c) \/ ShutdownOne(m, c)
      PROVE  Sound
  <2>1. \E S \in SUBSET attached[c] :
           /\ pc[m] = "idle" \/ (pc[m] = "shut" /\ S = attached[c] /\ c \in rest[m])
           /\ pc'[m] = "delete" /\ at'[m] = c /\ drop'[m] = S
           /\ todo'[m] = S \cap owns[c]
           /\ owner'["categories"] = owner["categories"]
           /\ rest'[m] = IF pc[m] = "idle" THEN rest[m] ELSE rest[m] \ {c}
           /\ UNCHANGED <<tree, heap>>
    <3>1. CASE Remove(m, c)
      <4>1. PICK S \in {{a} : a \in attached[c]} \cup {attached[c]} : Empty(m, c, S)
        BY <3>1 DEF Remove
      <4>2. S \in SUBSET attached[c]
        OBVIOUS
      <4>3. pc[m] = "idle" /\ UNCHANGED <<tree, heap, rest>>
        BY <3>1 DEF Remove
      <4>4. /\ pc'[m] = "delete" /\ at'[m] = c /\ drop'[m] = S
            /\ todo'[m] = S \cap owns[c]
        BY <4>1, <1>a
      <4>5. owner'["categories"] = owner["categories"]
        BY <4>1, <1>a
      <4> WITNESS S \in SUBSET attached[c]
      <4> QED BY <4>3, <4>4, <4>5
    <3>2. CASE ShutdownOne(m, c)
      <4> WITNESS attached[c] \in SUBSET attached[c]
      <4> QED BY <3>2, <1>a DEF ShutdownOne
    <3> QED BY <1>4, <3>1, <3>2
  <2>2. HeapSound(m)'
    BY <1>b, <2>1 DEF HeapSound
  <2>3. AdminSound(m)'
    BY <1>a, <1>b, <2>1 DEF AdminSound, HeapSound
  <2>4. ShutSound(m)'
    BY <1>a, <1>b, <2>1 DEF ShutSound
  <2> QED BY <2>2, <2>3, <2>4
<1>5. ASSUME NEW a \in Appender, DeleteAppender(m, a)
      PROVE  Sound
  <2>1. /\ pc[m] = "idle" /\ pc'[m] = "purge" /\ todo'[m] = {a}
        /\ object[a] = "live" /\ \A c \in Category : a \notin attached[c]
        /\ UNCHANGED <<tree, heap, owner, rest>>
    BY <1>5, <1>a DEF DeleteAppender, Attached
  <2>2. HeapSound(m)'
    BY <1>b, <2>1 DEF HeapSound
  <2>3. AdminSound(m)'
    BY <1>b, <2>1 DEF AdminSound
  <2>4. ShutSound(m)'
    BY <1>b, <2>1 DEF ShutSound
  <2> QED BY <2>2, <2>3, <2>4
<1>6. ASSUME NEW a \in Appender, BeginDelete(m, a)
      PROVE  Sound
  <2>1. /\ pc[m] \in {"delete", "purge"} /\ pc' = pc /\ a \in todo[m]
        /\ \A b \in Appender : object'[b] = IF b = a THEN "dying" ELSE object[b]
        /\ UNCHANGED <<tree, attached, owns, registry, owner, locals>>
    BY <1>6, <1>a DEF BeginDelete
  <2>2. \A c \in Category : a \in attached[c] =>
           pc[m] = "delete" /\ at[m] = c /\ a \in drop[m]
    BY <1>a, <1>b, <2>1 DEF AdminSound, HeapSound
  <2>3. HeapSound(m)'
    BY <1>a, <1>b, <2>1, <2>2 DEF HeapSound
  <2>4. AdminSound(m)'
    BY <1>a, <1>b, <2>1 DEF AdminSound
  <2>5. ShutSound(m)'
    BY <1>b, <2>1 DEF ShutSound
  <2> QED BY <2>3, <2>4, <2>5
<1>7. ASSUME NEW a \in Appender, EndDelete(m, a)
      PROVE  Sound
  <2>1. /\ pc[m] \in {"delete", "purge"} /\ pc' = pc /\ a \in todo[m]
        /\ todo'[m] = todo[m] \ {a}
        /\ \A b \in Appender : object'[b] = IF b = a THEN "freed" ELSE object[b]
        /\ \A n \in Name : registry'[n] = IF n = NameOf[a] THEN NoAppender ELSE registry[n]
        /\ UNCHANGED <<tree, attached, owns, owner, at, drop, rest>>
    BY <1>7, <1>a DEF EndDelete
  <2>2. \A c \in Category : a \in attached[c] =>
           pc[m] = "delete" /\ at[m] = c /\ a \in drop[m]
    BY <1>a, <1>b, <2>1 DEF AdminSound, HeapSound
  <2>3. HeapSound(m)'
    BY <1>a, <1>b, <1>c, <2>1, <2>2, SMTT(150) DEF HeapSound
  <2>4. AdminSound(m)'
    BY <1>a, <1>b, <2>1 DEF AdminSound
  <2>5. ShutSound(m)'
    BY <1>b, <2>1 DEF ShutSound
  <2> QED BY <2>3, <2>4, <2>5
<1>8. ASSUME Detach(m)
      PROVE  Sound
  <2>1. /\ pc[m] = "delete" /\ todo[m] = {} /\ at[m] \in Category
        /\ pc'[m] = IF owner["categories"] = m THEN "shut" ELSE "idle"
        /\ \A c \in Category :
              /\ attached'[c] = IF c = at[m] THEN attached[c] \ drop[m] ELSE attached[c]
              /\ owns'[c] = IF c = at[m] THEN owns[c] \ drop[m] ELSE owns[c]
        /\ owner'["categories"] = owner["categories"]
        /\ UNCHANGED <<tree, object, registry, rest>>
    BY <1>8, <1>a, ZenonT(60) DEF Detach
  <2>5. \A c \in Category : attached'[c] \subseteq attached[c] /\ owns'[c] \subseteq owns[c]
    BY <2>1, ZenonT(60)
  <2>6. ASSUME NEW c \in Category, NEW a \in attached'[c]
        PROVE  object[a] = "live"
    <3>1. a \in attached[c] /\ (c = at[m] => a \notin drop[m])
      BY <2>1, <2>6, ZenonT(60)
    <3> QED BY <1>b, <3>1 DEF HeapSound
  <2>2. HeapSound(m)'
    BY <1>b, <2>1, <2>5, <2>6 DEF HeapSound
  <2>3. AdminSound(m)'
    BY <2>1 DEF AdminSound
  <2>4. ShutSound(m)'
    BY <1>a, <1>b, <2>1, ZenonT(60) DEF ShutSound
  <2> QED BY <2>2, <2>3, <2>4
<1>9. ASSUME Purged(m)
      PROVE  Sound
  <2>1. /\ pc[m] = "purge" /\ todo[m] = {} /\ pc'[m] = "idle"
        /\ UNCHANGED <<tree, heap, owner, locals>>
    BY <1>9, <1>a DEF Purged
  <2>2. HeapSound(m)'
    BY <1>b, <2>1 DEF HeapSound
  <2> QED BY <1>b, <2>1, <2>2 DEF AdminSound, ShutSound
<1>10. ASSUME Shutdown(m)
      PROVE  Sound
  <2>1. /\ pc[m] = "idle" /\ pc'[m] = "shut" /\ rest'[m] = known
        /\ owner'["categories"] = m
        /\ UNCHANGED <<tree, heap, at, todo, drop>>
    BY <1>10, <1>a DEF Shutdown
  <2>2. HeapSound(m)'
    BY <1>b, <2>1 DEF HeapSound
  <2>3. ShutSound(m)'
    BY <1>b, <2>1 DEF ShutSound, HeapSound
  <2> QED BY <2>1, <2>2, <2>3 DEF AdminSound
<1>11. ASSUME ShutdownEnd(m)
      PROVE  Sound
  <2>1. /\ pc[m] = "shut" /\ pc'[m] \in {"force", "idle"} /\ rest[m] = {}
        /\ owner'["categories"] = Nobody
        /\ UNCHANGED <<tree, heap, locals>>
    BY <1>11, <1>a DEF ShutdownEnd
  <2>2. HeapSound(m)'
    BY <1>b, <2>1 DEF HeapSound
  <2>3. AdminSound(m)'
    BY <1>b, <2>1 DEF AdminSound, ShutSound
  <2> QED BY <1>a, <2>1, <2>2, <2>3 DEF ShutSound
<1>12. ASSUME Collect(m)
      PROVE  Sound
  <2>1. /\ pc[m] = "force" /\ pc'[m] = "purge"
        /\ todo'[m] = Registered
        /\ \A n \in Name : registry'[n] = NoAppender
        /\ UNCHANGED <<tree, attached, owns, object, owner, at, drop, rest>>
    BY <1>12, <1>a DEF Collect
  <2>2. \A c \in Category : attached[c] = {}
    BY <1>b, <2>1 DEF AdminSound
  <2>3. HeapSound(m)'
    BY <1>a, <1>b, <2>1, <2>2 DEF HeapSound, Registered
  <2>4. AdminSound(m)'
    BY <1>b, <2>1, <2>2 DEF AdminSound, HeapSound, Registered
  <2>5. ShutSound(m)'
    BY <1>b, <2>1 DEF ShutSound
  <2> QED BY <2>3, <2>4, <2>5
<1>13. ASSUME ReopenAll(m) \/ CloseAll(m)
      PROVE  Sound
  <2>1. /\ pc[m] = "idle" /\ pc'[m] \in {"reopen", "close"}
        /\ todo'[m] = Registered
        /\ owner'["categories"] = owner["categories"]
        /\ UNCHANGED <<tree, heap, at, drop, rest>>
    BY <1>13, <1>a DEF ReopenAll, CloseAll
  <2>2. HeapSound(m)'
    BY <1>b, <2>1 DEF HeapSound
  <2>3. AdminSound(m)'
    BY <1>a, <1>b, <2>1 DEF AdminSound, HeapSound, Registered
  <2> QED BY <1>b, <2>1, <2>2, <2>3 DEF ShutSound
<1>14. ASSUME \/ \E a \in Appender : Visit(m, a)
              \/ SweepEnd(m)
       PROVE  Sound
  <2>1. /\ pc[m] \in {"reopen", "close"} /\ pc'[m] \in {pc[m], "idle"}
        /\ todo'[m] \subseteq todo[m]
        /\ owner'["categories"] = owner["categories"]
        /\ UNCHANGED <<tree, heap, drop, rest>>
    BY <1>14, <1>a DEF Visit, SweepEnd
  <2>2. HeapSound(m)'
    BY <1>b, <2>1 DEF HeapSound
  <2>3. AdminSound(m)'
    BY <1>b, <2>1 DEF AdminSound
  <2> QED BY <1>b, <2>1, <2>2, <2>3 DEF ShutSound
<1>15. Sound
  <2>1. CASE \E c \in Category :
                \/ GetInstance(m, c) \/ Remove(m, c) \/ ShutdownOne(m, c)
                \/ \E p \in Given : SetPriority(m, c, p)
                \/ \E b \in BOOLEAN : SetAdditivity(m, c, b)
                \/ \E a \in Appender : AddAppender(m, c, a)
    BY <2>1, <1>1, <1>3, <1>4
  <2>2. CASE \E a \in Appender :
                \/ NewAppender(m, a) \/ DeleteAppender(m, a)
                \/ BeginDelete(m, a) \/ EndDelete(m, a) \/ Visit(m, a)
    BY <2>2, <1>2, <1>5, <1>6, <1>7, <1>14
  <2>3. CASE \/ Detach(m) \/ Purged(m) \/ Shutdown(m) \/ ShutdownEnd(m) \/ Collect(m)
             \/ ReopenAll(m) \/ CloseAll(m) \/ SweepEnd(m)
    BY <2>3, <1>8, <1>9, <1>10, <1>11, <1>12, <1>13, <1>14
  <2> QED BY <2>1, <2>2, <2>3 DEF Configuring
<1> QED BY <1>15, CallersAreSafe DEF LifeInv

\* Appenders live as long as somebody may call them.
LEMMA LifeInvariance ==
  ASSUME NEW m \in Thread, OneAdmin(m)
  PROVE  Spec => []LifeInv(m)
<1>1. Init => LifeInv(m)
  BY InitLifeInv
<1>2. LockInv /\ LifeInv(m) /\ [Next]_vars => LifeInv(m)'
  <2> SUFFICES ASSUME LockInv, LifeInv(m), [Next]_vars PROVE LifeInv(m)'
    OBVIOUS
  <2>1. CASE \E t \in Logger : Logging(t)
    BY <2>1, LoggingLifeInv DEF Thread
  <2>2. CASE \E t \in Admin : Configuring(t)
    BY <2>2, ConfiguringLifeInv DEF OneAdmin
  <2>3. CASE UNCHANGED vars
    BY <2>3 DEF vars, LifeInv, HeapSound, CallsSound, AdminSound, ShutSound
  <2> QED BY <2>1, <2>2, <2>3 DEF Next
<1> QED BY <1>1, <1>2, LockInvariance, PTL DEF Spec

\* No appender is called or deleted after its end, and the registry names the
\* living (addAppender, removeAppender, shutdown, ~Appender), for any number of
\* logging threads, when one thread configures, attaches what it has given
\* away nowhere else, and gives no name twice.
THEOREM AppendersOutliveCalls ==
  ASSUME NEW m \in Thread, OneAdmin(m)
  PROVE  Spec => []Lifetimes
<1>1. LockInv /\ LifeInv(m) => Lifetimes
  <2> SUFFICES ASSUME LockInv, LifeInv(m) PROVE Lifetimes
    OBVIOUS
  <2>a. HeapSound(m) /\ CallsSound(m) /\ AdminSound(m)
    BY DEF LifeInv
  <2>1. TypeOK
    BY TypesOfCode DEF LockInv
  <2>2. ASSUME NEW t \in Thread
        PROVE  /\ pc[t] \in {"call", "reopen", "close"} =>
                      \A a \in todo[t] : object[a] = "live"
               /\ pc[t] \in {"delete", "purge"} =>
                      \A a \in todo[t] : object[a] \in {"live", "dying"}
    BY <2>a DEF CallsSound, AdminSound, Busy
  <2>3. /\ \A n \in Name : registry[n] # NoAppender =>
               object[registry[n]] \in {"live", "dying"}
        /\ \A a \in Appender : object[a] = "live" =>
               \/ registry[NameOf[a]] = a
               \/ \E t \in Admin : pc[t] = "purge" /\ a \in todo[t]
    BY <2>a DEF HeapSound, OneAdmin
  <2> QED BY <2>1, <2>2, <2>3 DEF Lifetimes
<1> QED BY <1>1, LifeInvariance, LockInvariance, PTL

=============================================================================
