---------------------------- MODULE CategoryTree ----------------------------
(***************************************************************************)
(* The categories and appenders of git/log4cpp, the logging library of     *)
(* share_bike: Category, HierarchyMaintainer, Appender with its registry,  *)
(* AppenderSkeleton, CategoryStream and FixedContextCategory.              *)
(*                                                                         *)
(* A category has a name with dots in it, a parent, a priority, a set of   *)
(* appenders under a mutex of its own, and owns some of them.  Logging     *)
(* walks up the tree twice: without a lock to find a priority, and then    *)
(* with the mutex of every category it passes to call the appenders.  A    *)
(* ScopedLock is declared in the function body and not in the block under  *)
(* it, so callAppenders keeps the mutex while it calls itself on the       *)
(* parent.  Two more mutexes guard the map of categories and the registry  *)
(* of appenders by name; the destructor of an appender takes the latter.   *)
(*                                                                         *)
(* A step of a thread ends where it takes or gives up a mutex, or where it *)
(* reads or writes what no mutex guards.                                   *)
(***************************************************************************)
EXTENDS Integers, Sequences, FiniteSets

CONSTANTS
    Logger,         \* threads that log
    Admin,          \* threads that configure, reopen and shut down
    Nobody,         \* the owner of a free mutex
    Category,       \* names of categories
    Root,           \* the empty name
    Parent,         \* Parent[c]: the name up to the last dot
    Appender,       \* addresses of appenders
    NoAppender,     \* NULL
    NameOf,         \* NameOf[a]: the name given to the constructor
    Threshold,      \* Threshold[a]: _threshold
    Level,          \* priorities of events
    Given,          \* priorities given to setPriority
    Fixed,          \* priorities of the FixedContextCategory objects
    OwnedOnce       \* callers attach an appender somebody owns nowhere else

NOTSET == 800
INFO   == 600

Thread == Logger \cup Admin
Lock   == Category \cup {"categories", "appenders"}
Name   == {NameOf[a] : a \in Appender}

\* A parent has a shorter name, so every set of names has one whose parent is
\* not in it, or the root.
ASSUME ParentAssumption ==
    /\ Root \in Category
    /\ Parent \in [Category \ {Root} -> Category]
    /\ \A S \in SUBSET Category :
           S # {} => \E c \in S : c = Root \/ Parent[c] \notin S
ASSUME LocksAssumption == Category \cap {"categories", "appenders"} = {}
ASSUME PrioritiesAssumption == Level \cup Given \cup Fixed \subseteq Nat
ASSUME NullsAssumption == Nobody \notin Thread /\ NoAppender \notin Appender

VARIABLES
    known,      \* keys of _categoryMap
    priority,   \* _priority of each category
    additive,   \* _isAdditive
    attached,   \* _appender
    owns,       \* the appenders with a true entry in _ownsAppender
    object,     \* each appender: "none", "live", "dying" (in its destructor) or "freed"
    registry,   \* _allAppenders: name -> appender, or NoAppender
    owner,      \* owner of each mutex, or Nobody
    pc,         \* where each thread is
    from,       \* the category a thread works for
    at,         \* the category it has reached
    level,      \* priority of the event it logs
    path,       \* the categories it has locked, the innermost last call first
    todo,       \* appenders left to call, to reopen or to delete
    got,        \* pairs of a category and an appender that took the event
    drop,       \* appenders to take out of the category
    rest,       \* categories shutdown has still to empty
    forced      \* shutdownForced was called

tree   == <<known, priority, additive>>
heap   == <<attached, owns, object, registry>>
locals == <<from, at, level, path, todo, got, drop, rest, forced>>
vars   == <<tree, heap, owner, pc, locals>>

\* The ancestors getInstance creates with a category: the least set that holds
\* the category and, with a category, its parent.
ClosedUp(S) == \A c \in S \ {Root} : Parent[c] \in S
Chain[c \in Category] ==
    {d \in Category : \A S \in SUBSET Category : c \in S /\ ClosedUp(S) => d \in S}

Passes(a, l) == Threshold[a] = NOTSET \/ l <= Threshold[a]
Registered == {registry[n] : n \in Name} \ {NoAppender}
Owned == UNION {owns[c] : c \in Category}
Attached == UNION {attached[c] : c \in Category}

Init ==
    /\ known = {Root}
    /\ priority = [c \in Category |-> IF c = Root THEN INFO ELSE NOTSET]
    /\ additive = [c \in Category |-> TRUE]
    /\ attached = [c \in Category |-> {}]
    /\ owns = [c \in Category |-> {}]
    /\ object = [a \in Appender |-> "none"]
    /\ registry = [n \in Name |-> NoAppender]
    /\ owner = [k \in Lock |-> Nobody]
    /\ pc = [t \in Thread |-> "idle"]
    /\ from = [t \in Thread |-> Root]
    /\ at = [t \in Thread |-> Root]
    /\ level = [t \in Thread |-> 0]
    /\ path = [t \in Thread |-> <<>>]
    /\ todo = [t \in Thread |-> {}]
    /\ got = [t \in Thread |-> {}]
    /\ drop = [t \in Thread |-> {}]
    /\ rest = [t \in Thread |-> {}]
    /\ forced = [t \in Thread |-> FALSE]

Goto(t, label) == pc' = [pc EXCEPT ![t] = label]
Acquire(t, k) == owner[k] = Nobody /\ owner' = [owner EXCEPT ![k] = t]
Release(k) == owner' = [owner EXCEPT ![k] = Nobody]

-----------------------------------------------------------------------------
(* Slips a programmer could make in the functions below.  No behaviour of   *)
(* Spec takes one: each stands for an action in a variant of this module in *)
(* which the property named with it must fail.                              *)

\* The root category accepts NOTSET (Lifetimes).
SetPriorityAny(t, c, p) ==
    /\ pc[t] = "idle"
    /\ c \in known
    /\ priority' = [priority EXCEPT ![c] = p]
    /\ UNCHANGED <<known, additive, heap, owner, pc, locals>>

\* The mutex is given up at the end of the block, before the parent is
\* called (SnapshotDelivered).
UpUnlocks(t) ==
    /\ pc[t] = "call"
    /\ todo[t] = {}
    /\ \/ /\ additive[at[t]] /\ at[t] # Root
          /\ at' = [at EXCEPT ![t] = Parent[@]]
          /\ Goto(t, "enter")
          /\ Release(at[t])
       \/ /\ ~(additive[at[t]] /\ at[t] # Root)
          /\ Goto(t, "unwind")
          /\ UNCHANGED <<at, owner>>
    /\ UNCHANGED <<tree, heap, from, level, path, todo, got, drop, rest, forced>>

\* The destructor leaves the entry in the registry (Lifetimes).
EndDeleteKeeps(t, a) ==
    /\ pc[t] \in {"delete", "purge"}
    /\ a \in todo[t]
    /\ object[a] = "dying"
    /\ owner["appenders"] = Nobody
    /\ object' = [object EXCEPT ![a] = "freed"]
    /\ todo' = [todo EXCEPT ![t] = @ \ {a}]
    /\ UNCHANGED <<tree, attached, owns, registry, owner, pc, from, at, level,
                   path, got, drop, rest, forced>>

\* The appenders are deleted with the registry locked (NoDeadlock).
CollectLocked(t) ==
    /\ pc[t] = "force"
    /\ Acquire(t, "appenders")
    /\ todo' = [todo EXCEPT ![t] = Registered]
    /\ registry' = [n \in Name |-> NoAppender]
    /\ forced' = [forced EXCEPT ![t] = FALSE]
    /\ Goto(t, "purge")
    /\ UNCHANGED <<tree, attached, owns, object, from, at, level, path, got, drop, rest>>

-----------------------------------------------------------------------------
(* The tree: getInstance, setPriority, setAdditivity.                       *)

GetInstance(t, c) ==
    /\ pc[t] = "idle"
    /\ owner["categories"] = Nobody
    /\ c \notin known
    /\ known' = known \cup Chain[c]
    /\ UNCHANGED <<priority, additive, heap, owner, pc, locals>>

SetPriority(t, c, p) ==
    /\ pc[t] = "idle"
    /\ c \in known
    /\ p < NOTSET \/ c # Root
    /\ priority' = [priority EXCEPT ![c] = p]
    /\ UNCHANGED <<known, additive, heap, owner, pc, locals>>

SetAdditivity(t, c, b) ==
    /\ pc[t] = "idle"
    /\ c \in known
    /\ additive' = [additive EXCEPT ![c] = b]
    /\ UNCHANGED <<known, priority, heap, owner, pc, locals>>

-----------------------------------------------------------------------------
(* Logging.                                                                 *)

\* A call of log, and one through a stream: the stream is opened after a
\* first test of the priority, and logs when it is flushed.
Start(t, c, l, label) ==
    /\ pc[t] = "idle"
    /\ c \in known
    /\ Goto(t, label)
    /\ from' = [from EXCEPT ![t] = c]
    /\ at' = [at EXCEPT ![t] = c]
    /\ level' = [level EXCEPT ![t] = l]
    /\ UNCHANGED <<tree, heap, owner, path, todo, got, drop, rest, forced>>

Log(t, c, l) == Start(t, c, l, "walk")
GetStream(t, c, l) == Start(t, c, l, "stream")

\* A FixedContextCategory asks its delegate only when it has no priority.
LogFixed(t, c, l) == \E p \in Fixed :
    \/ p = NOTSET /\ Start(t, c, l, "walk")
    \/ p # NOTSET /\ p >= l /\ Start(t, c, l, "enter")

Forget(t) ==
    /\ from' = [from EXCEPT ![t] = Root]
    /\ at' = [at EXCEPT ![t] = Root]
    /\ level' = [level EXCEPT ![t] = 0]
    /\ got' = [got EXCEPT ![t] = {}]

\* One turn of the loop of getChainedPriority, and the test after it.
Walk(t) ==
    /\ pc[t] \in {"walk", "stream"}
    /\ \/ /\ priority[at[t]] >= NOTSET
          /\ at' = [at EXCEPT ![t] = Parent[@]]
          /\ UNCHANGED <<pc, from, level, got>>
       \/ /\ priority[at[t]] < NOTSET
          /\ priority[at[t]] >= level[t]
          /\ Goto(t, IF pc[t] = "walk" THEN "enter" ELSE "written")
          /\ at' = [at EXCEPT ![t] = from[t]]
          /\ UNCHANGED <<from, level, got>>
       \/ /\ priority[at[t]] < NOTSET
          /\ priority[at[t]] < level[t]
          /\ Goto(t, "idle")
          /\ Forget(t)
    /\ UNCHANGED <<tree, heap, owner, path, todo, drop, rest, forced>>

\* The stream is destroyed: what was written to it is logged.
Flush(t) ==
    /\ pc[t] = "written"
    /\ Goto(t, "walk")
    /\ UNCHANGED <<tree, heap, owner, locals>>

Enter(t) ==
    /\ pc[t] = "enter"
    /\ Acquire(t, at[t])
    /\ Goto(t, "call")
    /\ path' = [path EXCEPT ![t] = <<at[t]>> \o @]
    /\ todo' = [todo EXCEPT ![t] = attached[at[t]]]
    /\ UNCHANGED <<tree, heap, from, at, level, got, drop, rest, forced>>

DoAppend(t, a) ==
    /\ pc[t] = "call"
    /\ a \in todo[t]
    /\ todo' = [todo EXCEPT ![t] = @ \ {a}]
    /\ got' = [got EXCEPT ![t] =
                   IF Passes(a, level[t]) THEN @ \cup {<<at[t], a>>} ELSE @]
    /\ UNCHANGED <<tree, heap, owner, pc, from, at, level, path, drop, rest, forced>>

\* All appenders called: on to the parent, or back.
Up(t) ==
    /\ pc[t] = "call"
    /\ todo[t] = {}
    /\ \/ /\ additive[at[t]] /\ at[t] # Root
          /\ at' = [at EXCEPT ![t] = Parent[@]]
          /\ Goto(t, "enter")
       \/ /\ ~(additive[at[t]] /\ at[t] # Root)
          /\ Goto(t, "unwind")
          /\ UNCHANGED at
    /\ UNCHANGED <<tree, heap, owner, from, level, path, todo, got, drop, rest, forced>>

Unwind(t) ==
    /\ pc[t] = "unwind"
    /\ Release(Head(path[t]))
    /\ path' = [path EXCEPT ![t] = Tail(@)]
    /\ \/ /\ Len(path[t]) > 1
          /\ UNCHANGED <<pc, from, at, level, got>>
       \/ /\ Len(path[t]) = 1
          /\ Goto(t, "idle")
          /\ Forget(t)
    /\ UNCHANGED <<tree, heap, todo, drop, rest, forced>>

-----------------------------------------------------------------------------
(* Appenders: construction, addAppender with a pointer and with a           *)
(* reference, removeAppender and removeAllAppenders, deletion.              *)

NewAppender(t, a) ==
    /\ pc[t] = "idle"
    /\ object[a] \in {"none", "freed"}
    /\ owner["appenders"] = Nobody
    /\ object' = [object EXCEPT ![a] = "live"]
    /\ registry' = [registry EXCEPT ![NameOf[a]] = a]
    /\ UNCHANGED <<tree, attached, owns, owner, pc, locals>>

\* What a caller may attach: addAppender(Appender*) passes the ownership, so
\* it is called once for an appender that is nowhere else.
MayPass(a) == object[a] = "live" /\ a \notin Owned /\ (OwnedOnce => a \notin Attached)
MayLend(a) == object[a] = "live" /\ (OwnedOnce => a \notin Owned)

AddAppender(t, c, a) ==
    /\ pc[t] = "idle"
    /\ c \in known
    /\ a \notin attached[c]
    /\ owner[c] = Nobody
    /\ \/ MayPass(a) /\ owns' = [owns EXCEPT ![c] = @ \cup {a}]
       \/ MayLend(a) /\ UNCHANGED owns
    /\ attached' = [attached EXCEPT ![c] = @ \cup {a}]
    /\ UNCHANGED <<tree, object, registry, owner, pc, locals>>

\* The head of removeAppender and removeAllAppenders: under the mutex, the
\* appenders that the category owns are deleted one after the other.
Empty(t, c, S) ==
    /\ Acquire(t, c)
    /\ at' = [at EXCEPT ![t] = c]
    /\ drop' = [drop EXCEPT ![t] = S]
    /\ todo' = [todo EXCEPT ![t] = S \cap owns[c]]
    /\ Goto(t, "delete")

Remove(t, c) ==
    /\ pc[t] = "idle"
    /\ c \in known
    /\ \E S \in {{a} : a \in attached[c]} \cup {attached[c]} : S # {} /\ Empty(t, c, S)
    /\ UNCHANGED <<tree, heap, from, level, path, got, rest, forced>>

\* The owner of an appender that no category uses deletes it.
DeleteAppender(t, a) ==
    /\ pc[t] = "idle"
    /\ object[a] = "live"
    /\ a \notin Attached
    /\ todo' = [todo EXCEPT ![t] = {a}]
    /\ Goto(t, "purge")
    /\ UNCHANGED <<tree, heap, owner, from, at, level, path, got, drop, rest, forced>>

\* The destructors of the derived classes run first, and close the file.
BeginDelete(t, a) ==
    /\ pc[t] \in {"delete", "purge"}
    /\ a \in todo[t]
    /\ \A b \in todo[t] : object[b] # "dying"
    /\ object' = [object EXCEPT ![a] = "dying"]
    /\ UNCHANGED <<tree, attached, owns, registry, owner, pc, locals>>

\* ~Appender takes the name out of the registry.
EndDelete(t, a) ==
    /\ pc[t] \in {"delete", "purge"}
    /\ a \in todo[t]
    /\ object[a] = "dying"
    /\ owner["appenders"] = Nobody
    /\ registry' = [registry EXCEPT ![NameOf[a]] = NoAppender]
    /\ object' = [object EXCEPT ![a] = "freed"]
    /\ todo' = [todo EXCEPT ![t] = @ \ {a}]
    /\ UNCHANGED <<tree, attached, owns, owner, pc, from, at, level, path, got,
                   drop, rest, forced>>

\* The tail of removeAppender and removeAllAppenders.
Detach(t) ==
    /\ pc[t] = "delete"
    /\ todo[t] = {}
    /\ attached' = [attached EXCEPT ![at[t]] = @ \ drop[t]]
    /\ owns' = [owns EXCEPT ![at[t]] = @ \ drop[t]]
    /\ Release(at[t])
    /\ at' = [at EXCEPT ![t] = Root]
    /\ drop' = [drop EXCEPT ![t] = {}]
    /\ Goto(t, IF owner["categories"] = t THEN "shut" ELSE "idle")
    /\ UNCHANGED <<tree, object, registry, from, level, path, todo, got, rest, forced>>

Purged(t) ==
    /\ pc[t] = "purge"
    /\ todo[t] = {}
    /\ Goto(t, "idle")
    /\ UNCHANGED <<tree, heap, owner, locals>>

-----------------------------------------------------------------------------
(* shutdown, shutdownForced, reopenAll, closeAll.                           *)

Shutdown(t) ==
    /\ pc[t] = "idle"
    /\ Acquire(t, "categories")
    /\ rest' = [rest EXCEPT ![t] = known]
    /\ \E f \in BOOLEAN : forced' = [forced EXCEPT ![t] = f]
    /\ Goto(t, "shut")
    /\ UNCHANGED <<tree, heap, from, at, level, path, todo, got, drop>>

ShutdownOne(t, c) ==
    /\ pc[t] = "shut"
    /\ c \in rest[t]
    /\ Empty(t, c, attached[c])
    /\ rest' = [rest EXCEPT ![t] = @ \ {c}]
    /\ UNCHANGED <<tree, heap, from, level, path, got, forced>>

ShutdownEnd(t) ==
    /\ pc[t] = "shut"
    /\ rest[t] = {}
    /\ Release("categories")
    /\ Goto(t, IF forced[t] THEN "force" ELSE "idle")
    /\ UNCHANGED <<tree, heap, locals>>

\* _deleteAllAppenders empties the registry and only then deletes what was
\* in it, because the destructors lock the registry.
Collect(t) ==
    /\ pc[t] = "force"
    /\ owner["appenders"] = Nobody
    /\ todo' = [todo EXCEPT ![t] = Registered]
    /\ registry' = [n \in Name |-> NoAppender]
    /\ forced' = [forced EXCEPT ![t] = FALSE]
    /\ Goto(t, "purge")
    /\ UNCHANGED <<tree, attached, owns, object, owner, from, at, level, path,
                   got, drop, rest>>

Sweep(t, label) ==
    /\ pc[t] = "idle"
    /\ Acquire(t, "appenders")
    /\ todo' = [todo EXCEPT ![t] = Registered]
    /\ Goto(t, label)
    /\ UNCHANGED <<tree, heap, from, at, level, path, got, drop, rest, forced>>

ReopenAll(t) == Sweep(t, "reopen")
CloseAll(t)  == Sweep(t, "close")

\* result && reopen(): after a failure no further appender is reopened.
Visit(t, a) ==
    /\ pc[t] \in {"reopen", "close"}
    /\ a \in todo[t]
    /\ \/ todo' = [todo EXCEPT ![t] = @ \ {a}]
       \/ pc[t] = "reopen" /\ todo' = [todo EXCEPT ![t] = {}]
    /\ got' = [got EXCEPT ![t] = @ \cup {<<Root, a>>}]
    /\ UNCHANGED <<tree, heap, owner, pc, from, at, level, path, drop, rest, forced>>

SweepEnd(t) ==
    /\ pc[t] \in {"reopen", "close"}
    /\ todo[t] = {}
    /\ Release("appenders")
    /\ Goto(t, "idle")
    /\ Forget(t)
    /\ UNCHANGED <<tree, heap, path, todo, drop, rest, forced>>

\* Category::getAppender(name): any appender of that name, when the category
\* has appenders at all.
GetAppender(c, n) == IF attached[c] = {} THEN NoAppender ELSE registry[n]

-----------------------------------------------------------------------------
Logging(t) ==
    \/ \E c \in Category, l \in Level :
           Log(t, c, l) \/ GetStream(t, c, l) \/ LogFixed(t, c, l)
    \/ Walk(t) \/ Flush(t) \/ Enter(t) \/ Up(t) \/ Unwind(t)
    \/ \E a \in Appender : DoAppend(t, a)

Configuring(t) ==
    \/ \E c \in Category :
           \/ GetInstance(t, c) \/ Remove(t, c) \/ ShutdownOne(t, c)
           \/ \E p \in Given : SetPriority(t, c, p)
           \/ \E b \in BOOLEAN : SetAdditivity(t, c, b)
           \/ \E a \in Appender : AddAppender(t, c, a)
    \/ \E a \in Appender :
           \/ NewAppender(t, a) \/ DeleteAppender(t, a)
           \/ BeginDelete(t, a) \/ EndDelete(t, a) \/ Visit(t, a)
    \/ Detach(t) \/ Purged(t) \/ Shutdown(t) \/ ShutdownEnd(t) \/ Collect(t)
    \/ ReopenAll(t) \/ CloseAll(t) \/ SweepEnd(t)

Next == (\E t \in Logger : Logging(t)) \/ (\E t \in Admin : Configuring(t))

Spec == Init /\ [][Next]_vars

-----------------------------------------------------------------------------
\* The walk to a priority ends at the root at the latest, whatever
\* priorities are set meanwhile: the root always has one, and it is known.
TypeOK ==
    /\ known \subseteq Category /\ Root \in known
    /\ \A c \in known : Chain[c] \subseteq known
    /\ priority \in [Category -> Nat]
    /\ priority[Root] < NOTSET
    /\ additive \in [Category -> BOOLEAN]
    /\ object \in [Appender -> {"none", "live", "dying", "freed"}]
    /\ registry \in [Name -> Appender \cup {NoAppender}]
    /\ owner \in [Lock -> Thread \cup {Nobody}]
    /\ \A t \in Thread : at[t] \in known /\ from[t] \in known /\ rest[t] \subseteq known
    /\ \A c \in Category : owns[c] \subseteq attached[c]

\* An event reaches one snapshot of the appenders on its way up: while the
\* call goes on to the ancestors, in every category it has passed the
\* appenders attached are still those that were called, though other threads
\* add, remove and delete appenders all the time (callAppenders).
SnapshotDelivered ==
    \A t \in Thread : \A i \in 1..Len(path[t]) :
        LET c == path[t][i]
            left == IF i = 1 /\ pc[t] = "call" THEN todo[t] ELSE {}
        IN {a \in Appender : <<c, a>> \in got[t]} =
               {a \in attached[c] \ left : Passes(a, level[t])}

\* No thread calls or deletes an appender that is being destroyed or is gone,
\* and the registry names exactly the living ones, except those that
\* shutdownForced has collected (addAppender, removeAppender, ~Appender).  The
\* types are part of it, and so is the walk's way to the root.
Lifetimes ==
    /\ TypeOK
    /\ \A t \in Thread :
           /\ pc[t] \in {"call", "reopen", "close"} =>
                  \A a \in todo[t] : object[a] = "live"
           /\ pc[t] \in {"delete", "purge"} =>
                  \A a \in todo[t] : object[a] \in {"live", "dying"}
    /\ \A n \in Name : registry[n] # NoAppender =>
           object[registry[n]] \in {"live", "dying"}
    /\ \A a \in Appender : object[a] = "live" =>
           \/ registry[NameOf[a]] = a
           \/ \E t \in Admin : pc[t] = "purge" /\ a \in todo[t]

\* The mutexes a thread that cannot go on is waiting for.
Wanted(t) ==
    CASE pc[t] = "enter" -> {at[t]}
      [] pc[t] = "shut" -> rest[t]
      [] pc[t] = "force" -> {"appenders"}
      [] pc[t] \in {"delete", "purge"} /\ (\E a \in todo[t] : object[a] = "dying") ->
             {"appenders"}
      [] OTHER -> {}

WaitsFor(t, u) == \E k \in Wanted(t) : owner[k] = u

\* No set of threads waits for each other: the category mutexes are taken
\* from child to parent, the map of categories before them and the registry
\* after them (ScopedLock throughout Category.cpp and Appender.cpp).
NoDeadlock ==
    \A S \in SUBSET Thread : S # {} => \E t \in S : \A u \in S : ~WaitsFor(t, u)

\* What Category.hh says of getAppender: "Returns the specified Appender for
\* this Category, or NULL if the Appender is not attached to this Category."
GetsAttached == \A c \in known, n \in Name :
    GetAppender(c, n) # NoAppender => GetAppender(c, n) \in attached[c]

\* What Appender.hh says of reopenAll: "Call reopen() on all existing
\* Appenders."
ReopensAll == \A t \in Admin :
    pc[t] = "reopen" /\ todo[t] = {} => \A a \in Registered : <<Root, a>> \in got[t]

=============================================================================
