------------------------------ MODULE LogConfig ------------------------------
(***************************************************************************)
(* The PropertyConfigurator of git/log4cpp, which reads the appenders and  *)
(* the categories of a program from a file.                                *)
(*                                                                         *)
(* configure works on a PropertyConfiguratorImpl that is static: its map   *)
(* of appenders by name outlives the call, also one that threw.  An        *)
(* appender is attached to its categories by reference and belongs to none *)
(* of them; only shutdownForced deletes it.  A file is abstracted to the   *)
(* keys the configurator looks at, in the order of the map that holds      *)
(* them.                                                                   *)
(***************************************************************************)
EXTENDS Integers, Sequences, FiniteSets

CONSTANTS
    AppName,        \* names of appenders
    Category,       \* names of categories
    Root,           \* the name rootCategory
    File,           \* contents of configuration files, see IsFile
    NoObject,       \* NULL, and no entry in a map
    MaxConfig       \* bound: calls of configure

NOTSET == 800
Bad    == -1        \* a word that is no priority

\* A file has the keys under "appender" in order, each with the name of an
\* appender and what becomes of it, and the categories in order, each once, the
\* root first if it is there.  "partial" is a key with more than the name where
\* another appender, or none, went before.
IsFile(f) ==
    /\ f.keys \in Seq([name : AppName,
                      outcome : {"good", "partial", "noType", "noLayout", "badThreshold"}])
    /\ f.categories \in Seq([category : Category, priority : Nat \cup {Bad},
                            additive : BOOLEAN, appenders : Seq(AppName)])
    /\ \A m, n \in DOMAIN f.categories :
          f.categories[m].category = f.categories[n].category => m = n

VARIABLES
    pc,             \* "idle", "appenders", "categories", "attach"
    file,           \* _properties
    k,              \* key, category
    j,              \* appender of the category
    result,         \* of the last call: "none", "good" or "thrown"
    calls,          \* calls of configure
    made,           \* _allAppenders of the static configurator; absent, NULL or an object
    registry,       \* Appender::_allAppenders
    live,           \* appenders that are constructed, each its name and its call
    attached, priority, additive    \* of each category

categories == <<attached, priority, additive>>
objects    == <<made, registry, live>>
call       == <<pc, file, k, j, result, calls>>
configVars == <<call, objects, categories>>

Missing == <<>>

ConfigInit ==
    /\ pc = "idle" /\ file = [keys |-> <<>>, categories |-> <<>>]
    /\ k = 1 /\ j = 1 /\ result = "none" /\ calls = 0
    /\ made = [n \in AppName |-> Missing]
    /\ registry = [n \in AppName |-> NoObject]
    /\ live = {}
    /\ attached = [c \in Category |-> {}]
    /\ priority = [c \in Category |-> IF c = Root THEN 600 ELSE NOTSET]
    /\ additive = [c \in Category |-> TRUE]

Throw ==
    /\ pc' = "idle" /\ result' = "thrown"
    /\ UNCHANGED <<file, k, j, calls>>

-----------------------------------------------------------------------------
(* Slips a programmer could make.  No behaviour of the specification takes   *)
(* one: each stands for an action below in a variant of this module in which *)
(* the property named with it must fail.                                    *)

\* An appender made before under this name is kept (Configured).
MakeOnce ==
    LET key == file.keys[k] IN
    /\ pc = "appenders" /\ k <= Len(file.keys)
    /\ key.outcome = "good"
    /\ LET object == <<key.name, calls>> IN
       IF made[key.name] = Missing
       THEN /\ live' = live \cup {object}
            /\ registry' = [registry EXCEPT ![key.name] = object]
            /\ made' = [made EXCEPT ![key.name] = object]
       ELSE UNCHANGED objects
    /\ k' = k + 1
    /\ UNCHANGED <<pc, file, j, result, calls, categories>>

-----------------------------------------------------------------------------
(* doConfigure.                                                             *)

\* A file that cannot be opened throws; load replaces all properties.
Configure(f) ==
    /\ pc = "idle"
    /\ calls < MaxConfig
    /\ calls' = calls + 1
    /\ file' = f
    /\ k' = 1
    /\ pc' = "appenders" /\ result' = "none"
    /\ UNCHANGED <<j, objects, categories>>

ConfigureNoFile ==
    /\ pc = "idle"
    /\ calls < MaxConfig
    /\ calls' = calls + 1
    /\ result' = "thrown"
    /\ UNCHANGED <<pc, file, k, j, objects, categories>>

\* instantiateAppender, and the entry of the configurator.  The constructor
\* enters the appender in the registry in place of another of the name.
Make ==
    LET key == file.keys[k]
        object == <<key.name, calls>>
    IN  /\ pc = "appenders" /\ k <= Len(file.keys)
        /\ key.outcome = "good"
        /\ live' = live \cup {object}
        /\ registry' = [registry EXCEPT ![key.name] = object]
        /\ made' = [made EXCEPT ![key.name] = object]
        /\ k' = k + 1
        /\ UNCHANGED <<pc, file, j, result, calls, categories>>

\* A key that throws.  Without a layout the appender stays; with a bad threshold
\* it is deleted, and its destructor erases the name from the registry.  The
\* entry of the configurator may have been made, with NULL, before.
MakeThrows ==
    LET key == file.keys[k]
        object == <<key.name, calls>>
    IN  /\ pc = "appenders" /\ k <= Len(file.keys)
        /\ key.outcome # "good"
        /\ live' = IF key.outcome = "noLayout" THEN live \cup {object} ELSE live
        /\ registry' = CASE key.outcome = "noLayout" -> [registry EXCEPT ![key.name] = object]
                         [] key.outcome = "badThreshold" -> [registry EXCEPT ![key.name] = NoObject]
                         [] OTHER -> registry
        /\ \/ UNCHANGED made
           \/ /\ key.outcome # "partial" /\ made[key.name] = Missing
              /\ made' = [made EXCEPT ![key.name] = NoObject]
        /\ Throw
        /\ UNCHANGED categories

MadeAll ==
    /\ pc = "appenders" /\ k > Len(file.keys)
    /\ pc' = "categories" /\ k' = 1
    /\ UNCHANGED <<file, j, result, calls, objects, categories>>

\* configureCategory up to the appenders.
SetCategory ==
    LET line == file.categories[k] IN
    /\ pc = "categories" /\ k <= Len(file.categories)
    /\ k = 1 => line.category = Root
    /\ line.priority # Bad
    /\ ~(line.category = Root /\ line.priority >= NOTSET)
    /\ priority' = [priority EXCEPT ![line.category] = line.priority]
    /\ additive' = [additive EXCEPT ![line.category] = line.additive]
    /\ attached' = [attached EXCEPT ![line.category] = {}]
    /\ pc' = "attach" /\ j' = 1
    /\ UNCHANGED <<file, k, result, calls, objects>>

\* No line for the root category, no priority, or none for the root category.
SetCategoryThrows ==
    /\ pc = "categories"
    /\ \/ k = 1 /\ ~(file.categories # <<>> /\ file.categories[1].category = Root)
       \/ /\ k <= Len(file.categories)
          /\ LET line == file.categories[k] IN
             line.priority = Bad \/ (line.category = Root /\ line.priority >= NOTSET)
    /\ Throw
    /\ UNCHANGED <<objects, categories>>

Attach ==
    LET line == file.categories[k]
        name == line.appenders[j]
    IN  /\ pc = "attach" /\ j <= Len(line.appenders)
        /\ made[name] # Missing
        /\ attached' = [attached EXCEPT ![line.category] = @ \cup {made[name]}]
        /\ j' = j + 1
        /\ UNCHANGED <<pc, file, k, result, calls, objects, priority, additive>>

AttachThrows ==
    LET line == file.categories[k] IN
    /\ pc = "attach" /\ j <= Len(line.appenders)
    /\ made[line.appenders[j]] = Missing
    /\ Throw
    /\ UNCHANGED <<objects, categories>>

AttachedAll ==
    /\ pc = "attach" /\ j > Len(file.categories[k].appenders)
    /\ pc' = "categories" /\ k' = k + 1
    /\ UNCHANGED <<file, j, result, calls, objects, categories>>

Return ==
    /\ pc = "categories" /\ k > 1 /\ k > Len(file.categories)
    /\ pc' = "idle" /\ result' = "good"
    /\ UNCHANGED <<file, k, j, calls, objects, categories>>

\* Category::shutdownForced: the registry is all it knows of the appenders.
ShutdownForced ==
    /\ pc = "idle"
    /\ attached' = [c \in Category |-> {}]
    /\ live' = live \ {registry[n] : n \in AppName}
    /\ registry' = [n \in AppName |-> NoObject]
    /\ UNCHANGED <<call, made, priority, additive>>

DoConfigure ==
    \/ Make \/ MakeThrows \/ MadeAll
    \/ SetCategory \/ SetCategoryThrows
    \/ Attach \/ AttachThrows \/ AttachedAll \/ Return

ConfigNext ==
    \/ \E f \in File : Configure(f)
    \/ ConfigureNoFile
    \/ DoConfigure
    \/ ShutdownForced

ConfigSpec == ConfigInit /\ [][ConfigNext]_configVars

-----------------------------------------------------------------------------
(* Properties.                                                             *)

\* No category has an appender that is NULL or deleted; and after a call that
\* did not throw each category has what the file says, the appenders being those
\* the registry knows (PropertyConfiguratorImpl.cpp:96-194, :287-303).
Configured ==
    /\ \A c \in Category : attached[c] \subseteq live
    /\ pc = "idle" /\ result = "good" =>
          \A m \in DOMAIN file.categories :
             LET line == file.categories[m] IN
             /\ priority[line.category] = line.priority
             /\ additive[line.category] = line.additive
             /\ attached[line.category] # {} =>
                   attached[line.category] =
                      {registry[line.appenders[i]] : i \in DOMAIN line.appenders}

\* A deleted or replaced appender leaves nothing behind.
NoneLeft == \A o \in live : o \in {registry[n] : n \in AppName}
=============================================================================
