------------------------------ MODULE ShareBike ------------------------------
(***************************************************************************)
(* The program share_bike: main, Logger and Iniconfig.                     *)
(*                                                                         *)
(* main configures the log, reads the settings, says in the log what they  *)
(* are, and ends with a code that tells how far it came.  The log is       *)
(* reached through a pointer that Logger::init sets.                       *)
(***************************************************************************)
EXTENDS LogConfig

CONSTANTS
    Setting,        \* values the file of settings may have for a port
    Default,        \* the port when the file has none
    ShortModulus,   \* 2^w for the w bits of unsigned short
    ArgCount        \* values of argc

INFO  == 600
ERROR == 300

VARIABLES
    at,             \* "main", "init", "load", "loaded", "exit"
    argc,
    handle,         \* category_: NULL or the root category
    config,         \* svr_port of _config
    exit,           \* what main returned
    crashed,        \* a call through a NULL pointer
    said,           \* ghost: the messages and the appenders that got them
    read            \* ghost: the number in the file

mainVars == <<at, argc, handle, config, exit, crashed, said, read>>
vars     == <<configVars, mainVars>>

Init ==
    /\ ConfigInit
    /\ at = "main"
    /\ argc \in ArgCount
    /\ handle = NoObject
    /\ config = 0
    /\ exit = 0 /\ crashed = FALSE
    /\ said = {} /\ read = 0

Exit(code) == at' = "exit" /\ exit' = code

\* Category::error and Category::info of the handle.
Says(message, level) ==
    IF handle = NoObject
    THEN crashed' = TRUE /\ UNCHANGED said
    ELSE /\ said' = said \cup IF level <= priority[handle]
                             THEN {message} \X attached[handle]
                             ELSE {}
         /\ UNCHANGED crashed

-----------------------------------------------------------------------------
(* A slip a programmer could make.  No behaviour of Spec takes it: it stands *)
(* for the action below in a variant of this module in which the property   *)
(* named with it must fail.                                                 *)

\* init reports that the file is bad and goes on (MainTells).
InitFailsSilently ==
    /\ at = "init" /\ pc = "idle" /\ result = "thrown"
    /\ at' = "load"
    /\ UNCHANGED <<configVars, argc, handle, config, exit, crashed, said, read>>

-----------------------------------------------------------------------------
Usage ==
    /\ at = "main" /\ argc # 3
    /\ Exit(-1)
    /\ UNCHANGED <<configVars, argc, handle, config, crashed, said, read>>

\* Logger::init.
InitLogger ==
    /\ at = "main" /\ argc = 3
    /\ (\E f \in File : Configure(f)) \/ ConfigureNoFile
    /\ at' = "init"
    /\ UNCHANGED <<argc, handle, config, exit, crashed, said, read>>

Configures ==
    /\ at = "init"
    /\ DoConfigure
    /\ UNCHANGED mainVars

InitFails ==
    /\ at = "init" /\ pc = "idle" /\ result = "thrown"
    /\ Exit(-2)
    /\ UNCHANGED <<configVars, argc, handle, config, crashed, said, read>>

InitDone ==
    /\ at = "init" /\ pc = "idle" /\ result = "good"
    /\ handle' = Root
    /\ at' = "load"
    /\ UNCHANGED <<configVars, argc, config, exit, crashed, said, read>>

\* Iniconfig::loadfile: the port is read as an int and kept as a short.
Load ==
    /\ at = "load"
    /\ \E n \in Setting \cup {Default} :
          /\ read' = n
          /\ config' = n % ShortModulus
    /\ at' = "loaded"
    /\ UNCHANGED <<configVars, argc, handle, exit, crashed, said>>

LoadFails ==
    /\ at = "load"
    /\ Says("loadFailed", ERROR)
    /\ Exit(-3)
    /\ UNCHANGED <<configVars, argc, handle, config, read>>

Loaded ==
    /\ at = "loaded"
    /\ Says(config, INFO)
    /\ Exit(0)
    /\ UNCHANGED <<configVars, argc, handle, config, read>>

Ended == at = "exit" /\ UNCHANGED vars

Next ==
    \/ Usage \/ InitLogger \/ Configures \/ InitFails \/ InitDone
    \/ Load \/ LoadFails \/ Loaded \/ Ended

Spec == Init /\ [][Next]_vars

-----------------------------------------------------------------------------
(* Properties.                                                             *)

\* What main ends with is what the log says: nothing unless the log is set up,
\* and then, where the file lets messages of the level through, the settings or
\* that there are none, in every appender the file has for the root category
\* (main.cpp:6-36, Logger.cpp:12-22).
MainTells ==
    /\ ~crashed
    /\ at = "exit" =>
          /\ exit \in {-1, -2} => said = {} /\ result # "good"
          /\ exit \in {0, -3} =>
                /\ result = "good"
                /\ \E c \in {file.categories[1]} :
                      said = IF (IF exit = 0 THEN INFO ELSE ERROR) <= c.priority
                             THEN {IF exit = 0 THEN config ELSE "loadFailed"} \X
                                     {registry[c.appenders[i]] : i \in DOMAIN c.appenders}
                             ELSE {}

\* The server has the port its file says.
PortKept == at = "exit" /\ exit = 0 => config = read
=============================================================================
