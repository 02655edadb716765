----------------------------- MODULE MCLogSetup -----------------------------
(***************************************************************************)
(* The rest of the log, one part of it chosen at the start: the buffer,    *)
(* the mails, the syslog packets, the pattern of a layout, the contexts of *)
(* threads, the text of the properties, the two configurators, and the     *)
(* start of share_bike.                                                    *)
(***************************************************************************)
EXTENDS MailSender

CONSTANTS
    Null,
    \* BufferedLog
    Asked, Level, Trigger, SinkThreshold, MaxEvent,
    \* RemoteSyslog
    Fd, RecordPriority, Facility, MaxPacket, MaxRecord,
    \* NestedContext
    Message, MaxDepth,
    \* LogConfig and ShareBike
    AppName, CatName, Root, File, MaxConfig, Setting, Default, ShortModulus, ArgCount

VARIABLES
    part,
    \* BufferedLog
    queue, maxSize, lossy, sinkThreshold, texts, events, told,
    \* RemoteSyslog
    up, open, socket, ipAddr, facility, buf, left, record, packets,
    \* PatternText
    conversionPattern, components, patternPc, pattern, item, literal, minWidth, maxWidth,
    formatted,
    \* NestedContext
    isUsedNDC, stack, clone, broken, entered, lent,
    \* PropertyFile
    loadPc, in, fullLine, partiallyRead, settings, lines,
    \* SimpleConfig
    simplePc, text, at, good, category, level, appender, simpleResult, meant, simpleCalls, throws,
    \* LogConfig and ShareBike
    configPc, file, k, j, result, configCalls, made, registry, live, owned, priority, additive,
    mainPc, argc, handle, config, exit, crashed, said, read

bufferVars  == <<queue, maxSize, lossy, sinkThreshold, texts, events, told>>
syslogVars  == <<up, open, socket, ipAddr, facility, buf, left, record, packets>>
patternVars == <<conversionPattern, components, patternPc, pattern, item, literal, minWidth,
                 maxWidth, formatted>>
contextVars == <<isUsedNDC, stack, clone, broken, entered, lent>>
loadVars    == <<loadPc, in, fullLine, partiallyRead, settings, lines>>
simpleVars  == <<simplePc, text, at, good, category, level, appender, simpleResult, meant,
                 simpleCalls, throws>>
libraryVars == <<configPc, file, k, j, result, configCalls, made, registry, live, owned,
                 priority, additive>>
programVars == <<mainPc, argc, handle, config, exit, crashed, said, read>>

-----------------------------------------------------------------------------
Buffer == INSTANCE BufferedLog WITH SetsLossy <- BOOLEAN, count <- events

Syslog == INSTANCE RemoteSyslog WITH
    StdinOpen <- TRUE, Resolves <- BOOLEAN, Priority <- RecordPriority

Contexts == INSTANCE NestedContext WITH Thread <- Caller, PopsEmpty <- FALSE

MCFacilities == {-1, -8, 8, 128}

\* Facilities that have three characters at most, as DigitsOf counts them, with a
\* priority added: five with the brackets.
ASSUME PacketAssumption ==
    /\ Fd \subseteq Nat /\ RecordPriority \subseteq Int /\ Facility \subseteq -99..992
    /\ MaxPacket \in Nat /\ MaxPacket > 5

ASSUME SizesAssumption == Asked \subseteq Nat /\ MaxEvent \in Nat

-----------------------------------------------------------------------------
(* Patterns of two items, some after a literal and a message, and names of  *)
(* categories with dots anywhere but in front: there the search for them    *)
(* wraps round and finds the last one again.                                *)

Item(kind, char, min, max, postfix) ==
    [kind |-> kind, char |-> char, min |-> min, max |-> max, postfix |-> postfix]
X == Item("literal", "x", <<>>, <<>>, <<>>)
M == Item("conversion", "m", <<>>, <<>>, <<>>)
Items ==
    {X, Item("unterminated", "%", <<>>, <<>>, <<>>), Item("conversion", "q", <<>>, <<>>, <<>>)}
    \cup {Item("conversion", "m", w, x, <<>>) : w \in {<<>>, <<3>>, <<-3>>}, x \in {<<>>, <<2>>}}
    \cup {Item("conversion", "c", <<>>, <<>>, p) : p \in {<<>>, <<0>>, <<1>>, <<2>>, <<3>>}}
    \cup {Item("conversion", c, w, <<>>, <<>>) : c \in {"%", "n"}, w \in {<<>>, <<3>>}}
Patterns == UNION {[1..n -> Items] : n \in 0..2} \cup {<<X, M, i>> : i \in Items}
Names == {n \in UNION {[1..l -> {"x", "."}] : l \in 1..5} : n[1] # "."}
Events == {[message |-> SubSeq(<<"a", "b", "c", "d">>, 1, l), category |-> n] :
               l \in {0, 1, 4}, n \in Names}

Layout == INSTANCE PatternText WITH
    Pattern <- Patterns, Event <- Events, SizeModulus <- 64,
    pc <- patternPc, k <- item, result <- formatted

-----------------------------------------------------------------------------
(* Texts of two lines, with variables of every kind.                        *)

Sets(signs, name, value) == [signs |-> signs, name |-> name, value |-> <<value>>]
Silent(signs) == [signs |-> signs, name |-> <<>>, value |-> <<>>]
TextLines ==
    {Silent(<<>>), Silent(<<" ">>), Silent(<<"#", "a", "=", "b">>), Silent(<<"a">>),
     Sets(<<"a", "=", "b">>, <<"a">>, <<"b">>),
     Sets(<<" ", "a", " ", "=", " ", "c", " ", "#", "b">>, <<"a">>, <<"c">>),
     Sets(<<"log4j", ".", "b", "=", "a", "=", "b">>, <<"b">>, <<"a", "=", "b">>),
     Sets(<<"log4j", "=", "${", "a", "}", "b", "${", "b", "}">>, <<"log4j">>,
          <<"${", "a", "}", "b", "${", "b", "}">>),
     Sets(<<"a", "=">>, <<"a">>, <<>>),
     Sets(<<"b", "=", "${", "${", "}", "a", "}">>, <<"b">>, <<"${", "${", "}", "a", "}">>),
     Sets(<<"b", "=", "${", "h", "}", "${", "a">>, <<"b">>, <<"${", "h", "}", "${", "a">>),
     Sets(<<"c", "=", "${", "a", "${", "}", "}">>, <<"c">>, <<"${", "a", "${", "}", "}">>),
     Sets(<<"=", "b">>, <<>>, <<"b">>)}

Properties == INSTANCE PropertyFile WITH
    Text <- UNION {[1..n -> TextLines] : n \in 0..2}, Room <- 3,
    Environment <- [n \in {<<"h">>} |-> <<"#", "${", "a", "}">>],
    pc <- loadPc

-----------------------------------------------------------------------------
(* Files of SimpleConfigurator: each line and each fault once, and some of  *)
(* them behind every other.                                                 *)

AppenderLine(c, kind, words, layout) ==
    [words |-> <<"appender", c, Head(layout), kind>> \o words \o Tail(layout),
     means |-> [what |-> "appender", category |-> c, kind |-> kind, layout |-> layout]]
PriorityLine(c, p) ==
    [words |-> <<"priority", c, p>>, means |-> [what |-> "priority", category |-> c, priority |-> p]]
Fault(words) == [words |-> words, means |-> [what |-> "fault"]]
GoodLines ==
    {AppenderLine("root", "console", <<>>, <<"basic">>),
     AppenderLine("sub", "file", <<"log">>, <<"simple">>),
     AppenderLine("root", "rolling", <<"log", "1", "2">>, <<"pattern", "%m", "%n">>),
     AppenderLine("sub", "dailyrolling", <<"log", "2">>, <<"basic">>),
     AppenderLine("root", "remotesyslog", <<"name", "host", "1", "2">>, <<"simple">>),
     PriorityLine("root", "ERROR"), PriorityLine("sub", "NOTSET"),
     [words |-> <<"category", "other">>, means |-> [what |-> "category", category |-> "other"]],
     [words |-> <<"#", "priority", "root", "INFO">>, means |-> [what |-> "comment"]]}
FaultyLines ==
    {Fault(ws) : ws \in
        {<<"appender", "root", "basic">>, <<"appender", "root", "odd", "console">>,
         <<"appender", "root", "pattern", "console", "%?">>,
         <<"appender", "root", "pattern", "console">>, <<"appender", "root", "simple", "file">>,
         <<"appender", "root", "simple", "rolling", "log", "many", "2">>,
         <<"appender", "sub", "basic", "odd">>, <<"priority", "root", "NOTSET">>,
         <<"category">>, <<"odd", "root">>}}
LastLines ==
    {AppenderLine("sub", "syslog", <<"name", "1">>, <<"pattern", "%m", "%n">>),
     PriorityLine("sub", "INFO"), Fault(<<"priority", "root">>),
     Fault(<<"appender", "sub", "pattern", "syslog", "name", "%m">>)}

Simple == INSTANCE SimpleConfig WITH
    File <- {<<>>} \cup {<<l>> : l \in GoodLines \cup FaultyLines}
            \cup {<<l, m>> : l \in GoodLines, m \in LastLines},
    MaxCall <- 2,
    pc <- simplePc, priority <- level, result <- simpleResult, calls <- simpleCalls

-----------------------------------------------------------------------------
(* Files of PropertyConfigurator in order and with each fault; no file      *)
(* names the appender of another, and nothing defines "D".                  *)

Key(n, o) == [name |-> n, outcome |-> o]
Line(c, p, b, as) == [category |-> c, priority |-> p, additive |-> b, appenders |-> as]
MCFiles ==
    {[keys |-> <<Key("A", "good"), Key("B", "good")>>, categories |-> ls] :
        ls \in {<<Line("root", 600, TRUE, <<"A">>)>>,
                <<Line("root", 300, TRUE, <<"B", "A">>), Line("sub", 800, FALSE, <<"B">>)>>,
                <<Line("root", 100, TRUE, <<>>), Line("sub", -1, TRUE, <<"A">>)>>,
                <<Line("root", 600, TRUE, <<"A", "D">>)>>,
                <<Line("root", 800, TRUE, <<"A">>)>>,
                <<Line("sub", 600, TRUE, <<"A">>)>>,
                <<>>}}
    \cup
    {[keys |-> <<Key("A", "good"), Key(n, o)>>,
      categories |-> <<Line("root", 600, TRUE, <<"A">>)>>] :
        n \in {"A", "B"}, o \in {"partial", "noType", "noLayout", "badThreshold"}}

Share == INSTANCE ShareBike WITH
    Category <- CatName, NoObject <- Null,
    pc <- configPc, calls <- configCalls, attached <- owned, at <- mainPc

ASSUME RootAssumption == Root \in CatName \ {Null}
ASSUME FilesAssumption == \A f \in File : Share!IsFile(f)

-----------------------------------------------------------------------------
MCvars == <<part, vars, bufferVars, syslogVars, patternVars, contextVars, loadVars, simpleVars,
            libraryVars, programVars>>

MCInit ==
    /\ part \in {"mail", "buffer", "syslog", "pattern", "contexts", "load", "simple", "config",
                 "main"}
    /\ Init
    /\ Buffer!Init /\ (part = "buffer" \/ maxSize = 1)
    /\ Syslog!Init /\ Layout!Init /\ Contexts!Init /\ Properties!Init /\ Simple!Init
    /\ Share!Init /\ (part = "main" \/ argc = 3)

\* A step of the mails: nothing else moves.
MailStep(A) ==
    /\ part = "mail" /\ A
    /\ UNCHANGED <<part, bufferVars, syslogVars, patternVars, contextVars, loadVars, simpleVars,
                   libraryVars, programVars>>

OtherStep ==
    /\ UNCHANGED <<part, vars>>
    /\ \/ /\ part = "buffer" /\ Buffer!Next
          /\ UNCHANGED <<syslogVars, patternVars, contextVars, loadVars, simpleVars,
                         libraryVars, programVars>>
       \/ /\ part = "syslog" /\ Syslog!Next
          /\ UNCHANGED <<bufferVars, patternVars, contextVars, loadVars, simpleVars,
                         libraryVars, programVars>>
       \/ /\ part = "pattern" /\ Layout!Next
          /\ UNCHANGED <<bufferVars, syslogVars, contextVars, loadVars, simpleVars,
                         libraryVars, programVars>>
       \/ /\ part = "contexts" /\ Contexts!Next
          /\ UNCHANGED <<bufferVars, syslogVars, patternVars, loadVars, simpleVars,
                         libraryVars, programVars>>
       \/ /\ part = "load" /\ Properties!Next
          /\ UNCHANGED <<bufferVars, syslogVars, patternVars, contextVars, simpleVars,
                         libraryVars, programVars>>
       \/ /\ part = "simple" /\ Simple!Next
          /\ UNCHANGED <<bufferVars, syslogVars, patternVars, contextVars, loadVars,
                         libraryVars, programVars>>
       \/ /\ part = "config" /\ Share!ConfigNext
          /\ UNCHANGED <<bufferVars, syslogVars, patternVars, contextVars, loadVars, simpleVars,
                         programVars>>
       \/ /\ part = "main" /\ Share!Next
          /\ UNCHANGED <<bufferVars, syslogVars, patternVars, contextVars, loadVars, simpleVars>>

MCSpec ==
    /\ MCInit /\ [][MailStep(Next) \/ OtherStep]_MCvars
    /\ WF_MCvars(MailStep(Sends))
    /\ WF_MCvars(MailStep(NoHandler \/ Handler \/ Join))
    /\ \A c \in Caller : WF_MCvars(MailStep(Send(c)))

-----------------------------------------------------------------------------
\* A record is laid out as the pattern says, stamped with the contexts of its
\* thread, and sent whole: Formatted of PatternText, ContextsOwn of NestedContext
\* and RecordSent of RemoteSyslog.
RecordsWhole == Layout!Formatted /\ Contexts!ContextsOwn /\ Syslog!RecordSent

\* A configuration is read for what it says: PropertiesRead of PropertyFile and
\* SimpleRead of SimpleConfig.
SettingsRead == Properties!PropertiesRead /\ Simple!SimpleRead

\* See BufferedLog, LogConfig and ShareBike.
BufferTells == Buffer!BufferTells
Configured == Share!Configured
MainTells == Share!MainTells
=============================================================================
