----------------------------- MODULE RollingFile -----------------------------
(***************************************************************************)
(* The FileAppender and the RollingFileAppender of git/log4cpp.            *)
(*                                                                         *)
(* A record is appended to the file, and when the file has grown to its    *)
(* limit it is closed, the backups are renamed one after the other and a   *)
(* new file is opened: each of these system calls is a step, between which *)
(* the process may be killed.  The constructor of the next process finds   *)
(* whatever names are there.  Names and contents of files are kept apart,  *)
(* since a descriptor goes with the contents.                              *)
(*                                                                         *)
(* The threads that call an appender hold the mutex of a category.  When   *)
(* two categories share the appender, or reopenAll is called, these are    *)
(* different mutexes: Serial = FALSE.                                      *)
(***************************************************************************)
EXTENDS Integers, Sequences, FiniteSets, SequencesExt

CONSTANTS
    Thread,
    Serial,         \* one mutex guards all calls
    Fd,             \* descriptors the process may have open
    Inode,          \* contents of files
    Absent,         \* no file of that name, or a descriptor that is not open
    NoFd,           \* -1
    Sizes,          \* values of _maxFileSize, in records
    Backups,        \* values of _maxBackupIndex
    Raises,         \* setMaxBackupIndex is called with greater values only
    Appends,        \* values given to setAppend
    Base,           \* base of the numbers in file names: 10
    MaxRecord,      \* bound: records logged
    MaxSlack        \* bound: crashes and calls of rollOver

\* There are limits and numbers of backups, each with a greatest; and the disk has room
\* for one file more than the appender keeps.
ASSUME FilesAssumption ==
    /\ Absent \notin Inode /\ NoFd \notin Fd
    /\ Sizes \subseteq Nat /\ \E s \in Sizes \ {0} : \A r \in Sizes : r <= s
    /\ Backups \subseteq Nat /\ \E b \in Backups : \A a \in Backups : a <= b
    /\ IsFiniteSet(Inode) /\ Cardinality(Inode) > Max(Backups)

VARIABLES
    name,           \* directory: what each file name stands for
    data,           \* contents
    desc,           \* descriptors of the process
    fd,             \* _fd
    maxBackupIndex, maxFileSize, append,
    pc, i, spare,   \* of each thread: place, loop counter, descriptor of reopen
    up,             \* the process runs
    last, missed,   \* ghosts: records logged, records that went nowhere
    slack           \* ghost: crashes and calls of rollOver

disk     == <<name, data>>
settings == <<maxBackupIndex, maxFileSize, append>>
ghosts   == <<last, missed, slack>>
vars     == <<disk, desc, fd, settings, pc, i, spare, up, ghosts>>

Digits(b) == IF b < Base THEN 1 ELSE 2

\* File names: the log file, and the backups with a number of fixed width.
LogFile == <<0, 0>>
Backup(k) == <<Digits(maxBackupIndex), k>>
File == {LogFile} \cup ({1, 2} \X (1..Max(Backups)))

\* The contents of a file, or nothing.
Contents(f) == IF name[f] = Absent THEN <<>> ELSE data[name[f]]

\* The files as they are read, the oldest backup first.
Kept == FlattenSeq([k \in 1..maxBackupIndex |-> Contents(Backup(maxBackupIndex + 1 - k))])
        \o Contents(LogFile)

IsOpen(d) == d # NoFd /\ desc[d] # Absent

\* Contents that neither a name nor a descriptor refers to.
Unused == Inode \ ({name[f] : f \in File} \cup {desc[d] : d \in Fd})

Init ==
    /\ name = [f \in File |-> Absent]
    /\ data = [n \in Inode |-> <<>>]
    /\ desc = [d \in Fd |-> Absent]
    /\ fd = NoFd
    /\ maxBackupIndex \in Backups /\ maxFileSize \in Sizes /\ append \in Appends
    /\ pc = [t \in Thread |-> "idle"]
    /\ i = [t \in Thread |-> 0]
    /\ spare = [t \in Thread |-> NoFd]
    /\ up = FALSE
    /\ last = 0 /\ missed = {} /\ slack = 0

Goto(t, label) == pc' = [pc EXCEPT ![t] = label]

\* A thread that calls the appender.
Calls(t) ==
    /\ up
    /\ pc[t] = "idle"
    /\ Serial => \A u \in Thread : pc[u] = "idle"

-----------------------------------------------------------------------------
(* Slips a programmer could make.  No behaviour of Spec takes one: each     *)
(* stands for a definition below in a variant of this module in which the   *)
(* property named with it must fail.                                        *)

\* The backups are renamed from the newest to the oldest (RetainsEnough).
RenameUp(t) ==
    LET j == maxBackupIndex + 1 - i[t]
        from == IF j > 1 THEN Backup(j - 1) ELSE LogFile
        to == Backup(j)
    IN  /\ pc[t] = "rename"
        /\ name' = IF name[from] = Absent THEN name
                   ELSE [name EXCEPT ![to] = name[from], ![from] = Absent]
        /\ i' = [i EXCEPT ![t] = @ - 1]
        /\ Goto(t, IF i[t] > 1 THEN "rename" ELSE "open")
        /\ UNCHANGED <<data, desc, fd, settings, spare, up, ghosts>>

\* reopen leaves the old descriptor open (SizesBounded).
ReopenCloseKeeps(t) ==
    /\ pc[t] = "reopenClose"
    /\ Goto(t, "reopenSet")
    /\ UNCHANGED <<disk, desc, fd, settings, i, spare, up, ghosts>>

\* The flag of setAppend is taken the wrong way round (LogTails).
OpensInverted(d) ==
    /\ desc[d] = Absent
    /\ \A e \in Fd : e < d => desc[e] # Absent
    /\ IF name[LogFile] # Absent
       THEN /\ data' = IF ~append THEN data ELSE [data EXCEPT ![name[LogFile]] = <<>>]
            /\ desc' = [desc EXCEPT ![d] = name[LogFile]]
            /\ UNCHANGED name
       ELSE LET n == CHOOSE m \in Unused : TRUE
            IN  /\ data' = [data EXCEPT ![n] = <<>>]
                /\ name' = [name EXCEPT ![LogFile] = n]
                /\ desc' = [desc EXCEPT ![d] = n]

-----------------------------------------------------------------------------
(* open(_fileName, _flags, _mode), with the lowest free descriptor.         *)

Opens(d) ==
    /\ desc[d] = Absent
    /\ \A e \in Fd : e < d => desc[e] # Absent
    /\ IF name[LogFile] # Absent
       THEN /\ data' = IF append THEN data ELSE [data EXCEPT ![name[LogFile]] = <<>>]
            /\ desc' = [desc EXCEPT ![d] = name[LogFile]]
            /\ UNCHANGED name
       ELSE LET n == CHOOSE m \in Unused : TRUE
            IN  /\ data' = [data EXCEPT ![n] = <<>>]
                /\ name' = [name EXCEPT ![LogFile] = n]
                /\ desc' = [desc EXCEPT ![d] = n]

OpenFails == UNCHANGED <<disk, desc>>

\* The constructor.
Start ==
    /\ ~up
    /\ up' = TRUE
    /\ \/ \E d \in Fd : Opens(d) /\ fd' = d
       \/ OpenFails /\ fd' = NoFd
    /\ UNCHANGED <<settings, pc, i, spare, ghosts>>

Crash ==
    /\ up
    /\ slack < MaxSlack
    /\ slack' = slack + 1
    /\ up' = FALSE
    /\ desc' = [d \in Fd |-> Absent]
    /\ fd' = NoFd
    /\ pc' = [t \in Thread |-> "idle"]
    /\ i' = [t \in Thread |-> 0]
    /\ spare' = [t \in Thread |-> NoFd]
    /\ UNCHANGED <<disk, settings, last, missed>>

-----------------------------------------------------------------------------
(* _append.                                                                 *)

\* FileAppender::_append; an error of write is ignored.
Write(t) ==
    /\ Calls(t)
    /\ last < MaxRecord
    /\ last' = last + 1
    /\ \/ /\ IsOpen(fd)
          /\ data' = [data EXCEPT ![desc[fd]] = Append(@, last')]
          /\ UNCHANGED missed
       \/ /\ ~IsOpen(fd)
          /\ missed' = missed \cup {last'}
          /\ UNCHANGED data
    /\ Goto(t, "seek")
    /\ UNCHANGED <<name, desc, fd, settings, i, spare, up, slack>>

\* lseek to the end; an error is ignored.
Seek(t) ==
    /\ pc[t] = "seek"
    /\ Goto(t, IF IsOpen(fd) /\ Len(data[desc[fd]]) >= maxFileSize THEN "close" ELSE "idle")
    /\ UNCHANGED <<disk, desc, fd, settings, i, spare, up, ghosts>>

-----------------------------------------------------------------------------
(* rollOver.                                                                *)

\* A call by the program.
RollOver(t) ==
    /\ Calls(t)
    /\ slack < MaxSlack
    /\ slack' = slack + 1
    /\ Goto(t, "close")
    /\ UNCHANGED <<disk, desc, fd, settings, i, spare, up, last, missed>>

CloseFd == desc' = IF IsOpen(fd) THEN [desc EXCEPT ![fd] = Absent] ELSE desc

\* _fd keeps its value until the new file is open.
Close(t) ==
    /\ pc[t] = "close"
    /\ CloseFd
    /\ Goto(t, IF maxBackupIndex > 0 THEN "remove" ELSE "open")
    /\ UNCHANGED <<disk, fd, settings, i, spare, up, ghosts>>

RemoveOldest(t) ==
    /\ pc[t] = "remove"
    /\ name' = [name EXCEPT ![Backup(maxBackupIndex)] = Absent]
    /\ i' = [i EXCEPT ![t] = maxBackupIndex]
    /\ Goto(t, "rename")
    /\ UNCHANGED <<data, desc, fd, settings, spare, up, ghosts>>

\* One turn of the loop, and the rename of the log file after the last.
Rename(t) ==
    LET from == IF i[t] > 1 THEN Backup(i[t] - 1) ELSE LogFile
        to == Backup(i[t])
    IN  /\ pc[t] = "rename"
        /\ name' = IF name[from] = Absent THEN name
                   ELSE [name EXCEPT ![to] = name[from], ![from] = Absent]
        /\ i' = [i EXCEPT ![t] = @ - 1]
        /\ Goto(t, IF i[t] > 1 THEN "rename" ELSE "open")
        /\ UNCHANGED <<data, desc, fd, settings, spare, up, ghosts>>

Open(t) ==
    /\ pc[t] = "open"
    /\ \/ \E d \in Fd : Opens(d) /\ fd' = d
       \/ OpenFails /\ fd' = NoFd
    /\ Goto(t, "idle")
    /\ UNCHANGED <<settings, i, spare, up, ghosts>>

-----------------------------------------------------------------------------
(* reopen, close and the setters.                                           *)

\* The new descriptor is had before the old one is given up.
Reopen(t) ==
    /\ Calls(t)
    /\ \/ \E d \in Fd : Opens(d) /\ spare' = [spare EXCEPT ![t] = d] /\ Goto(t, "reopenClose")
       \/ OpenFails /\ UNCHANGED <<spare, pc>>
    /\ UNCHANGED <<fd, settings, i, up, ghosts>>

ReopenClose(t) ==
    /\ pc[t] = "reopenClose"
    /\ CloseFd
    /\ Goto(t, "reopenSet")
    /\ UNCHANGED <<disk, fd, settings, i, spare, up, ghosts>>

ReopenSet(t) ==
    /\ pc[t] = "reopenSet"
    /\ fd' = spare[t]
    /\ spare' = [spare EXCEPT ![t] = NoFd]
    /\ Goto(t, "idle")
    /\ UNCHANGED <<disk, desc, settings, i, up, ghosts>>

CloseFile(t) ==
    /\ Calls(t)
    /\ CloseFd
    /\ fd' = NoFd
    /\ UNCHANGED <<disk, settings, pc, i, spare, up, ghosts>>

SetMaxBackupIndex(t, b) ==
    /\ Calls(t)
    /\ Raises => b >= maxBackupIndex
    /\ maxBackupIndex' = b
    /\ UNCHANGED <<disk, desc, fd, maxFileSize, append, pc, i, spare, up, ghosts>>

SetMaximumFileSize(t, s) ==
    /\ Calls(t)
    /\ maxFileSize' = s
    /\ UNCHANGED <<disk, desc, fd, maxBackupIndex, append, pc, i, spare, up, ghosts>>

SetAppend(t, b) ==
    /\ Calls(t)
    /\ append' = b
    /\ UNCHANGED <<disk, desc, fd, maxBackupIndex, maxFileSize, pc, i, spare, up, ghosts>>

-----------------------------------------------------------------------------
Step(t) ==
    \/ Write(t) \/ Seek(t)
    \/ RollOver(t) \/ Close(t) \/ RemoveOldest(t) \/ Rename(t) \/ Open(t)
    \/ Reopen(t) \/ ReopenClose(t) \/ ReopenSet(t) \/ CloseFile(t)
    \/ \E b \in Backups : SetMaxBackupIndex(t, b)
    \/ \E s \in Sizes : SetMaximumFileSize(t, s)
    \/ \E b \in Appends : SetAppend(t, b)

Next == Start \/ Crash \/ \E t \in Thread : Step(t)

Spec == Init /\ [][Next]_vars

-----------------------------------------------------------------------------
(* Properties.                                                             *)

TypeOK ==
    /\ name \in [File -> Inode \cup {Absent}]
    /\ \A f, g \in File : name[f] = name[g] /\ name[f] # Absent => f = g
    /\ desc \in [Fd -> Inode \cup {Absent}]
    /\ fd \in Fd \cup {NoFd}
    /\ maxBackupIndex \in Backups /\ maxFileSize \in Sizes /\ append \in Appends
    /\ i \in [Thread -> 0..Max(Backups)]
    /\ missed \subseteq 1..last

\* The disk does not fill: a file outgrows its limit by one record for each
\* crash at most, and no file is left behind outside the rotation; nor does the
\* process run out of descriptors (RollingFileAppender.cpp:61-94,
\* FileAppender.cpp:86-100).
SizesBounded ==
    /\ TypeOK
    /\ \A f \in File : Len(Contents(f)) <= Max(Sizes) + slack
    /\ \A f \in File \ {LogFile} : name[f] # Absent =>
          f \in {Backup(k) : k \in 1..maxBackupIndex}
    /\ \A t \in Thread : pc[t] = "idle" =>
          {d \in Fd : desc[d] # Absent} = {fd} \ {NoFd} \/ \E u \in Thread : pc[u] # "idle"

\* Old records go only when all backups are full of newer ones; a crash in the
\* middle of a roll-over, or a roll-over the program asked for, costs one backup
\* (RollingFileAppender.cpp:61-82).
RetainsEnough ==
    [][Len(Kept') < Len(Kept) =>
          Len(Kept') >= (maxBackupIndex - slack) * Min(Sizes)]_vars

\* Read in their order the files are the end of what was logged, whenever the
\* process is killed and restarted (LogTail).
Abstract == INSTANCE LogTail WITH
    kept <- Kept, writable <- fd # NoFd
ImplementsLogTail == Abstract!Spec
=============================================================================
