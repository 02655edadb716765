---------------------------- MODULE LoggingProofs ----------------------------
(***************************************************************************)
(* Proofs about the file appenders: the files of a RollingFileAppender are *)
(* bounded in number and in size, through crashes and failing calls, for   *)
(* any limits, threads and descriptors; and the dated files of a           *)
(* DailyRollingFileAppender hold the records of their days, and are kept   *)
(* for as many days as they should be, for any days, pauses and crashes.   *)
(***************************************************************************)
EXTENDS MCLogging, FiniteSetTheorems, SequenceTheorems, TLAPS

\* The calls come one at a time, and the numbers in the names are neither lowered nor
\* widened; see the README for what happens without one of these.
OneWay == Serial /\ Raises /\ \A b \in Backups : 0 < b /\ b < Base

Top == Max(Sizes)
Numbers == 1..Max(Backups)
Quiet == {"idle", "seek", "close"}
Emptied == {"remove", "rename", "open"}
Places == Quiet \cup Emptied \cup {"reopenClose", "reopenSet"}

FilesTyped ==
    /\ TypeOK
    /\ data \in [Inode -> Seq(Nat)]
    /\ pc \in [Thread -> Places]
    /\ spare \in [Thread -> Fd \cup {NoFd}]
    /\ up \in BOOLEAN /\ last \in Nat /\ slack \in Nat

\* One thread is in the appender at most, and none in a process that is gone.
OneInside ==
    /\ \A u, v \in Thread : pc[u] # "idle" /\ pc[v] # "idle" => u = v
    /\ ~up => fd = NoFd /\ \A u \in Thread : pc[u] = "idle"

\* The open descriptors are the one the appender has, none in the middle of a
\* roll-over, and in a reopen the one it takes instead.
DescSound ==
    /\ (\A u \in Thread : pc[u] \in Quiet) =>
          /\ \A d \in Fd : desc[d] = IF d = fd THEN name[LogFile] ELSE Absent
          /\ fd # NoFd => name[LogFile] # Absent
    /\ \A u \in Thread :
          /\ pc[u] \in Emptied => \A d \in Fd : desc[d] = Absent
          /\ pc[u] \in {"reopenClose", "reopenSet"} =>
                /\ spare[u] \in Fd /\ desc[spare[u]] = name[LogFile] /\ name[LogFile] # Absent
                /\ \A d \in Fd \ {spare[u]} :
                      desc[d] = Absent \/ (d = fd /\ pc[u] = "reopenClose")
          /\ pc[u] = "reopenClose" => spare[u] # fd

\* Where the loop over the backups is, and that the log file is gone after it.
LoopSound ==
    \A u \in Thread :
        /\ pc[u] = "rename" => i[u] \in 1..maxBackupIndex
        /\ pc[u] = "open" => name[LogFile] = Absent

\* The backups have the numbers they may have.
NamesSound ==
    \A f \in File \ {LogFile} : name[f] # Absent => f[1] = 1 /\ f[2] <= maxBackupIndex

\* Only a file that is about to be rolled over has reached its limit.
LengthsSound ==
    /\ \A f \in File : Len(Contents(f)) <= Top + slack
    /\ (\A u \in Thread : pc[u] \notin {"seek", "close", "remove", "rename"}) =>
          Len(Contents(LogFile)) < Top + slack
    /\ (fd = NoFd /\ \A u \in Thread : pc[u] \in {"idle", "seek"}) =>
          Len(Contents(LogFile)) < Top + slack

FilesInv == FilesTyped /\ OneInside /\ DescSound /\ LoopSound /\ NamesSound /\ LengthsSound

\* What is greatest among the limits and the numbers of backups.
LEMMA Greatest ==
  /\ Top \in Nat /\ Top >= 1 /\ \A s \in Sizes : s \in Nat /\ s <= Top
  /\ Max(Backups) \in Nat /\ \A b \in Backups : b \in Nat /\ b <= Max(Backups)
<1>1. PICK s \in Sizes \ {0} : \A r \in Sizes : r <= s
  BY FilesAssumption
<1>2. Top \in Sizes /\ \A r \in Sizes : Top >= r
  <2>1. s \in Sizes /\ \A r \in Sizes : s >= r
    BY <1>1, FilesAssumption
  <2> QED BY <2>1 DEF Top, Max
<1>3. PICK b \in Backups : \A a \in Backups : a <= b
  BY FilesAssumption
<1>4. Max(Backups) \in Backups /\ \A a \in Backups : Max(Backups) >= a
  <2>1. b \in Backups /\ \A a \in Backups : b >= a
    BY <1>3, FilesAssumption
  <2> QED BY <2>1 DEF Max
<1>5. /\ s \in Sizes /\ s \in Nat \ {0} /\ Top \in Nat /\ Sizes \subseteq Nat
      /\ Backups \subseteq Nat /\ Max(Backups) \in Nat
  BY <1>1, <1>2, <1>4, FilesAssumption
<1>6. Top >= s
  BY <1>2, <1>5
<1> HIDE DEF Top
<1> QED BY <1>2, <1>4, <1>5, <1>6

\* The names of the files, which have numbers of one digit.
LEMMA FileNames ==
  ASSUME OneWay, maxBackupIndex \in Backups
  PROVE  /\ LogFile \in File /\ maxBackupIndex \in Nat \ {0} /\ maxBackupIndex \in 0..Max(Backups)
         /\ \A k \in 1..maxBackupIndex : Backup(k) \in File \ {LogFile} /\ Backup(k) = <<1, k>>
         /\ \A f \in File \ {LogFile} : f[1] = 1 /\ f[2] <= maxBackupIndex =>
               \E k \in 1..maxBackupIndex : f = Backup(k)
<1>1. maxBackupIndex \in Nat \ {0} /\ maxBackupIndex \in 0..Max(Backups)
  BY Greatest DEF OneWay
<1>2. \A k : Backup(k) = <<1, k>>
  BY DEF OneWay, Backup, Digits
<1>3. LogFile \in File
  BY DEF File
<1>4. \A k \in 1..maxBackupIndex : <<1, k>> \in File \ {LogFile}
  BY <1>1, Greatest DEF File, LogFile
<1>5. ASSUME NEW f \in File \ {LogFile}, f[1] = 1, f[2] <= maxBackupIndex
      PROVE  \E k \in 1..maxBackupIndex : f = <<1, k>>
  <2>1. f \in {1, 2} \X (1..Max(Backups))
    BY DEF File
  <2>2. f = <<f[1], f[2]>> /\ f[2] \in 1..Max(Backups)
    BY <2>1
  <2>3. f[2] \in 1..maxBackupIndex
    BY <1>1, <1>5, <2>2, Greatest
  <2> QED BY <1>5, <2>2, <2>3
<1> QED BY <1>1, <1>2, <1>3, <1>4, <1>5

\* Who is in the appender is there alone.
LEMMA OthersIdle ==
  ASSUME OneWay, FilesInv, NEW u \in Thread, Calls(u) \/ pc[u] # "idle"
  PROVE  up /\ \A v \in Thread \ {u} : pc[v] = "idle"
  BY DEF OneWay, FilesInv, OneInside, Calls

\* The contents of a file have a length.
LEMMA ContentsTyped ==
  ASSUME FilesInv, NEW f \in File
  PROVE  Contents(f) \in Seq(Nat) /\ Len(Contents(f)) \in Nat
<1>1. name[f] # Absent => name[f] \in Inode /\ data[name[f]] \in Seq(Nat)
  BY DEF FilesInv, FilesTyped, TypeOK
<1>2. Contents(f) \in Seq(Nat)
  BY <1>1 DEF Contents
<1> QED BY <1>2, LenProperties

\* At the start there is no file.
LEMMA InitFilesInv == OneWay /\ Init => FilesInv
<1> SUFFICES ASSUME OneWay, Init PROVE FilesInv
  OBVIOUS
<1> USE DEF Init
<1>1. FilesTyped
  <2>1. TypeOK
    BY Greatest DEF TypeOK
  <2>2. data \in [Inode -> Seq(Nat)] /\ up \in BOOLEAN
    <3>1. <<>> \in Seq(Nat)
      OBVIOUS
    <3> QED BY <3>1
  <2> QED BY <2>1, <2>2 DEF FilesTyped, Places, Quiet
<1>2. OneInside /\ LoopSound /\ NamesSound
  BY DEF OneInside, LoopSound, NamesSound
<1>3. DescSound
  BY FilesAssumption DEF DescSound, Emptied
<1>4. LengthsSound
  <2>1. \A f \in File : Contents(f) = <<>>
    BY DEF Contents
  <2>2. \A f \in File : Len(Contents(f)) = 0
    BY <2>1
  <2>3. LogFile \in File
    BY FileNames
  <2> QED BY <2>2, <2>3, Greatest DEF LengthsSound
<1> QED BY <1>1, <1>2, <1>3, <1>4 DEF FilesInv

\* There is an inode for a new log file, since one is made only when no descriptor is
\* open and only backups have names.
LEMMA SomeUnused ==
  ASSUME OneWay, FilesInv, name[LogFile] = Absent, \A d \in Fd : desc[d] = Absent
  PROVE  Unused # {}
<1> SUFFICES ASSUME Unused = {} PROVE FALSE
  OBVIOUS
<1> DEFINE m == maxBackupIndex
           g == [k \in 1..m |-> name[Backup(k)]]
           Used == {g[k] : k \in 1..m}
<1>1. m \in Nat /\ m <= Max(Backups) /\ m \in Backups
  BY FileNames, Greatest DEF FilesInv, FilesTyped, TypeOK
<1>2. Inode \subseteq Used
  <2> SUFFICES ASSUME NEW n \in Inode PROVE n \in Used
    OBVIOUS
  <2>1. n # Absent
    BY FilesAssumption
  <2>2. PICK f \in File : name[f] = n
    BY <2>1 DEF Unused
  <2>3. f # LogFile
    BY <2>1, <2>2
  <2>4. PICK k \in 1..m : f = Backup(k)
    BY <1>1, <2>1, <2>2, <2>3, FileNames DEF FilesInv, NamesSound
  <2> QED BY <2>2, <2>4
<1>3. IsFiniteSet(Used) /\ Cardinality(Used) <= m
  <2>1. IsFiniteSet(1..m) /\ Cardinality(1..m) = m
    BY <1>1, FS_Interval
  <2>2. g \in Surjection(1..m, Used)
    BY DEF Surjection
  <2> HIDE DEF g, Used
  <2> QED BY <2>1, <2>2, FS_Surjection
<1>4. Cardinality(Inode) <= Cardinality(Used)
  BY <1>2, <1>3, FS_Subset
<1>5. Cardinality(Inode) \in Nat /\ Cardinality(Used) \in Nat
  BY <1>3, FilesAssumption, FS_CardinalityType
<1> HIDE DEF Used
<1> QED BY <1>1, <1>3, <1>4, <1>5, FilesAssumption, Greatest

\* open gives a free descriptor of the log file, new if there was none, and leaves the
\* backups alone.
LEMMA OpensFacts ==
  ASSUME OneWay, FilesInv, NEW d \in Fd, Opens(d),
         name[LogFile] = Absent => \A e \in Fd : desc[e] = Absent
  PROVE  /\ desc[d] = Absent
         /\ desc' \in [Fd -> Inode \cup {Absent}] /\ desc'[d] = name'[LogFile]
         /\ \A e \in Fd \ {d} : desc'[e] = desc[e]
         /\ name' \in [File -> Inode \cup {Absent}] /\ name'[LogFile] \in Inode
         /\ name'[LogFile] # Absent
         /\ name[LogFile] # Absent => name' = name
         /\ \A f \in File \ {LogFile} : name'[f] = name[f]
         /\ \A f, g \in File : name'[f] = name'[g] /\ name'[f] # Absent => f = g
         /\ data' \in [Inode -> Seq(Nat)]
         /\ \A f \in File \ {LogFile} : Contents(f)' = Contents(f)
         /\ Len(Contents(LogFile)') <= Len(Contents(LogFile))
         /\ Len(Contents(LogFile)') \in Nat
<1>1. /\ name \in [File -> Inode \cup {Absent}] /\ desc \in [Fd -> Inode \cup {Absent}]
      /\ \A f, g \in File : name[f] = name[g] /\ name[f] # Absent => f = g
      /\ data \in [Inode -> Seq(Nat)] /\ LogFile \in File /\ Absent \notin Inode
  BY FilesAssumption DEF FilesInv, FilesTyped, TypeOK, File
<1>2. /\ Len(Contents(LogFile)) \in Nat /\ Len(<<>>) = 0 /\ <<>> \in Seq(Nat)
      /\ 0 <= Len(Contents(LogFile))
  BY <1>1, ContentsTyped
<1>3. CASE name[LogFile] # Absent
  <2>1. /\ data' = IF append THEN data ELSE [data EXCEPT ![name[LogFile]] = <<>>]
        /\ desc' = [desc EXCEPT ![d] = name[LogFile]] /\ name' = name /\ desc[d] = Absent
    BY <1>3 DEF Opens
  <2>2. /\ data' \in [Inode -> Seq(Nat)]
        /\ data'[name[LogFile]] \in {data[name[LogFile]], <<>>}
        /\ \A n \in Inode \ {name[LogFile]} : data'[n] = data[n]
    BY <1>1, <1>2, <2>1, ZenonT(60)
  <2>3. \A f \in File \ {LogFile} : Contents(f)' = Contents(f)
    <3> SUFFICES ASSUME NEW f \in File \ {LogFile} PROVE Contents(f)' = Contents(f)
      OBVIOUS
    <3>1. name[f] # Absent => name[f] \in Inode \ {name[LogFile]}
      BY <1>1
    <3> QED BY <2>1, <2>2, <3>1 DEF Contents
  <2>4. Contents(LogFile)' \in {Contents(LogFile), <<>>}
    BY <1>3, <2>1, <2>2 DEF Contents
  <2>5. Len(Contents(LogFile)') \in {Len(Contents(LogFile)), 0}
    BY <1>2, <2>4
  <2> QED BY <1>1, <1>2, <1>3, <2>1, <2>2, <2>3, <2>5
<1>4. CASE name[LogFile] = Absent
  <2> DEFINE n == CHOOSE m \in Unused : TRUE
  <2>1. /\ data' = [data EXCEPT ![n] = <<>>] /\ name' = [name EXCEPT ![LogFile] = n]
        /\ desc' = [desc EXCEPT ![d] = n] /\ desc[d] = Absent
    BY <1>4 DEF Opens
  <2>2. n \in Unused
    BY <1>4, SomeUnused
  <2> HIDE DEF n
  <2>3. n \in Inode /\ \A f \in File : name[f] # n
    BY <2>2 DEF Unused
  <2>4. /\ data' \in [Inode -> Seq(Nat)] /\ data'[n] = <<>>
        /\ \A m \in Inode \ {n} : data'[m] = data[m]
    BY <1>1, <1>2, <2>1, <2>3
  <2>5. /\ name' \in [File -> Inode \cup {Absent}] /\ name'[LogFile] = n /\ n # Absent
        /\ \A f \in File \ {LogFile} : name'[f] = name[f]
    BY <1>1, <2>1, <2>3
  <2>6. \A f, g \in File : name'[f] = name'[g] /\ name'[f] # Absent => f = g
    BY <1>1, <2>3, <2>5, ZenonT(60)
  <2>7. \A f \in File \ {LogFile} : Contents(f)' = Contents(f)
    BY <1>1, <2>3, <2>4, <2>5 DEF Contents
  <2>8. Contents(LogFile)' = <<>>
    BY <2>4, <2>5 DEF Contents
  <2>9. desc' \in [Fd -> Inode \cup {Absent}] /\ desc'[d] = n /\ \A e \in Fd \ {d} : desc'[e] = desc[e]
    BY <1>1, <2>1, <2>3
  <2> QED BY <1>2, <1>4, <2>1, <2>3, <2>4, <2>5, <2>6, <2>7, <2>8, <2>9
<1> QED BY <1>3, <1>4

\* A thread that goes on stays the only one inside.
LEMMA ThreadMoves ==
  ASSUME OneWay, FilesInv, NEW u \in Thread, Calls(u) \/ pc[u] # "idle",
         NEW l \in Places, pc' = [pc EXCEPT ![u] = l], up' = up
  PROVE  /\ pc' \in [Thread -> Places] /\ pc'[u] = l
         /\ \A v \in Thread \ {u} : pc[v] = "idle" /\ pc'[v] = "idle"
         /\ up /\ OneInside'
<1>1. pc \in [Thread -> Places]
  BY DEF FilesInv, FilesTyped, Places
<1>2. up /\ \A v \in Thread \ {u} : pc[v] = "idle"
  BY OthersIdle
<1> QED BY <1>1, <1>2 DEF OneInside

\* What stays on the disk is as long and as well named as before.
LEMMA DiskKept ==
  ASSUME OneWay, FilesInv, name' = name, data' = data, slack' \in Nat, slack <= slack',
         maxBackupIndex' \in Backups, maxBackupIndex <= maxBackupIndex'
  PROVE  /\ NamesSound' /\ Contents(LogFile)' = Contents(LogFile) /\ LogFile \in File
         /\ \A f \in File : Len(Contents(f)') <= Top + slack'
<1>1. \A f : Contents(f)' = Contents(f)
  BY DEF Contents
<1>2. maxBackupIndex \in Nat /\ maxBackupIndex' \in Nat /\ slack \in Nat
  BY Greatest DEF FilesInv, FilesTyped, TypeOK
<1>3. NamesSound'
  <2> SUFFICES ASSUME NEW f \in File \ {LogFile}, name[f] # Absent
               PROVE  f[1] = 1 /\ f[2] <= maxBackupIndex'
    BY DEF NamesSound
  <2>1. f[1] = 1 /\ f[2] <= maxBackupIndex
    BY DEF FilesInv, NamesSound
  <2>2. f[2] \in Nat
    BY Greatest DEF File
  <2> QED BY <1>2, <2>1, <2>2
<1>4. \A f \in File : Len(Contents(f)) \in Nat /\ Len(Contents(f)) <= Top + slack
  BY ContentsTyped DEF FilesInv, LengthsSound
<1>5. \A f \in File : Len(Contents(f)) <= Top + slack'
  BY <1>2, <1>4, Greatest
<1> QED BY <1>1, <1>3, <1>5 DEF File

\* The setters (RollingFileAppender.cpp:44-57, FileAppender.cpp:57-65).
LEMMA SettersFilesInv ==
  ASSUME OneWay, FilesInv, NEW u \in Thread,
         \/ \E b \in Backups : SetMaxBackupIndex(u, b)
         \/ \E s \in Sizes : SetMaximumFileSize(u, s)
         \/ \E b \in Appends : SetAppend(u, b)
  PROVE  FilesInv'
<1>1. /\ UNCHANGED <<disk, desc, fd, pc, i, spare, up, ghosts>>
      /\ maxBackupIndex' \in Backups /\ maxFileSize' \in Sizes /\ append' \in Appends
      /\ maxBackupIndex' >= maxBackupIndex /\ Calls(u)
  <2>1. /\ maxBackupIndex \in Backups /\ maxFileSize \in Sizes /\ append \in Appends
        /\ maxBackupIndex \in Nat
    BY Greatest DEF FilesInv, FilesTyped, TypeOK
  <2> QED BY <2>1 DEF OneWay, SetMaxBackupIndex, SetMaximumFileSize, SetAppend
<1>2. UNCHANGED <<name, data, desc, fd, pc, i, spare, up, last, missed, slack>>
  BY <1>1 DEF disk, ghosts
<1>3. /\ maxBackupIndex \in Nat /\ maxBackupIndex' \in Nat /\ slack \in Nat
      /\ \A v \in Thread : pc[v] = "idle"
  BY <1>1, Greatest, OthersIdle DEF FilesInv, FilesTyped, TypeOK, Calls
<1>4. FilesTyped' /\ OneInside'
  BY <1>1, <1>2 DEF FilesInv, FilesTyped, TypeOK, OneInside
<1>5. DescSound'
  BY <1>2 DEF FilesInv, DescSound
<1>6. LoopSound'
  BY <1>2, <1>3 DEF LoopSound
<1>7. /\ NamesSound' /\ Contents(LogFile)' = Contents(LogFile)
      /\ \A f \in File : Len(Contents(f)') <= Top + slack'
  BY <1>1, <1>2, <1>3, DiskKept
<1>8. LengthsSound'
  BY <1>2, <1>7 DEF FilesInv, LengthsSound
<1> QED BY <1>4, <1>5, <1>6, <1>7, <1>8 DEF FilesInv

\* A crash: what was about to be rolled over may be too long by one record, and is
\* counted.
LEMMA CrashFilesInv == ASSUME OneWay, FilesInv, Crash PROVE FilesInv'
<1>1. /\ slack' = slack + 1 /\ up' = FALSE /\ desc' = [d \in Fd |-> Absent] /\ fd' = NoFd
      /\ pc' = [u \in Thread |-> "idle"] /\ i' = [u \in Thread |-> 0]
      /\ spare' = [u \in Thread |-> NoFd]
      /\ UNCHANGED <<name, data, maxBackupIndex, maxFileSize, append, last, missed>>
  BY DEF Crash, disk, settings
<1>2. slack \in Nat /\ slack' \in Nat /\ maxBackupIndex \in Nat /\ maxBackupIndex \in Backups
  BY <1>1, Greatest DEF FilesInv, FilesTyped, TypeOK
<1>3. FilesTyped'
  <2>1. TypeOK'
    BY <1>1, Greatest DEF FilesInv, FilesTyped, TypeOK
  <2>2. pc' \in [Thread -> Places] /\ spare' \in [Thread -> Fd \cup {NoFd}]
    BY <1>1 DEF Places, Quiet
  <2> QED BY <1>1, <1>2, <2>1, <2>2 DEF FilesInv, FilesTyped
<1>4. OneInside' /\ LoopSound'
  BY <1>1 DEF OneInside, LoopSound
<1>5. DescSound'
  BY <1>1, FilesAssumption DEF DescSound, Emptied
<1>6. /\ NamesSound' /\ Contents(LogFile)' = Contents(LogFile) /\ LogFile \in File
      /\ \A f \in File : Len(Contents(f)') <= Top + slack'
  BY <1>1, <1>2, DiskKept
<1>7. Len(Contents(LogFile)) <= Top + slack /\ Len(Contents(LogFile)) \in Nat
  BY <1>6, ContentsTyped DEF FilesInv, LengthsSound
<1>8. LengthsSound'
  BY <1>1, <1>2, <1>6, <1>7, Greatest DEF LengthsSound
<1> QED BY <1>3, <1>4, <1>5, <1>6, <1>8 DEF FilesInv

\* The constructor finds the names a crash has left.
LEMMA StartFilesInv == ASSUME OneWay, FilesInv, Start PROVE FilesInv'
<1>1. /\ ~up /\ up' = TRUE /\ fd = NoFd /\ \A u \in Thread : pc[u] = "idle"
      /\ UNCHANGED <<maxBackupIndex, maxFileSize, append, pc, i, spare, last, missed, slack>>
  BY DEF Start, settings, ghosts, FilesInv, OneInside
<1>2. \A d \in Fd : desc[d] = Absent
  BY <1>1, FilesAssumption DEF FilesInv, DescSound, Quiet
<1>3. /\ slack \in Nat /\ Len(Contents(LogFile)) \in Nat /\ Len(Contents(LogFile)) < Top + slack
      /\ Top \in Nat /\ LogFile \in File /\ maxBackupIndex \in Backups
      /\ \A f \in File : Len(Contents(f)) <= Top + slack
  <2>1. LogFile \in File
    BY DEF File
  <2> QED BY <1>1, <2>1, ContentsTyped, Greatest DEF FilesInv, FilesTyped, TypeOK, LengthsSound
<1>4. OneInside' /\ LoopSound'
  BY <1>1 DEF OneInside, LoopSound
<1>5. CASE OpenFails /\ fd' = NoFd
  <2>1. UNCHANGED <<name, data, desc, fd>>
    BY <1>1, <1>5 DEF OpenFails, disk
  <2>2. FilesTyped' /\ DescSound'
    BY <1>1, <2>1 DEF FilesInv, FilesTyped, TypeOK, DescSound
  <2>3. NamesSound' /\ \A f : Contents(f)' = Contents(f)
    BY <1>1, <2>1 DEF FilesInv, NamesSound, Contents
  <2>4. LengthsSound'
    BY <1>1, <1>3, <2>3 DEF LengthsSound
  <2> QED BY <1>4, <2>2, <2>3, <2>4 DEF FilesInv
<1>6. ASSUME NEW d \in Fd, Opens(d), fd' = d PROVE FilesInv'
  <2>1. /\ desc' \in [Fd -> Inode \cup {Absent}] /\ desc'[d] = name'[LogFile]
        /\ \A e \in Fd \ {d} : desc'[e] = Absent
        /\ name' \in [File -> Inode \cup {Absent}] /\ name'[LogFile] # Absent
        /\ \A f \in File \ {LogFile} : name'[f] = name[f] /\ Contents(f)' = Contents(f)
        /\ \A f, g \in File : name'[f] = name'[g] /\ name'[f] # Absent => f = g
        /\ data' \in [Inode -> Seq(Nat)]
        /\ Len(Contents(LogFile)') <= Len(Contents(LogFile))
        /\ Len(Contents(LogFile)') \in Nat
    BY <1>2, <1>6, OpensFacts, ZenonT(60)
  <2>2. FilesTyped'
    BY <1>1, <1>6, <2>1 DEF FilesInv, FilesTyped, TypeOK
  <2>3. DescSound'
    BY <1>1, <1>6, <2>1 DEF DescSound, Emptied
  <2>4. NamesSound'
    BY <1>1, <2>1 DEF FilesInv, NamesSound
  <2>5. Len(Contents(LogFile)') < Top + slack
    BY <1>3, <2>1
  <2>6. \A f \in File : Len(Contents(f)') <= Top + slack
    BY <1>3, <2>1, <2>5
  <2>7. LengthsSound'
    BY <1>1, <2>5, <2>6 DEF LengthsSound
  <2> QED BY <1>4, <2>2, <2>3, <2>4, <2>7 DEF FilesInv
<1> QED BY <1>5, <1>6 DEF Start

\* What the appender knows while nobody is inside, or before it closes the file.
LEMMA QuietFacts ==
  ASSUME OneWay, FilesInv, NEW u \in Thread, pc[u] \in Quiet,
         \A v \in Thread \ {u} : pc[v] = "idle"
  PROVE  /\ \A d \in Fd : desc[d] = IF d = fd THEN name[LogFile] ELSE Absent
         /\ fd # NoFd => name[LogFile] # Absent
         /\ IsOpen(fd) <=> fd # NoFd
         /\ NoFd \notin Fd
         /\ fd # NoFd => fd \in Fd
         /\ name[LogFile] \in Inode \cup {Absent} /\ Absent \notin Inode
<1>1. /\ \A d \in Fd : desc[d] = IF d = fd THEN name[LogFile] ELSE Absent
      /\ fd # NoFd => name[LogFile] # Absent
  BY DEF FilesInv, DescSound, Quiet
<1>2. fd \in Fd \cup {NoFd} /\ name[LogFile] \in Inode \cup {Absent} /\ LogFile \in File
  BY DEF FilesInv, FilesTyped, TypeOK, File
<1> QED BY <1>1, <1>2, FilesAssumption DEF IsOpen

\* Sizes and settings in numbers.
LEMMA FilesNumbers ==
  ASSUME OneWay, FilesInv
  PROVE  /\ slack \in Nat /\ last \in Nat /\ Top \in Nat /\ Top >= 1
         /\ maxFileSize \in Nat /\ maxFileSize <= Top
         /\ maxBackupIndex \in Nat \ {0} /\ maxBackupIndex \in Backups
         /\ LogFile \in File /\ Len(Contents(LogFile)) \in Nat
         /\ \A f \in File : Len(Contents(f)) \in Nat /\ Len(Contents(f)) <= Top + slack
<1>1. LogFile \in File /\ maxBackupIndex \in Backups
  BY DEF File, FilesInv, FilesTyped, TypeOK
<1> QED BY <1>1, Greatest, ContentsTyped, FileNames
        DEF FilesInv, FilesTyped, TypeOK, LengthsSound

\* A record goes to the end of the log file, or nowhere (FileAppender.cpp:76-84).
LEMMA WriteFilesInv ==
  ASSUME OneWay, FilesInv, NEW u \in Thread, Write(u) PROVE FilesInv'
<1>1. /\ Calls(u) /\ pc[u] = "idle" /\ last' = last + 1
      /\ pc' = [pc EXCEPT ![u] = "seek"]
      /\ UNCHANGED <<name, desc, fd, maxBackupIndex, maxFileSize, append, i, spare, up, slack>>
      /\ \/ /\ IsOpen(fd) /\ missed' = missed
            /\ data' = [data EXCEPT ![desc[fd]] = Append(@, last')]
         \/ ~IsOpen(fd) /\ missed' = missed \cup {last'} /\ data' = data
  BY DEF Write, Goto, settings, Calls
<1>2. /\ pc' \in [Thread -> Places] /\ pc'[u] = "seek" /\ OneInside'
      /\ \A v \in Thread \ {u} : pc[v] = "idle" /\ pc'[v] = "idle"
  BY <1>1, ThreadMoves, ZenonT(60) DEF Places, Quiet
<1>3. /\ data' \in [Inode -> Seq(Nat)]
      /\ \A f \in File \ {LogFile} : Contents(f)' = Contents(f)
      /\ Len(Contents(LogFile)') \in Nat
      /\ Len(Contents(LogFile)') <= Len(Contents(LogFile)) + 1
      /\ fd = NoFd => Len(Contents(LogFile)') = Len(Contents(LogFile))
  <2>1. CASE ~IsOpen(fd)
    <3>1. data' = data /\ \A f : Contents(f)' = Contents(f)
      BY <1>1, <2>1 DEF Contents
    <3> QED BY <3>1, FilesNumbers DEF FilesInv, FilesTyped
  <2>2. CASE IsOpen(fd)
    <3> DEFINE n == name[LogFile]
    <3>1. fd \in Fd /\ desc[fd] = n /\ n \in Inode /\ n # Absent
      BY <1>1, <1>2, <2>2, QuietFacts DEF Quiet
    <3>2. data[n] \in Seq(Nat) /\ last' \in Nat /\ data \in [Inode -> Seq(Nat)]
      BY <1>1, <3>1, FilesNumbers DEF FilesInv, FilesTyped
    <3>3. Append(data[n], last') \in Seq(Nat) /\ Len(Append(data[n], last')) = Len(data[n]) + 1
      BY <3>2, AppendProperties
    <3>4. /\ data' \in [Inode -> Seq(Nat)] /\ data'[n] = Append(data[n], last')
          /\ \A m \in Inode \ {n} : data'[m] = data[m]
      BY <1>1, <2>2, <3>1, <3>2, <3>3
    <3>5. \A f \in File \ {LogFile} : name[f] # Absent => name[f] \in Inode \ {n}
      BY <3>1, FilesNumbers DEF FilesInv, FilesTyped, TypeOK
    <3>6. \A f \in File \ {LogFile} : Contents(f)' = Contents(f)
      BY <1>1, <3>4, <3>5 DEF Contents
    <3>7. Contents(LogFile) = data[n] /\ Contents(LogFile)' = Append(data[n], last')
      BY <1>1, <3>1, <3>4 DEF Contents
    <3>8. fd # NoFd /\ Len(Contents(LogFile)) \in Nat
      BY <2>2, FilesNumbers DEF IsOpen
    <3>9. Len(Contents(LogFile)') = Len(Contents(LogFile)) + 1
      BY <3>3, <3>7
    <3> QED BY <3>4, <3>6, <3>8, <3>9
  <2> QED BY <2>1, <2>2
<1>4. missed' \subseteq 1..last'
  <2>1. missed \subseteq 1..last /\ last \in Nat /\ last' = last + 1
    BY <1>1, FilesNumbers DEF FilesInv, FilesTyped, TypeOK
  <2>2. last' \in 1..last' /\ 1..last \subseteq 1..last'
    BY <2>1
  <2> QED BY <1>1, <2>1, <2>2
<1>5. FilesTyped'
  BY <1>1, <1>2, <1>3, <1>4, FilesNumbers, SMTT(60) DEF FilesInv, FilesTyped, TypeOK
<1>6. DescSound'
  <2>1. /\ \A d \in Fd : desc[d] = IF d = fd THEN name[LogFile] ELSE Absent
        /\ fd # NoFd => name[LogFile] # Absent
    BY <1>1, <1>2, QuietFacts DEF Quiet
  <2>2. \A v \in Thread : pc'[v] \in Quiet /\ pc'[v] \notin Emptied \cup {"reopenClose", "reopenSet"}
    BY <1>2 DEF Quiet, Emptied
  <2> QED BY <1>1, <2>1, <2>2 DEF DescSound
<1>7. LoopSound' /\ NamesSound'
  BY <1>1, <1>2 DEF FilesInv, LoopSound, NamesSound
<1>8. Len(Contents(LogFile)) < Top + slack
  BY <1>1, <1>2 DEF FilesInv, LengthsSound
<1>9. \A f \in File : Len(Contents(f)') <= Top + slack
  BY <1>3, <1>8, FilesNumbers
<1>10. LengthsSound'
  BY <1>1, <1>2, <1>3, <1>8, <1>9 DEF LengthsSound
<1> QED BY <1>2, <1>5, <1>6, <1>7, <1>10 DEF FilesInv

\* lseek: if the file is not rolled over now, it is below its limit
\* (RollingFileAppender.cpp:84-94).
LEMMA SeekFilesInv ==
  ASSUME OneWay, FilesInv, NEW u \in Thread, Seek(u) PROVE FilesInv'
<1> DEFINE l == IF IsOpen(fd) /\ Len(data[desc[fd]]) >= maxFileSize THEN "close" ELSE "idle"
<1>1. /\ pc[u] = "seek" /\ pc' = [pc EXCEPT ![u] = l]
      /\ UNCHANGED <<name, data, desc, fd, maxBackupIndex, maxFileSize, append, i, spare, up,
                     last, missed, slack>>
  BY DEF Seek, Goto, disk, settings, ghosts
<1>2. /\ pc' \in [Thread -> Places] /\ pc'[u] = l /\ OneInside'
      /\ \A v \in Thread \ {u} : pc[v] = "idle" /\ pc'[v] = "idle"
  BY <1>1, ThreadMoves, ZenonT(60) DEF Places, Quiet
<1>3. FilesTyped'
  BY <1>1, <1>2 DEF FilesInv, FilesTyped, TypeOK
<1>4. DescSound'
  <2>1. /\ \A d \in Fd : desc[d] = IF d = fd THEN name[LogFile] ELSE Absent
        /\ fd # NoFd => name[LogFile] # Absent
    BY <1>1, <1>2, QuietFacts DEF Quiet
  <2>2. \A v \in Thread : pc'[v] \in Quiet /\ pc'[v] \notin Emptied \cup {"reopenClose", "reopenSet"}
    BY <1>2 DEF Quiet, Emptied
  <2> QED BY <1>1, <2>1, <2>2 DEF DescSound
<1>5. LoopSound'
  BY <1>1, <1>2 DEF LoopSound
<1>6. /\ NamesSound' /\ Contents(LogFile)' = Contents(LogFile)
      /\ \A f \in File : Len(Contents(f)') <= Top + slack'
  BY <1>1, DiskKept, FilesNumbers
<1>7. l = "idle" => Len(Contents(LogFile)) < Top + slack
  <2>1. CASE fd = NoFd
    BY <1>1, <1>2, <2>1 DEF FilesInv, LengthsSound
  <2>2. CASE fd # NoFd
    <3>1. IsOpen(fd) /\ desc[fd] = name[LogFile] /\ name[LogFile] # Absent
      BY <1>1, <1>2, <2>2, QuietFacts DEF Quiet
    <3>2. Contents(LogFile) = data[desc[fd]]
      BY <3>1 DEF Contents
    <3>3. l = "idle" => Len(Contents(LogFile)) < maxFileSize
      BY <3>1, <3>2, FilesNumbers
    <3> HIDE DEF l
    <3> QED BY <3>3, FilesNumbers
  <2> QED BY <2>1, <2>2
<1>8. fd = NoFd => l = "idle"
  BY DEF IsOpen
<1>9. l \in {"close", "idle"}
  OBVIOUS
<1> HIDE DEF l
<1>10. LengthsSound'
  BY <1>1, <1>2, <1>6, <1>7, <1>8, <1>9 DEF LengthsSound
<1> QED BY <1>2, <1>3, <1>4, <1>5, <1>6, <1>10 DEF FilesInv

\* A call of rollOver closes a file that may be short (RollingFileAppender.cpp:61).
LEMMA RollOverFilesInv ==
  ASSUME OneWay, FilesInv, NEW u \in Thread, RollOver(u) PROVE FilesInv'
<1>1. /\ Calls(u) /\ pc[u] = "idle" /\ pc' = [pc EXCEPT ![u] = "close"] /\ slack' = slack + 1
      /\ UNCHANGED <<name, data, desc, fd, maxBackupIndex, maxFileSize, append, i, spare, up,
                     last, missed>>
  BY DEF RollOver, Goto, disk, settings, Calls
<1>2. /\ pc' \in [Thread -> Places] /\ pc'[u] = "close" /\ OneInside'
      /\ \A v \in Thread \ {u} : pc[v] = "idle" /\ pc'[v] = "idle"
  BY <1>1, ThreadMoves, ZenonT(60) DEF Places, Quiet
<1>3. FilesTyped'
  BY <1>1, <1>2, FilesNumbers DEF FilesInv, FilesTyped, TypeOK
<1>4. DescSound'
  <2>1. /\ \A d \in Fd : desc[d] = IF d = fd THEN name[LogFile] ELSE Absent
        /\ fd # NoFd => name[LogFile] # Absent
    BY <1>1, <1>2, QuietFacts DEF Quiet
  <2>2. \A v \in Thread : pc'[v] \in Quiet /\ pc'[v] \notin Emptied \cup {"reopenClose", "reopenSet"}
    BY <1>2 DEF Quiet, Emptied
  <2> QED BY <1>1, <2>1, <2>2 DEF DescSound
<1>5. LoopSound'
  BY <1>1, <1>2 DEF LoopSound
<1>6. NamesSound' /\ \A f \in File : Len(Contents(f)') <= Top + slack'
  BY <1>1, DiskKept, FilesNumbers
<1>7. LengthsSound'
  BY <1>2, <1>6 DEF LengthsSound
<1> QED BY <1>2, <1>3, <1>4, <1>5, <1>6, <1>7 DEF FilesInv

\* close: nothing is open then (RollingFileAppender.cpp:62).
LEMMA CloseFilesInv ==
  ASSUME OneWay, FilesInv, NEW u \in Thread, Close(u) PROVE FilesInv'
<1>1. /\ pc[u] = "close" /\ pc' = [pc EXCEPT ![u] = "remove"] /\ CloseFd
      /\ UNCHANGED <<name, data, fd, maxBackupIndex, maxFileSize, append, i, spare, up,
                     last, missed, slack>>
  <2>1. maxBackupIndex > 0
    BY FilesNumbers
  <2> QED BY <2>1 DEF Close, Goto, disk, settings, ghosts
<1>2. /\ pc' \in [Thread -> Places] /\ pc'[u] = "remove" /\ OneInside'
      /\ \A v \in Thread \ {u} : pc[v] = "idle" /\ pc'[v] = "idle"
  BY <1>1, ThreadMoves, ZenonT(60) DEF Places, Emptied
<1>3. desc' \in [Fd -> Inode \cup {Absent}] /\ \A d \in Fd : desc'[d] = Absent
  <2>1. /\ \A d \in Fd : desc[d] = IF d = fd THEN name[LogFile] ELSE Absent
        /\ IsOpen(fd) <=> fd # NoFd
        /\ NoFd \notin Fd
        /\ desc \in [Fd -> Inode \cup {Absent}]
    BY <1>1, <1>2, QuietFacts DEF Quiet, FilesInv, FilesTyped, TypeOK
  <2>2. desc' = IF fd # NoFd THEN [desc EXCEPT ![fd] = Absent] ELSE desc
    BY <1>1, <2>1 DEF CloseFd
  <2> QED BY <2>1, <2>2
<1>4. FilesTyped'
  BY <1>1, <1>2, <1>3 DEF FilesInv, FilesTyped, TypeOK
<1>5. DescSound'
  BY <1>1, <1>2, <1>3 DEF DescSound, Quiet
<1>6. LoopSound'
  BY <1>1, <1>2 DEF LoopSound
<1>7. NamesSound' /\ \A f \in File : Len(Contents(f)') <= Top + slack'
  BY <1>1, DiskKept, FilesNumbers
<1>8. LengthsSound'
  BY <1>2, <1>7 DEF LengthsSound
<1> QED BY <1>2, <1>4, <1>5, <1>6, <1>7, <1>8 DEF FilesInv

\* remove takes the name of the last backup (RollingFileAppender.cpp:66-69).
LEMMA RemoveFilesInv ==
  ASSUME OneWay, FilesInv, NEW u \in Thread, RemoveOldest(u) PROVE FilesInv'
<1>0. PICK old : old = Backup(maxBackupIndex)
  OBVIOUS
<1>1. /\ pc[u] = "remove" /\ pc' = [pc EXCEPT ![u] = "rename"]
      /\ name' = [name EXCEPT ![old] = Absent] /\ i' = [i EXCEPT ![u] = maxBackupIndex]
      /\ UNCHANGED <<data, desc, fd, maxBackupIndex, maxFileSize, append, spare, up,
                     last, missed, slack>>
  BY <1>0 DEF RemoveOldest, Goto, settings, ghosts
<1>2. /\ pc' \in [Thread -> Places] /\ pc'[u] = "rename" /\ OneInside'
      /\ \A v \in Thread \ {u} : pc[v] = "idle" /\ pc'[v] = "idle"
  BY <1>1, ThreadMoves, ZenonT(60) DEF Places, Emptied
<1>3. maxBackupIndex \in 1..maxBackupIndex /\ maxBackupIndex \in 0..Max(Backups) /\ old \in File \ {LogFile}
  BY <1>0, FilesNumbers, FileNames
<1>4. /\ name' \in [File -> Inode \cup {Absent}] /\ name'[old] = Absent
      /\ \A f \in File \ {old} : name'[f] = name[f]
      /\ \A f, g \in File : name'[f] = name'[g] /\ name'[f] # Absent => f = g
  BY <1>1, <1>3 DEF FilesInv, FilesTyped, TypeOK
<1>5. i' \in [Thread -> 0..Max(Backups)] /\ i'[u] = maxBackupIndex
  BY <1>1, <1>3 DEF FilesInv, FilesTyped, TypeOK
<1>6. FilesTyped'
  BY <1>1, <1>2, <1>4, <1>5 DEF FilesInv, FilesTyped, TypeOK
<1>7. DescSound'
  <2>1. \A d \in Fd : desc[d] = Absent
    BY <1>1 DEF FilesInv, DescSound, Emptied
  <2> QED BY <1>1, <1>2, <2>1 DEF DescSound, Quiet
<1>8. LoopSound'
  BY <1>1, <1>2, <1>3, <1>5 DEF LoopSound
<1>9. NamesSound'
  BY <1>1, <1>4 DEF FilesInv, NamesSound
<1>10. \A f \in File : Len(Contents(f)') <= Top + slack
  <2>1. \A f \in File \ {old} : Contents(f)' = Contents(f)
    BY <1>1, <1>4 DEF Contents
  <2>2. Contents(old)' = <<>>
    BY <1>4 DEF Contents
  <2>3. Len(Contents(old)') = 0
    BY <2>2
  <2> QED BY <2>1, <2>3, FilesNumbers
<1>11. LengthsSound'
  BY <1>1, <1>2, <1>10 DEF LengthsSound
<1> QED BY <1>2, <1>6, <1>7, <1>8, <1>9, <1>11 DEF FilesInv

\* One file is renamed, if it is there (RollingFileAppender.cpp:71-79).
LEMMA RenameFilesInv ==
  ASSUME OneWay, FilesInv, NEW u \in Thread, Rename(u) PROVE FilesInv'
<1> DEFINE k == i[u]
           l == IF k > 1 THEN "rename" ELSE "open"
<1>0. PICK from, to : from = (IF k > 1 THEN Backup(k - 1) ELSE LogFile) /\ to = Backup(k)
  OBVIOUS
<1>1. /\ pc[u] = "rename" /\ pc' = [pc EXCEPT ![u] = l]
      /\ name' = IF name[from] = Absent THEN name
                 ELSE [name EXCEPT ![to] = name[from], ![from] = Absent]
      /\ i' = [i EXCEPT ![u] = k - 1]
      /\ UNCHANGED <<data, desc, fd, maxBackupIndex, maxFileSize, append, spare, up,
                     last, missed, slack>>
  BY <1>0 DEF Rename, Goto, settings, ghosts
<1>2. /\ pc' \in [Thread -> Places] /\ pc'[u] = l /\ OneInside'
      /\ \A v \in Thread \ {u} : pc[v] = "idle" /\ pc'[v] = "idle"
  BY <1>1, ThreadMoves, ZenonT(60) DEF Places, Emptied
<1>3. /\ k \in 1..maxBackupIndex /\ k \in Nat /\ maxBackupIndex \in Nat
      /\ maxBackupIndex \in 0..Max(Backups) /\ Max(Backups) \in Nat
  BY <1>1, FilesNumbers, FileNames, Greatest DEF FilesInv, LoopSound
<1>4. /\ to \in File \ {LogFile} /\ to[1] = 1 /\ to[2] = k
      /\ from \in File /\ from # to /\ (k = 1 => from = LogFile)
  <2>1. to \in File \ {LogFile} /\ to = <<1, k>>
    BY <1>0, <1>3, FilesNumbers, FileNames
  <2>2. CASE k > 1
    <3>1. k - 1 \in 1..maxBackupIndex
      BY <1>3, <2>2
    <3>2. Backup(k - 1) \in File /\ Backup(k - 1) = <<1, k - 1>>
      BY <3>1, FilesNumbers, FileNames
    <3> QED BY <1>0, <1>3, <2>1, <2>2, <3>2
  <2>3. CASE ~(k > 1)
    BY <1>0, <1>3, <2>1, <2>3, FilesNumbers
  <2> QED BY <2>2, <2>3
<1>5. /\ name' \in [File -> Inode \cup {Absent}] /\ name'[from] = Absent
      /\ name'[to] \in {name[to], name[from]}
      /\ \A f \in File \ {from, to} : name'[f] = name[f]
      /\ \A f, g \in File : name'[f] = name'[g] /\ name'[f] # Absent => f = g
  <2>1. /\ name \in [File -> Inode \cup {Absent}]
        /\ \A f, g \in File : name[f] = name[g] /\ name[f] # Absent => f = g
    BY DEF FilesInv, FilesTyped, TypeOK
  <2>2. CASE name[from] = Absent
    BY <1>1, <1>4, <2>1, <2>2
  <2>3. CASE name[from] # Absent
    <3>1. name' = [name EXCEPT ![to] = name[from], ![from] = Absent]
      BY <1>1, <2>3
    <3>2. /\ name' \in [File -> Inode \cup {Absent}] /\ name'[from] = Absent
          /\ name'[to] = name[from]
          /\ \A f \in File \ {from, to} : name'[f] = name[f]
      BY <1>4, <2>1, <3>1
    <3>3. \A f, g \in File : name'[f] = name'[g] /\ name'[f] # Absent => f = g
      BY <1>4, <2>1, <2>3, <3>2
    <3> QED BY <3>2, <3>3
  <2> QED BY <2>2, <2>3
<1>6. i' \in [Thread -> 0..Max(Backups)] /\ i'[u] = k - 1
  <2>1. k - 1 \in 0..Max(Backups)
    BY <1>3
  <2> HIDE DEF k
  <2> QED BY <1>1, <2>1 DEF FilesInv, FilesTyped, TypeOK
<1>7. FilesTyped'
  BY <1>1, <1>2, <1>5, <1>6, ZenonT(60) DEF FilesInv, FilesTyped, TypeOK
<1>8. DescSound'
  <2>1. \A d \in Fd : desc[d] = Absent
    BY <1>1 DEF FilesInv, DescSound, Emptied
  <2>2. pc'[u] \in Emptied /\ pc'[u] \notin Quiet \cup {"reopenClose", "reopenSet"}
    BY <1>2 DEF Emptied, Quiet
  <2>3. \A v \in Thread \ {u} : pc'[v] \notin Emptied \cup {"reopenClose", "reopenSet"}
    BY <1>2 DEF Emptied
  <2> QED BY <1>1, <2>1, <2>2, <2>3 DEF DescSound
<1>9. LoopSound'
  <2>1. l = "rename" => k - 1 \in 1..maxBackupIndex
    BY <1>3
  <2>2. l = "open" => name'[LogFile] = Absent
    BY <1>3, <1>4, <1>5
  <2> HIDE DEF k, l
  <2> QED BY <1>1, <1>2, <1>6, <2>1, <2>2 DEF LoopSound
<1>10. NamesSound'
  <2> SUFFICES ASSUME NEW f \in File \ {LogFile}, name'[f] # Absent
               PROVE  f[1] = 1 /\ f[2] <= maxBackupIndex
    BY <1>1 DEF NamesSound
  <2>1. CASE f = to
    BY <1>3, <1>4, <2>1
  <2>2. CASE f # to
    <3>1. name[f] # Absent
      BY <1>5, <2>2
    <3> QED BY <3>1 DEF FilesInv, NamesSound
  <2> QED BY <2>1, <2>2
<1>11. Contents(from)' = <<>> /\ \A f \in File : Len(Contents(f)') <= Top + slack
  <2>1. \A f \in File \ {from, to} : Contents(f)' = Contents(f)
    BY <1>1, <1>5 DEF Contents
  <2>2. Contents(from)' = <<>>
    BY <1>5 DEF Contents
  <2>3. Contents(to)' \in {Contents(to), Contents(from)}
    BY <1>1, <1>5 DEF Contents
  <2>4. Len(<<>>) = 0
    OBVIOUS
  <2>5. Len(Contents(from)') <= Top + slack
    BY <2>2, <2>4, FilesNumbers
  <2>6. Len(Contents(to)') <= Top + slack
    BY <1>4, <2>3, FilesNumbers
  <2> QED BY <2>1, <2>2, <2>5, <2>6, FilesNumbers
<1>12. l = "open" => Len(Contents(LogFile)') < Top + slack
  <2>1. l = "open" => Contents(LogFile)' = <<>>
    BY <1>3, <1>4, <1>11
  <2>2. Len(<<>>) = 0
    OBVIOUS
  <2> QED BY <2>1, <2>2, FilesNumbers
<1>13. LengthsSound'
  <2>1. l \in {"rename", "open"}
    OBVIOUS
  <2> HIDE DEF l
  <2> QED BY <1>1, <1>2, <1>11, <1>12, <2>1 DEF LengthsSound
<1> QED BY <1>2, <1>7, <1>8, <1>9, <1>10, <1>13 DEF FilesInv

\* The new log file, or no descriptor (RollingFileAppender.cpp:81).
LEMMA OpenFilesInv ==
  ASSUME OneWay, FilesInv, NEW u \in Thread, Open(u) PROVE FilesInv'
<1>1. /\ pc[u] = "open" /\ pc' = [pc EXCEPT ![u] = "idle"]
      /\ UNCHANGED <<maxBackupIndex, maxFileSize, append, i, spare, up, last, missed, slack>>
  BY DEF Open, Goto, settings, ghosts
<1>2. /\ pc' \in [Thread -> Places] /\ OneInside'
      /\ \A v \in Thread : pc'[v] = "idle"
  BY <1>1, ThreadMoves, ZenonT(60) DEF Places, Quiet
<1>3. name[LogFile] = Absent /\ \A d \in Fd : desc[d] = Absent
  BY <1>1 DEF FilesInv, DescSound, LoopSound, Emptied
<1>4. LoopSound'
  BY <1>2 DEF LoopSound
<1>5. Contents(LogFile) = <<>> /\ Len(Contents(LogFile)) = 0
  BY <1>3 DEF Contents
<1>6. CASE OpenFails /\ fd' = NoFd
  <2>1. UNCHANGED <<name, data, desc>>
    BY <1>6 DEF OpenFails, disk
  <2>2. FilesTyped'
    BY <1>1, <1>2, <1>6, <2>1 DEF FilesInv, FilesTyped, TypeOK
  <2>3. DescSound'
    BY <1>2, <1>3, <1>6, <2>1, FilesAssumption DEF DescSound, Emptied
  <2>4. /\ NamesSound' /\ Contents(LogFile)' = Contents(LogFile)
        /\ \A f \in File : Len(Contents(f)') <= Top + slack'
    BY <1>1, <2>1, DiskKept, FilesNumbers
  <2>5. LengthsSound'
    BY <1>1, <1>5, <2>4, FilesNumbers DEF LengthsSound
  <2> QED BY <1>2, <1>4, <2>2, <2>3, <2>4, <2>5 DEF FilesInv
<1>7. ASSUME NEW d \in Fd, Opens(d), fd' = d PROVE FilesInv'
  <2>1. /\ desc' \in [Fd -> Inode \cup {Absent}] /\ desc'[d] = name'[LogFile]
        /\ \A e \in Fd \ {d} : desc'[e] = Absent
        /\ name' \in [File -> Inode \cup {Absent}] /\ name'[LogFile] # Absent
        /\ \A f \in File \ {LogFile} : name'[f] = name[f] /\ Contents(f)' = Contents(f)
        /\ \A f, g \in File : name'[f] = name'[g] /\ name'[f] # Absent => f = g
        /\ data' \in [Inode -> Seq(Nat)]
        /\ Len(Contents(LogFile)') <= Len(Contents(LogFile))
        /\ Len(Contents(LogFile)') \in Nat
    BY <1>3, <1>7, OpensFacts, ZenonT(60)
  <2>2. FilesTyped'
    BY <1>1, <1>2, <1>7, <2>1 DEF FilesInv, FilesTyped, TypeOK
  <2>3. DescSound'
    BY <1>2, <1>7, <2>1 DEF DescSound, Emptied
  <2>4. NamesSound'
    BY <1>1, <2>1 DEF FilesInv, NamesSound
  <2>5. Len(Contents(LogFile)') < Top + slack
    BY <1>5, <2>1, FilesNumbers
  <2>6. \A f \in File : Len(Contents(f)') <= Top + slack
    BY <2>1, <2>5, FilesNumbers, SMTT(150)
  <2>7. LengthsSound'
    BY <1>1, <2>5, <2>6 DEF LengthsSound
  <2> QED BY <1>2, <1>4, <2>2, <2>3, <2>4, <2>7 DEF FilesInv
<1> QED BY <1>6, <1>7 DEF Open

\* reopen has two descriptors of the log file for a while (FileAppender.cpp:86-100).
LEMMA ReopenFilesInv ==
  ASSUME OneWay, FilesInv, NEW u \in Thread, Reopen(u) PROVE FilesInv'
<1>1. /\ Calls(u) /\ pc[u] = "idle"
      /\ UNCHANGED <<fd, maxBackupIndex, maxFileSize, append, i, up, last, missed, slack>>
  BY DEF Reopen, settings, ghosts, Calls
<1>2. \A v \in Thread : pc[v] = "idle"
  BY <1>1, OthersIdle
<1>3. CASE OpenFails /\ UNCHANGED <<spare, pc>>
  <2>1. UNCHANGED <<name, data, desc, spare, pc>>
    BY <1>3 DEF OpenFails, disk
  <2>2. FilesTyped' /\ OneInside' /\ DescSound' /\ LoopSound'
    BY <1>1, <2>1 DEF FilesInv, FilesTyped, TypeOK, OneInside, DescSound, LoopSound
  <2>3. /\ NamesSound' /\ Contents(LogFile)' = Contents(LogFile)
        /\ \A f \in File : Len(Contents(f)') <= Top + slack'
    BY <1>1, <2>1, DiskKept, FilesNumbers
  <2>4. LengthsSound'
    BY <1>1, <2>1, <2>3 DEF FilesInv, LengthsSound
  <2> QED BY <2>2, <2>3, <2>4 DEF FilesInv
<1>4. ASSUME NEW d \in Fd, Opens(d), spare' = [spare EXCEPT ![u] = d], Goto(u, "reopenClose")
      PROVE  FilesInv'
  <2>1. /\ pc' \in [Thread -> Places] /\ pc'[u] = "reopenClose" /\ OneInside'
        /\ \A v \in Thread \ {u} : pc'[v] = "idle"
    BY <1>1, <1>4, ThreadMoves, ZenonT(60) DEF Places, Goto
  <2>2. /\ \A e \in Fd : desc[e] = IF e = fd THEN name[LogFile] ELSE Absent
        /\ fd # NoFd => name[LogFile] # Absent
        /\ fd # NoFd => fd \in Fd
    BY <1>2, QuietFacts DEF Quiet
  <2>3. name[LogFile] = Absent => \A e \in Fd : desc[e] = Absent
    BY <2>2
  <2>4. /\ desc' \in [Fd -> Inode \cup {Absent}] /\ desc'[d] = name'[LogFile] /\ desc[d] = Absent
        /\ \A e \in Fd \ {d} : desc'[e] = desc[e]
        /\ name' \in [File -> Inode \cup {Absent}] /\ name'[LogFile] # Absent
        /\ \A f \in File \ {LogFile} : name'[f] = name[f] /\ Contents(f)' = Contents(f)
        /\ \A f, g \in File : name'[f] = name'[g] /\ name'[f] # Absent => f = g
        /\ data' \in [Inode -> Seq(Nat)]
        /\ Len(Contents(LogFile)') <= Len(Contents(LogFile))
        /\ Len(Contents(LogFile)') \in Nat
    BY <1>4, <2>3, OpensFacts
  <2>5. spare' \in [Thread -> Fd \cup {NoFd}] /\ spare'[u] = d
    BY <1>4 DEF FilesInv, FilesTyped
  <2>6. FilesTyped'
    BY <1>1, <2>1, <2>4, <2>5 DEF FilesInv, FilesTyped, TypeOK
  <2>7. DescSound'
    <3>1. d # fd
      BY <2>2, <2>4, FilesAssumption
    <3>2. \A e \in Fd \ {d} : desc'[e] = Absent \/ e = fd
      BY <2>2, <2>4, ZenonT(60)
    <3> QED BY <1>1, <2>1, <2>4, <2>5, <3>1, <3>2, ZenonT(60) DEF DescSound, Emptied, Quiet
  <2>8. LoopSound' /\ NamesSound'
    BY <1>1, <2>1, <2>4, ZenonT(60) DEF FilesInv, LoopSound, NamesSound
  <2>9. Len(Contents(LogFile)) < Top + slack
    BY <1>2 DEF FilesInv, LengthsSound
  <2>10. Len(Contents(LogFile)') < Top + slack
    BY <2>4, <2>9, FilesNumbers
  <2>11. \A f \in File : Len(Contents(f)') <= Top + slack
    BY <2>4, <2>10, FilesNumbers, SMTT(60)
  <2>12. LengthsSound'
    BY <1>1, <2>10, <2>11 DEF LengthsSound
  <2> QED BY <2>1, <2>6, <2>7, <2>8, <2>12 DEF FilesInv
<1> QED BY <1>3, <1>4 DEF Reopen

\* The old descriptor is closed, and the one left is that of the log file
\* (FileAppender.cpp:93-96).
LEMMA ReopenCloseFilesInv ==
  ASSUME OneWay, FilesInv, NEW u \in Thread, ReopenClose(u) PROVE FilesInv'
<1>1. /\ pc[u] = "reopenClose" /\ pc' = [pc EXCEPT ![u] = "reopenSet"] /\ CloseFd
      /\ UNCHANGED <<name, data, fd, maxBackupIndex, maxFileSize, append, i, spare, up,
                     last, missed, slack>>
  BY DEF ReopenClose, Goto, disk, settings, ghosts
<1>2. /\ pc' \in [Thread -> Places] /\ pc'[u] = "reopenSet" /\ OneInside'
      /\ \A v \in Thread \ {u} : pc[v] = "idle" /\ pc'[v] = "idle"
  BY <1>1, ThreadMoves, ZenonT(60) DEF Places
<1>3. /\ spare[u] \in Fd /\ desc[spare[u]] = name[LogFile] /\ name[LogFile] # Absent
      /\ spare[u] # fd
      /\ \A d \in Fd \ {spare[u]} : desc[d] = Absent \/ d = fd
      /\ desc \in [Fd -> Inode \cup {Absent}]
  BY <1>1 DEF FilesInv, DescSound, FilesTyped, TypeOK
<1>4. /\ desc' \in [Fd -> Inode \cup {Absent}] /\ desc'[spare[u]] = name[LogFile]
      /\ \A d \in Fd \ {spare[u]} : desc'[d] = Absent
  <2>1. CASE IsOpen(fd)
    <3>1. desc' = [desc EXCEPT ![fd] = Absent]
      BY <1>1, <2>1 DEF CloseFd
    <3> QED BY <1>3, <3>1
  <2>2. CASE ~IsOpen(fd)
    <3>1. desc' = desc /\ \A d \in Fd : d = fd => desc[d] = Absent
      BY <1>1, <2>2, FilesAssumption DEF CloseFd, IsOpen
    <3> QED BY <1>3, <3>1
  <2> QED BY <2>1, <2>2
<1>5. FilesTyped'
  BY <1>1, <1>2, <1>4 DEF FilesInv, FilesTyped, TypeOK
<1>6. DescSound'
  BY <1>1, <1>2, <1>3, <1>4 DEF DescSound, Quiet, Emptied
<1>7. LoopSound'
  BY <1>2 DEF LoopSound
<1>8. /\ NamesSound' /\ Contents(LogFile)' = Contents(LogFile)
      /\ \A f \in File : Len(Contents(f)') <= Top + slack'
  BY <1>1, DiskKept, FilesNumbers
<1>9. Len(Contents(LogFile)) < Top + slack
  BY <1>1, <1>2 DEF FilesInv, LengthsSound
<1>10. LengthsSound'
  BY <1>1, <1>8, <1>9 DEF LengthsSound
<1> QED BY <1>2, <1>5, <1>6, <1>7, <1>8, <1>10 DEF FilesInv

\* The new descriptor is the one (FileAppender.cpp:96).
LEMMA ReopenSetFilesInv ==
  ASSUME OneWay, FilesInv, NEW u \in Thread, ReopenSet(u) PROVE FilesInv'
<1>1. /\ pc[u] = "reopenSet" /\ pc' = [pc EXCEPT ![u] = "idle"]
      /\ fd' = spare[u] /\ spare' = [spare EXCEPT ![u] = NoFd]
      /\ UNCHANGED <<name, data, desc, maxBackupIndex, maxFileSize, append, i, up,
                     last, missed, slack>>
  BY DEF ReopenSet, Goto, disk, settings, ghosts
<1>2. /\ pc' \in [Thread -> Places] /\ OneInside' /\ \A v \in Thread : pc'[v] = "idle"
      /\ \A v \in Thread \ {u} : pc[v] = "idle"
  BY <1>1, ThreadMoves, ZenonT(60) DEF Places, Quiet
<1>3. /\ spare[u] \in Fd /\ desc[spare[u]] = name[LogFile] /\ name[LogFile] # Absent
      /\ \A d \in Fd \ {spare[u]} : desc[d] = Absent
  BY <1>1 DEF FilesInv, DescSound
<1>4. FilesTyped'
  BY <1>1, <1>2, <1>3 DEF FilesInv, FilesTyped, TypeOK
<1>5. DescSound'
  BY <1>1, <1>2, <1>3 DEF DescSound, Emptied
<1>6. LoopSound'
  BY <1>2 DEF LoopSound
<1>7. /\ NamesSound' /\ Contents(LogFile)' = Contents(LogFile)
      /\ \A f \in File : Len(Contents(f)') <= Top + slack'
  BY <1>1, DiskKept, FilesNumbers
<1>8. Len(Contents(LogFile)) < Top + slack
  BY <1>1, <1>2 DEF FilesInv, LengthsSound
<1>9. LengthsSound'
  BY <1>1, <1>7, <1>8 DEF LengthsSound
<1> QED BY <1>2, <1>4, <1>5, <1>6, <1>7, <1>9 DEF FilesInv

\* close gives the descriptor up (FileAppender.cpp:50-55).
LEMMA CloseFileFilesInv ==
  ASSUME OneWay, FilesInv, NEW u \in Thread, CloseFile(u) PROVE FilesInv'
<1>1. /\ Calls(u) /\ CloseFd /\ fd' = NoFd
      /\ UNCHANGED <<name, data, maxBackupIndex, maxFileSize, append, pc, i, spare, up,
                     last, missed, slack>>
  BY DEF CloseFile, disk, settings, ghosts
<1>2. \A v \in Thread : pc[v] = "idle"
  BY <1>1, OthersIdle DEF Calls
<1>3. desc' \in [Fd -> Inode \cup {Absent}] /\ \A d \in Fd : desc'[d] = Absent
  <2>1. /\ \A d \in Fd : desc[d] = IF d = fd THEN name[LogFile] ELSE Absent
        /\ IsOpen(fd) <=> fd # NoFd
        /\ NoFd \notin Fd
        /\ desc \in [Fd -> Inode \cup {Absent}]
    BY <1>1, <1>2, QuietFacts DEF Quiet, FilesInv, FilesTyped, TypeOK
  <2>2. desc' = IF fd # NoFd THEN [desc EXCEPT ![fd] = Absent] ELSE desc
    BY <1>1, <2>1 DEF CloseFd
  <2> QED BY <2>1, <2>2
<1>4. FilesTyped'
  BY <1>1, <1>3 DEF FilesInv, FilesTyped, TypeOK
<1>5. OneInside' /\ DescSound' /\ LoopSound'
  <2>1. DescSound'
    BY <1>1, <1>2, <1>3, FilesAssumption DEF DescSound, Emptied
  <2> QED BY <1>1, <1>2, <2>1 DEF OneInside, LoopSound
<1>6. /\ NamesSound' /\ Contents(LogFile)' = Contents(LogFile)
      /\ \A f \in File : Len(Contents(f)') <= Top + slack'
  BY <1>1, DiskKept, FilesNumbers
<1>7. Len(Contents(LogFile)) < Top + slack
  BY <1>2 DEF FilesInv, LengthsSound
<1>8. LengthsSound'
  BY <1>1, <1>6, <1>7 DEF LengthsSound
<1> QED BY <1>4, <1>5, <1>6, <1>8 DEF FilesInv

\* Every step keeps the files in order.
LEMMA NextFilesInv == OneWay /\ FilesInv /\ [Next]_vars => FilesInv'
<1> SUFFICES ASSUME OneWay, FilesInv, [Next]_vars PROVE FilesInv'
  OBVIOUS
<1>1. CASE UNCHANGED vars
  <2>1. UNCHANGED <<name, data, desc, fd, maxBackupIndex, maxFileSize, append, pc, i, spare, up,
                    last, missed, slack>>
    BY <1>1 DEF vars, disk, settings, ghosts
  <2>2. FilesTyped' /\ OneInside' /\ DescSound' /\ LoopSound'
    BY <2>1 DEF FilesInv, FilesTyped, TypeOK, OneInside, DescSound, LoopSound
  <2>3. /\ NamesSound' /\ Contents(LogFile)' = Contents(LogFile)
        /\ \A f \in File : Len(Contents(f)') <= Top + slack'
    BY <2>1, DiskKept, FilesNumbers
  <2>4. LengthsSound'
    BY <2>1, <2>3 DEF FilesInv, LengthsSound
  <2> QED BY <2>2, <2>3, <2>4 DEF FilesInv
<1>2. ASSUME NEW u \in Thread, Step(u) PROVE FilesInv'
  BY <1>2, WriteFilesInv, SeekFilesInv, RollOverFilesInv, CloseFilesInv, RemoveFilesInv,
     RenameFilesInv, OpenFilesInv, ReopenFilesInv, ReopenCloseFilesInv, ReopenSetFilesInv,
     CloseFileFilesInv, SettersFilesInv DEF Step
<1> QED BY <1>1, <1>2, CrashFilesInv, StartFilesInv DEF Next

\* The files in order are within their bounds.
LEMMA FilesBounded == OneWay /\ FilesInv => SizesBounded
<1> SUFFICES ASSUME OneWay, FilesInv PROVE SizesBounded
  OBVIOUS
<1>1. TypeOK /\ \A f \in File : Len(Contents(f)) <= Max(Sizes) + slack
  BY DEF FilesInv, FilesTyped, LengthsSound, Top
<1>2. \A f \in File \ {LogFile} : name[f] # Absent => f \in {Backup(k) : k \in 1..maxBackupIndex}
  BY FilesNumbers, FileNames DEF FilesInv, NamesSound
<1>3. ASSUME NEW u \in Thread, \A v \in Thread : pc[v] = "idle"
      PROVE  {d \in Fd : desc[d] # Absent} = {fd} \ {NoFd}
  <2>1. /\ \A d \in Fd : desc[d] = IF d = fd THEN name[LogFile] ELSE Absent
        /\ fd # NoFd => name[LogFile] # Absent
        /\ NoFd \notin Fd
        /\ fd # NoFd => fd \in Fd
    BY <1>3, QuietFacts DEF Quiet
  <2> QED BY <2>1
<1> QED BY <1>1, <1>2, <1>3 DEF SizesBounded

\* Whatever fails and whenever the process is killed, a log file outgrows its limit by
\* one record for each crash at most, no backup is left behind outside the rotation,
\* and no descriptor is lost (RollingFileAppender.cpp:61-94, FileAppender.cpp:86-100).
THEOREM FilesAreBounded ==
  ASSUME OneWay PROVE Spec => []SizesBounded
<1>1. FilesInv /\ [Next]_vars => FilesInv'
  BY NextFilesInv
<1>2. FilesInv => SizesBounded
  BY FilesBounded
<1>3. Init => FilesInv
  BY InitFilesInv
<1> QED BY <1>1, <1>2, <1>3, PTL DEF Spec

\* The same of the two appenders together, as the run has them.
THEOREM LogFilesAreBounded ==
  ASSUME OneWay PROVE MCSpec => []SizesBounded
<1>1. MCInit => Init
  BY DEF MCInit
<1>2. [MCNext]_<<part, vars, dailyVars>> => [Next]_vars
  BY DEF MCNext
<1> QED BY <1>1, <1>2, FilesAreBounded, PTL DEF MCSpec, Spec

-----------------------------------------------------------------------------
(* The daily appender.                                                     *)

\* The clock is not stopped for a day within one call, and the age of a file in
\* seconds fits into an unsigned integer; see the README for what happens without.
Steady == MaxPause <= DayLength /\ MaxDays * DayLength < Modulus

Today(c) == Daily!Today(c)
DayFile == [exists : BOOLEAN, records : Seq(Nat), mtime : Nat]

\* A file knows when it was last written, and what is in it was logged before that.
FileSound(f, now, times) ==
    /\ f \in DayFile /\ f.mtime <= now
    /\ ~f.exists => f.records = <<>>
    /\ \A n \in DOMAIN f.records :
          f.records[n] \in DOMAIN times /\ times[f.records[n]] <= f.mtime

\* The days of the records of a file.
DaysIn(f, times) == {Today(times[f.records[n]]) : n \in DOMAIN f.records}

DailyTyped ==
    /\ clock \in 0..MaxClock /\ t \in 0..clock
    /\ hasFd \in BOOLEAN /\ called \in BOOLEAN /\ dailyUp \in BOOLEAN
    /\ dailyPc \in {"idle", "rename", "open", "delete", "write"}
    /\ when \in Seq(Nat) /\ Len(when) = dailyLast /\ crashes \in Nat
    /\ FileSound(log, clock, when) /\ DOMAIN dated = Daily!Day
    /\ \A d \in Daily!Day : FileSound(dated[d], clock, when)
    /\ logsDay \in Nat /\ logsDay <= Today(clock)

\* Where the call in hand is.
CallSound ==
    /\ ~dailyUp => dailyPc = "idle"
    /\ dailyPc # "idle" => clock - t <= MaxPause
    /\ called => /\ dailyPc \in {"rename", "open", "delete"}
                 /\ log.records = <<>> /\ dated[logsDay].records = <<>>
    /\ dailyPc \in {"rename", "open", "delete"} /\ ~called => logsDay < Today(t)
    /\ dailyPc \in {"open", "delete"} => log.records = <<>>
    /\ dailyPc = "write" => logsDay = Today(t)

\* The records of the log are of the day that was noted, which is that of its last
\* write or the one before; each crash may have moved it on.
LogSound ==
    /\ dailyUp => /\ DaysIn(log, when) \subseteq (logsDay - crashes)..logsDay
                  /\ log.records # <<>> => Today(log.mtime) \in {logsDay, logsDay + 1}
    /\ ~dailyUp => DaysIn(log, when) \subseteq (Today(log.mtime) - crashes)..Today(log.mtime)

\* A dated file is of its day, and that day is over for the log.
DatedSound ==
    \A d \in Daily!Day :
        /\ DaysIn(dated[d], when) \subseteq (d - crashes)..d
        /\ dated[d].records # <<>> =>
              /\ d < Today(clock) /\ (log.exists => d < Today(log.mtime))
              /\ dailyUp => d <= logsDay
              /\ dailyUp /\ dailyPc \in {"idle", "rename", "write"} => d < logsDay

DailyInv == DailyTyped /\ CallSound /\ LogSound /\ DatedSound

\* A quotient is what fits in.
LEMMA DivideFacts ==
  ASSUME NEW d \in Nat \ {0}, NEW a \in Nat
  PROVE  /\ a \div d \in Nat
         /\ d * (a \div d) =< a /\ a < d * (a \div d) + d
BY SMTT(60)

\* A remainder of a smaller number is that number.
LEMMA RemainderFacts ==
  ASSUME NEW d \in Nat \ {0}, NEW a \in Nat, a < d
  PROVE  a % d = a
BY SMTT(60)

\* Days do not go back, and within the length of one at most one passes.
LEMMA DayFacts ==
  ASSUME NEW a \in Nat, NEW b \in Nat, a =< b
  PROVE  /\ Today(a) \in Nat /\ Today(b) \in Nat /\ Today(a) =< Today(b)
         /\ b - a =< DayLength => Today(b) =< Today(a) + 1
<1> DEFINE d == DayLength
           p == a \div d
           q == b \div d
<1>1. d \in Nat \ {0}
  BY DaysAssumption
<1>2. p \in Nat /\ d * p =< a /\ a < d * p + d
  BY <1>1, DivideFacts
<1>3. q \in Nat /\ d * q =< b /\ b < d * q + d
  BY <1>1, DivideFacts
<1>4. Today(a) = p /\ Today(b) = q
  BY DEF Today, Daily!Today
<1> HIDE DEF d, p, q
<1>5. ASSUME NEW x \in Nat, NEW y \in Nat, y >= x + 1 PROVE d * y >= d * x + d
  <2>1. PICK z \in Nat : y = x + 1 + z
    <3>1. y - x - 1 \in Nat /\ y = x + 1 + (y - x - 1)
      BY <1>5
    <3> QED BY <3>1
  <2>2. d * (x + 1 + z) = d * x + d + d * z /\ d * z \in Nat /\ d * x \in Nat
    BY <1>1
  <2> QED BY <1>1, <2>1, <2>2
<1>6. d * p \in Nat /\ d * q \in Nat
  BY <1>1, <1>2, <1>3
<1>7. p =< q
  <2> SUFFICES ASSUME p >= q + 1 PROVE FALSE
    BY <1>2, <1>3
  <2>1. d * p >= d * q + d
    BY <1>2, <1>3, <1>5
  <2> QED BY <1>1, <1>2, <1>3, <1>6, <2>1
<1>8. ASSUME b - a =< d PROVE q =< p + 1
  <2> SUFFICES ASSUME q >= p + 1 + 1 PROVE FALSE
    BY <1>2, <1>3
  <2>1. d * (p + 1) >= d * p + d /\ d * q >= d * (p + 1) + d /\ d * (p + 1) \in Nat
    BY <1>1, <1>2, <1>3, <1>5
  <2> QED BY <1>1, <1>2, <1>3, <1>6, <1>8, <2>1
<1> QED BY <1>2, <1>3, <1>4, <1>7, <1>8 DEF d

\* A file is as sound later as it was.
LEMMA FileFacts ==
  ASSUME NEW f, NEW c \in Nat, NEW w \in Seq(Nat), FileSound(f, c, w),
         NEW e \in Nat, c =< e, NEW x \in Nat
  PROVE  /\ f.records \in Seq(Nat) /\ f.mtime \in Nat /\ f.exists \in BOOLEAN
         /\ DOMAIN f.records = 1..Len(f.records) /\ Len(f.records) \in Nat
         /\ FileSound(f, e, w) /\ FileSound(f, e, Append(w, x))
         /\ DaysIn(f, Append(w, x)) = DaysIn(f, w)
<1>1. /\ f.records \in Seq(Nat) /\ f.mtime \in Nat /\ f.exists \in BOOLEAN
      /\ f \in DayFile /\ f.mtime =< e
  BY DEF FileSound, DayFile
<1>2. DOMAIN f.records = 1..Len(f.records) /\ Len(f.records) \in Nat
  BY <1>1, LenProperties
<1>3. /\ DOMAIN w = 1..Len(w) /\ Len(w) \in Nat
      /\ Append(w, x) \in Seq(Nat) /\ Len(Append(w, x)) = Len(w) + 1
      /\ \A n \in 1..Len(w) : Append(w, x)[n] = w[n]
      /\ DOMAIN Append(w, x) = 1..(Len(w) + 1)
  BY AppendProperties, LenProperties
<1>4. \A n \in DOMAIN f.records : /\ f.records[n] \in DOMAIN w
                                  /\ f.records[n] \in DOMAIN Append(w, x)
                                  /\ Append(w, x)[f.records[n]] = w[f.records[n]]
  BY <1>3 DEF FileSound
<1>5. FileSound(f, e, w) /\ FileSound(f, e, Append(w, x))
  BY <1>1, <1>4 DEF FileSound
<1>6. DaysIn(f, Append(w, x)) = DaysIn(f, w)
  BY <1>4 DEF DaysIn
<1> QED BY <1>1, <1>2, <1>5, <1>6

\* A file without records, and a new one.
LEMMA EmptyFile ==
  /\ Daily!NoFile \in DayFile /\ Daily!NoFile.records = <<>> /\ Daily!NoFile.exists = FALSE
  /\ \A c, e \in Nat : c =< e => \A w :
        /\ FileSound(Daily!NoFile, c, w) /\ FileSound(Daily!NewFile(c), e, w)
        /\ Daily!NewFile(c).records = <<>> /\ Daily!NewFile(c).mtime = c
  /\ \A f, w : f.records = <<>> => DaysIn(f, w) = {}
<1>1. <<>> \in Seq(Nat) /\ DOMAIN <<>> = {}
  BY EmptySeq
<1>2. \A c \in Nat : /\ Daily!NewFile(c) \in DayFile /\ Daily!NewFile(c).records = <<>>
                     /\ Daily!NewFile(c).mtime = c
  BY <1>1 DEF Daily!NewFile, DayFile
<1>3. /\ Daily!NoFile \in DayFile /\ Daily!NoFile.records = <<>> /\ Daily!NoFile.exists = FALSE
      /\ Daily!NoFile.mtime = 0
  BY <1>1 DEF Daily!NoFile, DayFile
<1> QED BY <1>1, <1>2, <1>3 DEF FileSound, DaysIn

\* What the invariant says of days and numbers, whatever the step.
LEMMA ClockFacts ==
  ASSUME DailyTyped
  PROVE  /\ clock \in Nat /\ t \in Nat /\ t =< clock /\ when \in Seq(Nat)
         /\ Today(clock) \in Daily!Day /\ Today(clock) \in Nat
         /\ Today(t) \in Nat /\ Today(t) =< Today(clock)
         /\ logsDay \in Daily!Day
         /\ log.mtime \in Nat /\ log.mtime =< clock /\ Today(log.mtime) \in Nat
         /\ Today(log.mtime) =< Today(clock) /\ Today(log.mtime) \in Daily!Day
<1>1. clock \in Nat /\ t \in Nat /\ t =< clock /\ clock =< MaxClock /\ MaxClock \in Nat
  BY DaysAssumption DEF DailyTyped
<1>2. /\ Today(clock) =< Today(MaxClock) /\ Today(clock) \in Nat /\ Today(MaxClock) \in Nat
      /\ Today(t) =< Today(clock) /\ Today(t) \in Nat
  BY <1>1, DayFacts
<1>3. Daily!Day = 0..Today(MaxClock)
  BY DEF Daily!Day, Today, Daily!Today
<1>4. log.mtime \in Nat /\ log.mtime =< clock
  BY DEF DailyTyped, FileSound, DayFile
<1>5. Today(log.mtime) \in Nat /\ Today(log.mtime) =< Today(clock)
  BY <1>1, <1>4, DayFacts
<1> QED BY <1>1, <1>2, <1>3, <1>4, <1>5 DEF DailyTyped

\* The clock runs on.
LEMMA TickKeeps == ASSUME DailyInv, Daily!Tick PROVE DailyInv'
<1>1. /\ clock' = clock + 1 /\ clock' \in 0..MaxClock
      /\ dailyPc # "idle" => clock' - t <= MaxPause
      /\ UNCHANGED <<log, dated, hasFd, logsDay, dailyPc, t, called, dailyUp, when, dailyLast,
                     crashes>>
  BY DEF Daily!Tick, Daily!files, Daily!locals, Daily!ghosts
<1>2. /\ clock \in Nat /\ clock' \in Nat /\ clock =< clock' /\ t \in 0..clock'
      /\ Today(clock) \in Nat /\ logsDay \in Nat /\ Today(clock) =< Today(clock')
      /\ Today(clock') \in Nat /\ when \in Seq(Nat)
  <2>1. /\ clock \in Nat /\ t \in Nat /\ t =< clock /\ Today(clock) \in Nat /\ logsDay \in Nat
        /\ when \in Seq(Nat)
    BY ClockFacts DEF DailyInv, DailyTyped
  <2>2. clock' \in Nat /\ clock =< clock' /\ t \in 0..clock'
    BY <1>1, <2>1
  <2>3. Today(clock) =< Today(clock') /\ Today(clock') \in Nat
    BY <2>1, <2>2, DayFacts
  <2> QED BY <2>1, <2>2, <2>3
<1>3. FileSound(log, clock', when) /\ \A d \in Daily!Day : FileSound(dated[d], clock', when)
  BY <1>2, FileFacts DEF DailyInv, DailyTyped
<1>4. DailyTyped'
  BY <1>1, <1>2, <1>3 DEF DailyInv, DailyTyped
<1>5. CallSound' /\ LogSound'
  BY <1>1 DEF DailyInv, CallSound, LogSound
<1>6. DatedSound'
  <2>1. \A d \in Daily!Day : d \in Int
    BY DEF Daily!Day
  <2> QED BY <1>1, <1>2, <2>1 DEF DailyInv, DatedSound
<1> QED BY <1>4, <1>5, <1>6 DEF DailyInv

\* The process is killed.
LEMMA CrashKeeps == ASSUME DailyInv, Daily!Crash PROVE DailyInv'
<1>1. /\ dailyUp /\ crashes' = crashes + 1 /\ dailyUp' = FALSE /\ hasFd' = FALSE
      /\ dailyPc' = "idle" /\ t' = 0 /\ called' = FALSE
      /\ UNCHANGED <<clock, log, dated, logsDay, when, dailyLast>>
  BY DEF Daily!Crash, Daily!files
<1>2. /\ clock \in Nat /\ crashes \in Nat /\ logsDay \in Nat /\ Today(log.mtime) \in Nat
  BY ClockFacts DEF DailyInv, DailyTyped
<1>3. DailyTyped'
  <2>1. t' \in 0..clock' /\ crashes' \in Nat /\ dailyPc' = "idle" /\ FALSE \in BOOLEAN
    BY <1>1, <1>2
  <2>2. hasFd' \in BOOLEAN /\ called' \in BOOLEAN /\ dailyUp' \in BOOLEAN
    BY <1>1
  <2> QED BY <1>1, <2>1, <2>2, ZenonT(60) DEF DailyInv, DailyTyped
<1>4. CallSound'
  BY <1>1 DEF CallSound
<1>5. LogSound'
  <2>1. CASE log.records = <<>>
    <3>1. DaysIn(log, when) = {}
      BY <2>1, EmptyFile
    <3> QED BY <1>1, <3>1 DEF LogSound
  <2>2. CASE log.records # <<>>
    <3>1. /\ Today(log.mtime) \in {logsDay, logsDay + 1}
          /\ DaysIn(log, when) \subseteq (logsDay - crashes)..logsDay
      BY <1>1, <2>2 DEF DailyInv, LogSound
    <3>2. (logsDay - crashes)..logsDay \subseteq
             (Today(log.mtime) - (crashes + 1))..Today(log.mtime)
      BY <1>2, <3>1
    <3>3. DaysIn(log, when) \subseteq (Today(log.mtime) - (crashes + 1))..Today(log.mtime)
      BY <3>1, <3>2
    <3> QED BY <1>1, <3>3 DEF LogSound
  <2> QED BY <2>1, <2>2
<1>6. DatedSound'
  <2> SUFFICES ASSUME NEW d \in Daily!Day
               PROVE  /\ DaysIn(dated[d], when) \subseteq (d - (crashes + 1))..d
                      /\ dated[d].records # <<>> =>
                            d < Today(clock) /\ (log.exists => d < Today(log.mtime))
    BY <1>1 DEF DatedSound
  <2>1. d \in Int
    BY DEF Daily!Day
  <2>2. (d - crashes)..d \subseteq (d - (crashes + 1))..d
    BY <1>2, <2>1
  <2>3. DaysIn(dated[d], when) \subseteq (d - crashes)..d
    BY DEF DailyInv, DatedSound
  <2> QED BY <2>2, <2>3 DEF DailyInv, DatedSound
<1> QED BY <1>3, <1>4, <1>5, <1>6 DEF DailyInv

\* A file is opened if it is there, and otherwise made.
LEMMA OpenedSound ==
  ASSUME DailyInv, log' = IF log.exists THEN log ELSE Daily!NewFile(clock)
  PROVE  /\ FileSound(log', clock, when) /\ log'.records = log.records
         /\ log'.mtime = IF log.exists THEN log.mtime ELSE clock
         /\ log'.mtime \in Nat /\ DaysIn(log', when) = DaysIn(log, when)
<1>1. clock \in Nat /\ FileSound(log, clock, when) /\ log.mtime \in Nat
  BY ClockFacts DEF DailyInv, DailyTyped
<1>2. CASE log.exists
  BY <1>1, <1>2
<1>3. CASE ~log.exists
  <2>1. /\ FileSound(log', clock, when) /\ log'.records = <<>> /\ log'.mtime = clock
    BY <1>1, <1>3, EmptyFile
  <2>2. log.records = <<>>
    BY <1>1, <1>3 DEF FileSound
  <2>3. DaysIn(log', when) = {} /\ DaysIn(log, when) = {}
    BY <2>1, <2>2, EmptyFile
  <2> QED BY <1>1, <1>3, <2>1, <2>2, <2>3
<1> QED BY <1>2, <1>3

\* A process starts, and takes the day of the file it finds.
LEMMA StartKeeps == ASSUME DailyInv, Daily!Start PROVE DailyInv'
<1>1. /\ ~dailyUp /\ dailyUp' = TRUE /\ hasFd' \in BOOLEAN
      /\ log' = log \/ log' = IF log.exists THEN log ELSE Daily!NewFile(clock)
      /\ logsDay' = Today(IF log'.exists THEN log'.mtime ELSE clock)
      /\ UNCHANGED <<clock, dated, dailyPc, t, called, when, dailyLast, crashes>>
  BY DEF Daily!Start, Daily!locals, Daily!ghosts, Today
<1>2. /\ clock \in Nat /\ Today(clock) \in Nat /\ log.mtime \in Nat /\ log.mtime =< clock
      /\ FileSound(log, clock, when) /\ Today(log.mtime) =< Today(clock)
      /\ Today(log.mtime) \in Nat
  BY ClockFacts DEF DailyInv, DailyTyped
<1>3. /\ FileSound(log', clock, when) /\ log'.records = log.records
      /\ log'.mtime = log.mtime \/ (~log.exists /\ log'.mtime = clock)
      /\ DaysIn(log', when) = DaysIn(log, when)
  BY <1>1, <1>2, OpenedSound
<1>4. logsDay' = Today(log'.mtime) \/ (logsDay' = Today(clock) /\ ~log'.exists)
  BY <1>1
<1>5. logsDay' \in Nat /\ logsDay' =< Today(clock)
  BY <1>2, <1>3, <1>4
<1>6. log'.exists => log.exists \/ log'.mtime = clock
  <2>1. CASE log' = log
    BY <2>1
  <2>2. CASE log' = IF log.exists THEN log ELSE Daily!NewFile(clock)
    BY <1>2, <2>2, EmptyFile
  <2> QED BY <1>1, <2>1, <2>2
<1>7. ~log'.exists => log'.records = <<>>
  BY <1>3 DEF FileSound
<1>8. DailyTyped'
  BY <1>1, <1>3, <1>5 DEF DailyInv, DailyTyped
<1>9. CallSound'
  BY <1>1 DEF DailyInv, CallSound
<1>10. LogSound'
  <2>1. CASE log.records = <<>>
    <3>1. DaysIn(log', when) = {}
      BY <1>3, <2>1, EmptyFile
    <3> QED BY <1>1, <1>3, <2>1, <3>1 DEF LogSound
  <2>2. CASE log.records # <<>>
    <3>1. log'.exists /\ log.exists /\ logsDay' = Today(log'.mtime) /\ log'.mtime = log.mtime
      BY <1>1, <1>2, <1>3, <1>7, <2>2 DEF FileSound
    <3>2. DaysIn(log', when) \subseteq (Today(log.mtime) - crashes)..Today(log.mtime)
      BY <1>1, <1>3 DEF DailyInv, LogSound
    <3> QED BY <1>1, <3>1, <3>2 DEF LogSound
  <2> QED BY <2>1, <2>2
<1>11. DatedSound'
  <2> SUFFICES ASSUME NEW d \in Daily!Day, dated[d].records # <<>>
               PROVE  d < Today(clock) /\ (log'.exists => d < Today(log'.mtime)) /\ d < logsDay'
    <3>1. \A d \in Daily!Day : d \in Int
      BY DEF Daily!Day
    <3> QED BY <1>1, <1>5, <3>1 DEF DailyInv, DatedSound
  <2>1. d < Today(clock) /\ (log.exists => d < Today(log.mtime))
    BY DEF DailyInv, DatedSound
  <2>2. log'.exists => d < Today(log'.mtime)
    BY <1>3, <1>6, <2>1
  <2> QED BY <1>1, <2>1, <2>2
<1> QED BY <1>8, <1>9, <1>10, <1>11 DEF DailyInv

\* A call begins: of append, or of rollOver when there is nothing to lose.
LEMMA BeginKeeps == ASSUME DailyInv, Daily!Begin \/ Daily!RollOver PROVE DailyInv'
<1>1. /\ dailyUp /\ dailyPc = "idle" /\ t' = clock
      /\ UNCHANGED <<clock, log, dated, hasFd, logsDay, dailyUp, when, dailyLast, crashes>>
  BY DEF Daily!Begin, Daily!RollOver, Daily!files, Daily!ghosts
<1>2. \/ called' = called /\ dailyPc' = IF Today(clock) # logsDay THEN "rename" ELSE "write"
      \/ /\ called' = TRUE /\ dailyPc' = "rename"
         /\ log.records = <<>> /\ dated[logsDay].records = <<>>
  BY DEF Daily!Begin, Daily!RollOver, Today
<1>3. /\ clock \in Nat /\ Today(clock) \in Nat /\ logsDay \in Nat /\ logsDay =< Today(clock)
      /\ MaxPause \in Nat
  BY ClockFacts, DaysAssumption DEF DailyInv, DailyTyped
<1>4. DailyTyped'
  <2>1. t' \in 0..clock'
    BY <1>1, <1>3
  <2>2. called' \in BOOLEAN /\ dailyPc' \in {"idle", "rename", "open", "delete", "write"}
    BY <1>2 DEF DailyInv, DailyTyped
  <2> QED BY <1>1, <2>1, <2>2, ZenonT(60) DEF DailyInv, DailyTyped
<1>5. CallSound'
  BY <1>1, <1>2, <1>3 DEF DailyInv, CallSound
<1>6. LogSound' /\ DatedSound'
  BY <1>1, <1>2 DEF DailyInv, LogSound, DatedSound
<1> QED BY <1>4, <1>5, <1>6 DEF DailyInv

\* The log file is renamed to the day that was noted, where there was nothing yet.
LEMMA RenameKeeps ==
  ASSUME DailyInv, Daily!Rename
  PROVE  /\ DailyInv' /\ crashes' = crashes
         /\ \A d \in Daily!Day : dated[d].records # <<>> => dated'[d].records # <<>>
<1>1. /\ dailyPc = "rename" /\ dailyPc' = "open"
      /\ UNCHANGED <<clock, hasFd, logsDay, t, called, dailyUp, when, dailyLast, crashes>>
  BY DEF Daily!Rename, Daily!ghosts
<1>2. /\ dailyUp /\ clock \in Nat /\ logsDay \in Daily!Day /\ logsDay \in Nat
      /\ Today(t) \in Nat /\ Today(clock) \in Nat /\ Today(t) =< Today(clock)
      /\ FileSound(log, clock, when) /\ (\A d \in Daily!Day : d \in Int)
      /\ DOMAIN dated = Daily!Day
  BY <1>1, ClockFacts DEF DailyInv, DailyTyped, CallSound, Daily!Day
<1>3. /\ called => log.records = <<>> /\ dated[logsDay].records = <<>>
      /\ ~called => logsDay < Today(t)
      /\ DaysIn(log, when) \subseteq (logsDay - crashes)..logsDay
      /\ \A d \in Daily!Day :
            /\ DaysIn(dated[d], when) \subseteq (d - crashes)..d
            /\ dated[d].records # <<>> => d < Today(clock) /\ d < logsDay
  BY <1>1, <1>2 DEF DailyInv, CallSound, LogSound, DatedSound
<1>4. CASE ~log.exists
  <2>1. log.records = <<>> /\ UNCHANGED <<log, dated>>
    BY <1>2, <1>4 DEF FileSound, Daily!Rename, Daily!files
  <2>2. DailyTyped'
    BY <1>1, <2>1 DEF DailyInv, DailyTyped
  <2>3. CallSound'
    BY <1>1, <1>2, <2>1 DEF DailyInv, CallSound
  <2>4. LogSound' /\ DatedSound'
    BY <1>1, <2>1 DEF DailyInv, LogSound, DatedSound
  <2> QED BY <1>1, <2>1, <2>2, <2>3, <2>4 DEF DailyInv
<1>5. CASE log.exists
  <2>1. dated' = [dated EXCEPT ![logsDay] = log] /\ log' = Daily!NoFile
    BY <1>5 DEF Daily!Rename
  <2>2. /\ log'.records = <<>> /\ log'.exists = FALSE /\ FileSound(log', clock, when)
        /\ DaysIn(log', when) = {}
    BY <1>2, <2>1, EmptyFile
  <2>3. /\ DOMAIN dated' = Daily!Day /\ dated'[logsDay] = log
        /\ \A d \in Daily!Day : d # logsDay => dated'[d] = dated[d]
    BY <1>2, <2>1
  <2>4. \A d \in Daily!Day : FileSound(dated'[d], clock, when)
    BY <1>2, <2>3 DEF DailyInv, DailyTyped
  <2>5. DailyTyped'
    <3>1. dailyPc' \in {"idle", "rename", "open", "delete", "write"}
      BY <1>1
    <3> QED BY <1>1, <2>2, <2>3, <2>4, <3>1 DEF DailyInv, DailyTyped
  <2>6. CallSound'
    BY <1>1, <1>2, <1>3, <2>2, <2>3 DEF DailyInv, CallSound
  <2>7. LogSound'
    BY <1>1, <1>2, <2>2 DEF LogSound
  <2>8. ASSUME NEW d \in Daily!Day
        PROVE  /\ DaysIn(dated'[d], when) \subseteq (d - crashes)..d
               /\ dated'[d].records # <<>> => d < Today(clock) /\ d =< logsDay
    <3>1. CASE d = logsDay
      BY <1>2, <1>3, <2>3, <3>1
    <3>2. CASE d # logsDay
      BY <1>2, <1>3, <2>3, <3>2
    <3> QED BY <3>1, <3>2
  <2>9. DatedSound'
    BY <1>1, <2>2, <2>8 DEF DatedSound
  <2>10. \A d \in Daily!Day : dated[d].records # <<>> => dated'[d].records # <<>>
    BY <1>2, <1>3, <2>3
  <2> QED BY <1>1, <2>5, <2>6, <2>7, <2>9, <2>10 DEF DailyInv
<1> QED BY <1>4, <1>5

\* The log file is opened anew.
LEMMA OpenKeeps == ASSUME DailyInv, Daily!Open PROVE DailyInv' /\ UNCHANGED <<dated, crashes>>
<1>1. /\ dailyPc = "open" /\ dailyPc' = "delete" /\ hasFd' \in BOOLEAN
      /\ log' = log \/ log' = IF log.exists THEN log ELSE Daily!NewFile(clock)
      /\ UNCHANGED <<clock, dated, logsDay, t, called, dailyUp, when, dailyLast, crashes>>
  BY DEF Daily!Open, Daily!ghosts
<1>2. /\ dailyUp /\ clock \in Nat /\ log.records = <<>> /\ FileSound(log, clock, when)
  BY <1>1, ClockFacts DEF DailyInv, DailyTyped, CallSound
<1>3. /\ FileSound(log', clock, when) /\ log'.records = <<>> /\ DaysIn(log', when) = {}
  BY <1>1, <1>2, OpenedSound, EmptyFile
<1>4. log'.exists => log' = log \/ log'.mtime = clock
  BY <1>1, <1>2, EmptyFile
<1>5. DailyTyped'
  <2>1. dailyPc' \in {"idle", "rename", "open", "delete", "write"}
    BY <1>1
  <2> QED BY <1>1, <1>3, <2>1 DEF DailyInv, DailyTyped
<1>6. CallSound'
  BY <1>1, <1>2, <1>3 DEF DailyInv, CallSound
<1>7. LogSound'
  BY <1>1, <1>2, <1>3 DEF LogSound
<1>8. DatedSound'
  <2> SUFFICES ASSUME NEW d \in Daily!Day, dated[d].records # <<>>
               PROVE  d < Today(clock) /\ (log'.exists => d < Today(log'.mtime)) /\ d <= logsDay
    BY <1>1 DEF DailyInv, DatedSound
  <2>1. d < Today(clock) /\ (log.exists => d < Today(log.mtime)) /\ d <= logsDay
    BY <1>2 DEF DailyInv, DatedSound
  <2> QED BY <1>4, <2>1
<1> QED BY <1>1, <1>5, <1>6, <1>7, <1>8 DEF DailyInv

\* What is deleted is too old, and what was logged in it is older still.
LEMMA DeleteKeeps ==
  ASSUME Steady, DailyInv, Daily!Delete
  PROVE  /\ DailyInv' /\ crashes' = crashes
         /\ \A d \in Daily!Day : dated'[d].records = <<>> =>
               \A n \in DOMAIN dated[d].records :
                  when[dated[d].records[n]] < clock - MaxDays * DayLength
<1>1. /\ dailyPc = "delete" /\ called' = FALSE
      /\ UNCHANGED <<clock, hasFd, dailyUp, when, dailyLast, crashes>>
      /\ dailyPc' = IF called THEN "idle" ELSE "write"
      /\ logsDay' = IF called THEN logsDay ELSE Today(t)
      /\ t' = IF called THEN 0 ELSE t
      /\ dated' = [d \in Daily!Day |->
                     IF dated[d].mtime < Daily!Oldest THEN Daily!NoFile ELSE dated[d]]
      /\ log' = IF log.mtime < Daily!Oldest THEN Daily!NoFile ELSE log
  BY DEF Daily!Delete, Daily!ghosts, Today
<1>2. /\ dailyUp /\ clock \in Nat /\ logsDay \in Daily!Day /\ logsDay \in Nat
      /\ Today(t) \in Nat /\ Today(clock) \in Nat /\ Today(t) =< Today(clock) /\ t \in 0..clock
      /\ FileSound(log, clock, when) /\ (\A d \in Daily!Day : d \in Int)
      /\ log.records = <<>> /\ called \in BOOLEAN /\ logsDay =< Today(clock)
      /\ \A d \in Daily!Day : FileSound(dated[d], clock, when)
  BY <1>1, ClockFacts DEF DailyInv, DailyTyped, CallSound, Daily!Day
<1>3. /\ called => dated[logsDay].records = <<>>
      /\ ~called => logsDay < Today(t)
      /\ clock - t <= MaxPause
      /\ \A d \in Daily!Day :
            /\ DaysIn(dated[d], when) \subseteq (d - crashes)..d
            /\ dated[d].records # <<>> =>
                  d < Today(clock) /\ d <= logsDay /\ (log.exists => d < Today(log.mtime))
  BY <1>1, <1>2 DEF DailyInv, CallSound, DatedSound
<1>4. \A d \in Daily!Day :
         /\ dated'[d] = dated[d] \/ (dated'[d] = Daily!NoFile /\ dated[d].mtime < Daily!Oldest)
         /\ FileSound(dated'[d], clock, when)
  BY <1>1, <1>2, EmptyFile
<1>5. /\ log'.records = <<>> /\ DaysIn(log', when) = {} /\ FileSound(log', clock, when)
      /\ log'.exists => log' = log
  BY <1>1, <1>2, EmptyFile
<1>6. logsDay' \in Nat /\ logsDay' =< Today(clock) /\ logsDay =< logsDay'
  BY <1>1, <1>2, <1>3
<1>7. DailyTyped'
  <2>1. t' \in 0..clock
    BY <1>1, <1>2
  <2>2. dailyPc' \in {"idle", "rename", "open", "delete", "write"} /\ called' \in BOOLEAN
    BY <1>1
  <2>3. DOMAIN dated' = Daily!Day
    BY <1>1
  <2> QED BY <1>1, <1>4, <1>5, <1>6, <2>1, <2>2, <2>3, ZenonT(60) DEF DailyInv, DailyTyped
<1>8. CallSound'
  BY <1>1, <1>2, <1>3 DEF CallSound
<1>9. LogSound'
  BY <1>1, <1>2, <1>5 DEF LogSound
<1>10. DatedSound'
  <2> SUFFICES ASSUME NEW d \in Daily!Day
               PROVE  /\ DaysIn(dated'[d], when) \subseteq (d - crashes)..d
                      /\ dated'[d].records # <<>> =>
                            d < Today(clock) /\ (log'.exists => d < Today(log'.mtime))
                            /\ d < logsDay'
    BY <1>1, <1>2, <1>6 DEF DatedSound
  <2>1. CASE dated'[d] = Daily!NoFile
    BY <2>1, EmptyFile
  <2>2. CASE dated'[d] = dated[d]
    <3>1. CASE called
      <4>1. dated[d].records # <<>> => d # logsDay /\ d <= logsDay
        BY <1>3, <3>1
      <4> QED BY <1>1, <1>2, <1>3, <2>2, <3>1, <4>1, <1>5
    <3>2. CASE ~called
      <4>1. dated[d].records # <<>> => d < Today(t)
        <5>1. dated[d].records # <<>> => d <= logsDay /\ logsDay < Today(t)
          BY <1>3, <3>2
        <5>2. d \in Int
          BY <1>2
        <5> QED BY <1>2, <5>1, <5>2
      <4> QED BY <1>1, <1>3, <1>5, <2>2, <3>2, <4>1
    <3> QED BY <1>2, <3>1, <3>2
  <2> QED BY <1>4, <2>1, <2>2
<1>11. ASSUME NEW d \in Daily!Day, dated'[d].records = <<>>, NEW n \in DOMAIN dated[d].records
       PROVE  when[dated[d].records[n]] < clock - MaxDays * DayLength
  <2>1. Daily!Oldest = clock - MaxDays * DayLength
    <3>1. MaxDays * DayLength \in Nat /\ MaxDays * DayLength < Modulus /\ Modulus \in Nat \ {0}
      BY DaysAssumption DEF Steady
    <3>2. (MaxDays * DayLength) % Modulus = MaxDays * DayLength
      BY <3>1, RemainderFacts
    <3> QED BY <3>2 DEF Daily!Oldest
  <2>2. dated[d].mtime < clock - MaxDays * DayLength
    <3>1. dated'[d] # dated[d]
      BY <1>11, <1>2 DEF FileSound, DayFile
    <3> QED BY <1>4, <2>1, <3>1
  <2>3. /\ dated[d].records[n] \in DOMAIN when
        /\ when[dated[d].records[n]] <= dated[d].mtime /\ dated[d].mtime \in Nat
    BY <1>2 DEF FileSound, DayFile
  <2>4. when[dated[d].records[n]] \in Nat
    <3>1. when \in Seq(Nat)
      BY DEF DailyInv, DailyTyped
    <3> QED BY <2>3, <3>1, ElementOfSeq, LenProperties
  <2>5. clock - MaxDays * DayLength \in Int
    BY <1>2, DaysAssumption
  <2> QED BY <2>2, <2>3, <2>4, <2>5
<1> QED BY <1>1, <1>7, <1>8, <1>9, <1>10, <1>11 DEF DailyInv

\* The record is written, if there is a file to write it to.
LEMMA WriteKeeps ==
  ASSUME Steady, DailyInv, Daily!Write PROVE DailyInv' /\ UNCHANGED <<dated, crashes>>
<1> DEFINE w == Append(when, t)
           x == dailyLast + 1
<1>1. /\ dailyPc = "write" /\ dailyPc' = "idle" /\ t' = 0 /\ when' = w /\ dailyLast' = x
      /\ UNCHANGED <<clock, dated, hasFd, logsDay, called, dailyUp, crashes>>
      /\ log' = IF hasFd /\ log.exists
                THEN [log EXCEPT !.records = Append(log.records, x), !.mtime = clock] ELSE log
  BY DEF Daily!Write
<1>2. /\ dailyUp /\ ~called /\ logsDay = Today(t) /\ clock - t <= MaxPause
      /\ clock \in Nat /\ t \in Nat /\ t =< clock /\ when \in Seq(Nat)
      /\ Today(t) \in Nat /\ Today(clock) \in Nat /\ FileSound(log, clock, when)
  BY <1>1, ClockFacts DEF DailyInv, DailyTyped, CallSound
<1>3. /\ dailyLast = Len(when) /\ x = Len(w) /\ x \in Nat /\ x \in DOMAIN w /\ w[x] = t
      /\ w \in Seq(Nat)
  <2>1. dailyLast = Len(when)
    BY DEF DailyInv, DailyTyped
  <2> QED BY <1>2, <2>1, AppendProperties, LenProperties
<1>4. /\ FileSound(log, clock, w) /\ DaysIn(log, w) = DaysIn(log, when)
      /\ log.records \in Seq(Nat) /\ log \in DayFile
  <2>1. clock =< clock
    BY <1>2
  <2>2. /\ FileSound(log, clock, Append(when, t)) /\ log.records \in Seq(Nat)
        /\ DaysIn(log, Append(when, t)) = DaysIn(log, when)
    BY <1>2, <2>1, FileFacts, ZenonT(60)
  <2> QED BY <1>2, <2>2, ZenonT(60) DEF FileSound
<1>5. \A d \in Daily!Day : /\ FileSound(dated[d], clock, w)
                           /\ DaysIn(dated[d], w) = DaysIn(dated[d], when)
  <2> TAKE d \in Daily!Day
  <2>1. FileSound(dated[d], clock, when) /\ clock =< clock
    BY <1>2 DEF DailyInv, DailyTyped
  <2>2. ASSUME NEW f, FileSound(f, clock, when)
        PROVE  /\ FileSound(f, clock, Append(when, t))
               /\ DaysIn(f, Append(when, t)) = DaysIn(f, when)
    BY <1>2, <2>1, <2>2, FileFacts, ZenonT(60)
  <2> QED BY <2>1, <2>2
<1>6. /\ DaysIn(log, when) \subseteq (logsDay - crashes)..logsDay
      /\ log.records # <<>> => Today(log.mtime) \in {logsDay, logsDay + 1}
  BY <1>2 DEF DailyInv, LogSound
<1>7. crashes \in Nat /\ logsDay \in Nat
  BY DEF DailyInv, DailyTyped
<1> HIDE DEF w, x
<1>8. /\ FileSound(log', clock, w) /\ DaysIn(log', w) \subseteq (logsDay - crashes)..logsDay
      /\ log'.records # <<>> => Today(log'.mtime) \in {logsDay, logsDay + 1}
      /\ log'.exists => log.exists /\ log'.mtime \in {log.mtime, clock}
  <2>1. CASE hasFd /\ log.exists
    <3>1. /\ log' = [exists |-> TRUE, records |-> Append(log.records, x), mtime |-> clock]
      BY <1>1, <1>4, <2>1 DEF DayFile
    <3>2. /\ log'.records = Append(log.records, x) /\ log'.mtime = clock /\ log'.exists = TRUE
      BY <3>1
    <3>3. /\ Append(log.records, x) \in Seq(Nat)
          /\ \A n \in DOMAIN log'.records :
                \/ n \in DOMAIN log.records /\ log'.records[n] = log.records[n]
                \/ log'.records[n] = x
      BY <1>3, <1>4, <3>2, AppendProperties, LenProperties
    <3>4. log' \in DayFile
      BY <1>2, <3>1, <3>3 DEF DayFile
    <3>5. \A n \in DOMAIN log.records :
             /\ log.records[n] \in DOMAIN w /\ w[log.records[n]] =< clock
             /\ Today(w[log.records[n]]) \in (logsDay - crashes)..logsDay
      <4>1. \A n \in DOMAIN log.records :
               /\ log.records[n] \in DOMAIN w /\ w[log.records[n]] =< log.mtime
        BY <1>4 DEF FileSound
      <4>2. \A n \in DOMAIN log.records : w[log.records[n]] \in Nat
        BY <1>3, <4>1, ElementOfSeq, LenProperties
      <4>3. log.mtime \in Nat /\ log.mtime =< clock
        BY <1>4 DEF FileSound, DayFile
      <4>4. \A n \in DOMAIN log.records : Today(w[log.records[n]]) \in DaysIn(log, w)
        BY DEF DaysIn
      <4> QED BY <1>2, <1>4, <1>6, <4>1, <4>2, <4>3, <4>4, SMTT(150)
    <3>6. Today(w[x]) \in (logsDay - crashes)..logsDay /\ w[x] =< clock
      BY <1>2, <1>3, <1>7
    <3>7. \A n \in DOMAIN log'.records :
             /\ log'.records[n] \in DOMAIN w /\ w[log'.records[n]] =< clock
             /\ Today(w[log'.records[n]]) \in (logsDay - crashes)..logsDay
      BY <1>3, <3>3, <3>5, <3>6, ZenonT(60)
    <3>8. Today(clock) \in {logsDay, logsDay + 1}
      <4>1. MaxPause =< DayLength /\ MaxPause \in Nat /\ DayLength \in Nat
        BY DaysAssumption DEF Steady
      <4>2. clock - t =< DayLength
        BY <1>2, <4>1
      <4>3. Today(clock) =< Today(t) + 1 /\ Today(t) =< Today(clock)
        BY <1>2, <4>2, DayFacts
      <4> QED BY <1>2, <4>3
    <3>9. FileSound(log', clock, w)
      BY <1>2, <3>2, <3>4, <3>7 DEF FileSound
    <3> QED BY <2>1, <3>2, <3>7, <3>8, <3>9 DEF DaysIn
  <2>2. CASE ~(hasFd /\ log.exists)
    BY <1>1, <1>4, <1>6, <2>2
  <2> QED BY <2>1, <2>2
<1>9. DailyTyped'
  <2>1. t' \in 0..clock
    BY <1>1, <1>2
  <2>2. dailyPc' \in {"idle", "rename", "open", "delete", "write"}
    BY <1>1
  <2>3. when' \in Seq(Nat) /\ Len(when') = dailyLast'
    BY <1>1, <1>3
  <2> QED BY <1>1, <1>5, <1>8, <2>1, <2>2, <2>3, ZenonT(60) DEF DailyInv, DailyTyped
<1>10. CallSound'
  BY <1>1, <1>2 DEF CallSound
<1>11. LogSound'
  BY <1>1, <1>2, <1>8 DEF LogSound
<1>12. DatedSound'
  <2> SUFFICES ASSUME NEW d \in Daily!Day, dated[d].records # <<>>
               PROVE  d < Today(clock) /\ (log'.exists => d < Today(log'.mtime)) /\ d < logsDay
    <3>1. \A d \in Daily!Day : d \in Int
      BY DEF Daily!Day
    <3> QED BY <1>1, <1>5, <1>7, <3>1 DEF DailyInv, DatedSound
  <2>1. d < Today(clock) /\ (log.exists => d < Today(log.mtime)) /\ d < logsDay
    BY <1>1, <1>2 DEF DailyInv, DatedSound
  <2> QED BY <1>8, <2>1
<1> QED BY <1>1, <1>9, <1>10, <1>11, <1>12 DEF DailyInv

\* Nothing is there at first.
LEMMA DailyStarts == ASSUME Daily!Init PROVE DailyInv
<1>1. /\ clock = 0 /\ log = Daily!NoFile /\ dated = [d \in Daily!Day |-> Daily!NoFile]
      /\ hasFd = FALSE /\ logsDay = 0 /\ dailyPc = "idle" /\ t = 0 /\ called = FALSE
      /\ dailyUp = FALSE /\ when = <<>> /\ dailyLast = 0 /\ crashes = 0
  BY DEF Daily!Init
<1>2. Today(0) \in Nat /\ when \in Seq(Nat) /\ Len(when) = 0
  BY <1>1, DayFacts, EmptySeq
<1>3. /\ FileSound(log, clock, when) /\ log.records = <<>> /\ DaysIn(log, when) = {}
      /\ \A d \in Daily!Day : /\ FileSound(dated[d], clock, when) /\ dated[d].records = <<>>
                              /\ DaysIn(dated[d], when) = {}
  BY <1>1, EmptyFile
<1>4. DailyTyped
  <2>1. clock \in 0..MaxClock /\ t \in 0..clock /\ logsDay \in Nat /\ logsDay <= Today(clock)
    BY <1>1, <1>2, DaysAssumption
  <2>2. DOMAIN dated = Daily!Day
    BY <1>1
  <2>3. hasFd \in BOOLEAN /\ called \in BOOLEAN /\ dailyUp \in BOOLEAN
    BY <1>1
  <2> QED BY <1>1, <1>2, <1>3, <2>1, <2>2, <2>3, ZenonT(60) DEF DailyTyped
<1>5. CallSound
  BY <1>1 DEF CallSound
<1>6. LogSound /\ DatedSound
  BY <1>1, <1>3 DEF LogSound, DatedSound
<1> QED BY <1>4, <1>5, <1>6 DEF DailyInv

\* A step that leaves the dated files alone keeps them as they should be.
LEMMA DatedAlone ==
  ASSUME DailyInv, DailyInv', UNCHANGED dated, when' = when \/ when' = Append(when, t)
  PROVE  Daily!KeepsDays
<1>1. \A d \in Daily!Day : DaysIn(dated[d], when') = DaysIn(dated[d], when)
  <2> TAKE d \in Daily!Day
  <2>1. /\ clock \in Nat /\ clock =< clock /\ t \in Nat /\ when \in Seq(Nat)
        /\ FileSound(dated[d], clock, when)
    BY ClockFacts DEF DailyInv, DailyTyped
  <2>2. ASSUME NEW f, FileSound(f, clock, when)
        PROVE  DaysIn(f, Append(when, t)) = DaysIn(f, when)
    BY <2>1, <2>2, FileFacts, ZenonT(60)
  <2> QED BY <2>1, <2>2
<1>2. \A d \in Daily!Day : DaysIn(dated[d], when) \subseteq (d - crashes)..d
  BY DEF DailyInv, DatedSound
<1>3. \A d \in Daily!Day : Daily!DaysOf(dated[d])' = DaysIn(dated[d], when')
  BY DEF Daily!DaysOf, DaysIn, Today
<1>4. \A d \in Daily!Day : dated[d].records = <<>> => DOMAIN dated[d].records = {}
  BY EmptySeq
<1> QED BY <1>1, <1>2, <1>3, <1>4 DEF Daily!KeepsDays

\* The step of the proof.
LEMMA DailySteps ==
  ASSUME Steady, DailyInv, [Daily!Next]_(Daily!vars)
  PROVE  DailyInv' /\ [Daily!KeepsDays]_(Daily!vars)
<1> USE DEF Daily!files, Daily!locals, Daily!ghosts
<1>1. CASE Daily!Tick \/ Daily!Start \/ Daily!Crash \/ Daily!Begin \/ Daily!RollOver
  <2>1. DailyInv'
    BY <1>1, TickKeeps, StartKeeps, CrashKeeps, BeginKeeps
  <2>2. UNCHANGED <<dated, when>>
    BY <1>1 DEF Daily!Tick, Daily!Start, Daily!Crash, Daily!Begin, Daily!RollOver
  <2> QED BY <2>1, <2>2, DatedAlone
<1>2. CASE Daily!Open
  <2>1. UNCHANGED when
    BY <1>2 DEF Daily!Open
  <2> QED BY <1>2, <2>1, OpenKeeps, DatedAlone
<1>3. CASE Daily!Write
  <2>1. when' = Append(when, t)
    BY <1>3 DEF Daily!Write
  <2> QED BY <1>3, <2>1, WriteKeeps, DatedAlone
<1>4. CASE Daily!Rename \/ Daily!Delete
  <2>1. DailyInv' /\ crashes' = crashes
    BY <1>4, RenameKeeps, DeleteKeeps
  <2>2. \A d \in Daily!Day : Daily!DaysOf(dated[d])' \subseteq (d - crashes)..d
    BY <2>1 DEF DailyInv, DatedSound, DaysIn, Today, Daily!DaysOf
  <2>3. \A d \in Daily!Day : dated'[d].records = <<>> =>
           \A n \in DOMAIN dated[d].records :
              when[dated[d].records[n]] < clock - MaxDays * DayLength
    <3>1. CASE Daily!Rename
      <4>1. \A d \in Daily!Day : dated[d].records = <<>> => DOMAIN dated[d].records = {}
        BY EmptySeq
      <4> QED BY <3>1, <4>1, RenameKeeps
    <3>2. CASE Daily!Delete
      BY <3>2, DeleteKeeps
    <3> QED BY <1>4, <3>1, <3>2
  <2> QED BY <2>1, <2>2, <2>3 DEF Daily!KeepsDays
<1>5. CASE UNCHANGED Daily!vars
  BY <1>5 DEF Daily!vars, DailyInv, DailyTyped, CallSound, LogSound, DatedSound, FileSound,
              DaysIn
<1> QED BY <1>1, <1>2, <1>3, <1>4, <1>5 DEF Daily!Next, Daily!Done

\* A file with a date holds the records of its day, or, for each crash, of one more day
\* before it, and none that is younger than maxDaysToKeep is deleted
\* (DailyRollingFileAppender.cpp:40-63, :73-170).
THEOREM DaysAreKept == ASSUME Steady PROVE MCSpec => Daily!DaysKept
<1>1. MCInit => DailyInv
  BY DailyStarts DEF MCInit
<1>2. DailyInv /\ [MCNext]_<<part, vars, dailyVars>> => DailyInv' /\ [Daily!KeepsDays]_(Daily!vars)
  <2> SUFFICES ASSUME DailyInv, [MCNext]_<<part, vars, dailyVars>>
               PROVE  DailyInv' /\ [Daily!KeepsDays]_(Daily!vars)
    OBVIOUS
  <2>1. [Daily!Next]_(Daily!vars)
    BY DEF MCNext, dailyVars, Daily!vars, Daily!files, Daily!locals, Daily!ghosts
  <2> QED BY <2>1, DailySteps
<1> QED BY <1>1, <1>2, PTL DEF MCSpec, Daily!DaysKept
=============================================================================
