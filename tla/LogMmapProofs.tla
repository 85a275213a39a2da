---------------------------- MODULE LogMmapProofs ----------------------------
(***************************************************************************)
(* The log writes inside the mapped file, loses nothing but its oldest     *)
(* file, and is to its reader one window on the messages, for every size,  *)
(* every number of archives and every run of failures and restarts.        *)
(*                                                                         *)
(* The reader's sequence is FlattenSeq() of the files, a recursion: what a *)
(* rename(), a remove() or a write does to it is proved by induction.      *)
(***************************************************************************)
EXTENDS LogMmap, SequenceTheorems, Induction, TLAPS

\* While http.log is open its messages begin where the next one goes.
FileOpen ==
  fd => /\ LogFile \in DOMAIN files
        /\ buffer.writeHead = 0 => files[LogFile] = <<>>

\* What the owner of logMtx has done of a rotation.
StepDone ==
  /\ step \in {"remove", "rename", "renameLog", "open"} => ~fd
  /\ step \in {"ftruncate", "mmap"} => fd /\ buffer = NoBuffer
  /\ process = "down" => step = "unlocked"
  /\ step \in {"room", "write"} => process = "up"
  /\ process = "up" /\ step # "unlocked" => written < MaxMessages

\* The name that the next rename() takes is free.
NameFree ==
  /\ step = "rename" => /\ i + 1 <= logArchiveCount /\ i + 1 \notin DOMAIN files
                        /\ (i = -1 <=> logArchiveCount = 0)
  /\ step = "renameLog" => NewestArchive \notin DOMAIN files
  /\ step = "open" => LogFile \notin DOMAIN files

IInv == TypeOK /\ WritesInside /\ FileOpen /\ StepDone /\ NameFree

----------------------------------------------------------------------------
(* The file system *)

\* What TypeOK says of the files.
FilesOK(fs, w) == DOMAIN fs \subseteq Names /\ \A n \in DOMAIN fs : fs[n] \in Seq(1 .. w)

\* No file of fs is lost in gs.
AllKept(fs, gs) == \A n \in DOMAIN fs : \E m \in DOMAIN gs : gs[m] = fs[n]

\* remove() loses no other file.
LEMMA RemoveFacts ==
  ASSUME FilesOK(files, written), NEW n
  PROVE  /\ FilesOK(remove(n), written) /\ n \notin DOMAIN remove(n)
         /\ \A m \in DOMAIN files \ {n} :
              m \in DOMAIN remove(n) /\ remove(n)[m] = files[m]
  BY DEF FilesOK, remove

\* rename() to a name that is free loses no file, and its source is free then.
LEMMA RenameFacts ==
  ASSUME FilesOK(files, written), NEW n, NEW to \in Names, to \notin DOMAIN files, n # to
  PROVE  /\ FilesOK(rename(n, to), written) /\ n \notin DOMAIN rename(n, to)
         /\ AllKept(files, rename(n, to))
         /\ \A m \in DOMAIN rename(n, to) : m \in DOMAIN files \/ m = to
<1>1. CASE n \notin DOMAIN files
  BY <1>1 DEF rename, AllKept
<1>2. CASE n \in DOMAIN files
  <2>1. /\ DOMAIN rename(n, to) = (DOMAIN files \ {n}) \cup {to}
        /\ rename(n, to)[to] = files[n]
        /\ \A m \in DOMAIN files \ {n} : rename(n, to)[m] = files[m]
    BY <1>2 DEF rename
  <2>2. FilesOK(rename(n, to), written)
    BY <2>1, <1>2 DEF FilesOK
  <2>3. AllKept(files, rename(n, to))
    BY <2>1, <1>2 DEF AllKept
  <2> QED BY <2>1, <2>2, <2>3
<1> QED BY <1>1, <1>2

\* open() creates an empty file, or finds the one that is there.
LEMMA CreateFacts ==
  ASSUME FilesOK(files, written)
  PROVE  /\ FilesOK(create(LogFile), written) /\ LogFile \in DOMAIN create(LogFile)
         /\ AllKept(files, create(LogFile))
         /\ LogFile \notin DOMAIN files => create(LogFile)[LogFile] = <<>>
<1>1. <<>> \in Seq(1 .. written)
  OBVIOUS
<1> QED BY <1>1 DEF FilesOK, AllKept, create, Names

\* Files that are kept are kept up to what is appended.
LEMMA KeptIsPrefix ==
  ASSUME FilesOK(files, written), NEW gs, NEW n \in DOMAIN files, NEW m \in DOMAIN gs,
         gs[m] = files[n]
  PROVE  IsPrefix(files[n], gs[m])
<1>1. Len(files[n]) \in Nat
  BY DEF FilesOK
<1> QED BY <1>1 DEF IsPrefix

LEMMA AppendIsPrefix ==
  ASSUME NEW S, NEW s \in Seq(S), NEW x \in S
  PROVE  IsPrefix(s, Append(s, x))
<1>1. Len(s) \in Nat /\ Len(Append(s, x)) = Len(s) + 1
  OBVIOUS
<1>2. SubSeq(Append(s, x), 1, Len(s)) = SubSeq(s, 1, Len(s))
  BY <1>1
<1> QED BY <1>1, <1>2 DEF IsPrefix

----------------------------------------------------------------------------
(* The invariant *)

LEMMA InitIInv == Init => IInv
<1> SUFFICES ASSUME Init PROVE IInv
  OBVIOUS
<1>1. TypeOK
  <2>1. DOMAIN files = {} /\ buffer \in [size : {0, logFileSize}, writeHead : 0 .. logFileSize]
    BY SizesAssumption DEF Init, NoBuffer
  <2>2. FilesOK(files, written)
    BY <2>1 DEF FilesOK
  <2>3. step \in Steps /\ process \in {"down", "init", "up"} /\ fd \in BOOLEAN
    BY DEF Init, Steps
  <2>4. /\ logArchiveCount \in 0 .. MaxArchiveCount /\ i \in -1 .. MaxArchiveCount
        /\ written \in 0 .. MaxMessages /\ starts \in 0 .. MaxStarts
    BY BoundsAssumption DEF Init
  <2> QED BY <2>1, <2>2, <2>3, <2>4 DEF TypeOK, FilesOK
<1>2. WritesInside /\ FileOpen /\ StepDone /\ NameFree
  BY DEF Init, WritesInside, FileOpen, StepDone, NameFree, NoBuffer
<1> QED BY <1>1, <1>2 DEF IInv

LEMMA NextIInv == IInv /\ [Next]_vars => IInv'
<1> SUFFICES ASSUME IInv, [Next]_vars PROVE IInv'
  OBVIOUS
<1> USE DEF unchangedProcess
<1>t. TypeOK /\ WritesInside /\ FileOpen /\ StepDone /\ NameFree /\ FilesOK(files, written)
  BY DEF IInv, TypeOK, FilesOK
<1>n. logArchiveCount \in Nat /\ NewestArchive \in 0 .. logArchiveCount
  BY <1>t, BoundsAssumption DEF TypeOK, NewestArchive
<1>b. NoBuffer \in [size : {0, logFileSize}, writeHead : 0 .. logFileSize]
  BY SizesAssumption DEF NoBuffer
<1>1. CASE Close
  <2>1. buffer' = NoBuffer /\ ~fd'
    BY <1>1, <1>t DEF Close, WritesInside
  <2>2. TypeOK'
    BY <2>1, <1>1, <1>t, <1>b DEF Close, TypeOK, Steps
  <2>3. WritesInside' /\ FileOpen' /\ StepDone' /\ NameFree'
    BY <2>1, <1>1, <1>t DEF Close, WritesInside, FileOpen, StepDone, NameFree
  <2> QED BY <2>2, <2>3 DEF IInv
<1>2. CASE RemoveOldest
  <2>1. FilesOK(files', written') /\ logArchiveCount \notin DOMAIN files'
    BY <1>2, <1>t, RemoveFacts DEF RemoveOldest
  <2>2. TypeOK'
    BY <2>1, <1>2, <1>t, <1>n, BoundsAssumption DEF RemoveOldest, TypeOK, Steps, FilesOK
  <2>3. WritesInside' /\ FileOpen' /\ StepDone' /\ NameFree'
    BY <2>1, <1>2, <1>t, <1>n
    DEF RemoveOldest, WritesInside, FileOpen, StepDone, NameFree
  <2> QED BY <2>2, <2>3 DEF IInv
<1>3. CASE RenameNext
  <2>1. CASE i > 0
    <3>1. i \in Int /\ i + 1 \in Names /\ i # i + 1 /\ i + 1 \notin DOMAIN files
      BY <1>3, <2>1, <1>t, <1>n, BoundsAssumption DEF RenameNext, NameFree, TypeOK, Names
    <3>2. files' = rename(i, i + 1)
      BY <1>3, <2>1 DEF RenameNext
    <3>3. FilesOK(files', written') /\ i \notin DOMAIN files'
      BY <3>1, <3>2, <1>3, <1>t, RenameFacts DEF RenameNext
    <3>4. TypeOK'
      <4>1. i' = i - 1 /\ i' \in -1 .. MaxArchiveCount /\ step' \in Steps
        BY <3>1, <2>1, <1>3, <1>t, BoundsAssumption DEF RenameNext, TypeOK, Steps
      <4> QED BY <4>1, <3>3, <1>3, <1>t DEF RenameNext, TypeOK, FilesOK
    <3>5. WritesInside' /\ FileOpen' /\ StepDone' /\ NameFree'
      BY <3>1, <3>3, <2>1, <1>3, <1>t, <1>n
      DEF RenameNext, WritesInside, FileOpen, StepDone, NameFree
    <3> QED BY <3>4, <3>5 DEF IInv
  <2>2. CASE ~(i > 0)
    <3>1. i + 1 = NewestArchive
      BY <2>2, <1>3, <1>t, <1>n DEF RenameNext, TypeOK, NameFree, NewestArchive
    <3>2. NewestArchive' = NewestArchive
      BY <1>3 DEF RenameNext, NewestArchive
    <3> QED
      BY <3>1, <3>2, <2>2, <1>3, <1>t
      DEF RenameNext, IInv, TypeOK, WritesInside, FileOpen, StepDone, NameFree, Steps
  <2> QED BY <2>1, <2>2
<1>4. CASE RenameLog
  <2>1. NewestArchive \in Names /\ NewestArchive # LogFile /\ NewestArchive \notin DOMAIN files
    BY <1>4, <1>t, <1>n, BoundsAssumption DEF RenameLog, NameFree, TypeOK, Names, LogFile
  <2>2. FilesOK(files', written') /\ LogFile \notin DOMAIN files'
    BY <2>1, <1>4, <1>t, RenameFacts DEF RenameLog
  <2>3. TypeOK'
    BY <2>2, <1>4, <1>t DEF RenameLog, TypeOK, Steps, FilesOK
  <2>4. WritesInside' /\ FileOpen' /\ StepDone' /\ NameFree'
    BY <2>2, <1>4, <1>t DEF RenameLog, WritesInside, FileOpen, StepDone, NameFree
  <2> QED BY <2>3, <2>4 DEF IInv
<1>5. CASE Open
  <2>1. /\ FilesOK(files', written') /\ LogFile \in DOMAIN files'
        /\ files'[LogFile] = <<>>
    BY <1>5, <1>t, CreateFacts DEF Open, NameFree
  <2>2. TypeOK'
    BY <2>1, <1>5, <1>t DEF Open, TypeOK, Steps, FilesOK
  <2>3. buffer = NoBuffer
    BY <1>5, <1>t DEF Open, StepDone, WritesInside
  <2>4. WritesInside' /\ FileOpen' /\ StepDone' /\ NameFree'
    BY <2>1, <2>3, <1>5, <1>t DEF Open, WritesInside, FileOpen, StepDone, NameFree
  <2> QED BY <2>2, <2>4 DEF IInv
<1>6. CASE Ftruncate
  BY <1>6, <1>t
  DEF Ftruncate, IInv, TypeOK, WritesInside, FileOpen, StepDone, NameFree, Steps
<1>7. CASE Mmap
  <2>1. /\ MappedBuffer \in [size : {0, logFileSize}, writeHead : 0 .. logFileSize]
        /\ MappedBuffer.size = logFileSize /\ MappedBuffer.writeHead = 0
    BY SizesAssumption DEF MappedBuffer
  <2>2. fd /\ LogFile \in DOMAIN files /\ files[LogFile] = <<>>
    BY <1>7, <1>t DEF Mmap, StepDone, FileOpen, NoBuffer
  <2>3. TypeOK'
    BY <2>1, <1>7, <1>t DEF Mmap, TypeOK, Steps, FilesOK
  <2>4. step' = "write" => process = "up" /\ maxMessageSize <= logFileSize
    BY <1>7, <1>t, SizesAssumption DEF Mmap, TypeOK, StepDone
  <2>5. step' = "write" \/ step' = "unlocked"
    BY <1>7 DEF Mmap
  <2>6. WritesInside' /\ FileOpen'
    BY <2>1, <2>2, <2>4, <1>7, <1>t, SizesAssumption DEF Mmap, WritesInside, FileOpen
  <2>7. StepDone' /\ NameFree'
    BY <2>4, <2>5, <1>7, <1>t DEF Mmap, StepDone, NameFree
  <2> QED BY <2>3, <2>6, <2>7 DEF IInv
<1>8. CASE OpenFileFails
  <2>1. buffer = NoBuffer
    BY <1>8, <1>t DEF OpenFileFails, StepDone, WritesInside
  <2> QED
    BY <2>1, <1>8, <1>t
    DEF OpenFileFails, RotateFails, IInv, TypeOK, WritesInside, FileOpen, StepDone,
        NameFree, Steps
<1>9. CASE Log
  BY <1>9, <1>t
  DEF Log, IInv, TypeOK, WritesInside, FileOpen, StepDone, NameFree, Steps
<1>10. CASE CheckRoom
  <2>1. Fits => fd
    BY <1>t, SizesAssumption DEF Fits, room, WritesInside, NoBuffer
  <2>2. Fits => buffer.writeHead + maxMessageSize <= buffer.size
    BY <1>t, SizesAssumption DEF Fits, room, TypeOK
  <2> QED
    BY <2>1, <2>2, <1>10, <1>t
    DEF CheckRoom, IInv, TypeOK, WritesInside, FileOpen, StepDone, NameFree, Steps
<1>11. CASE Write
  <2>1. fd /\ LogFile \in DOMAIN files /\ buffer.writeHead + maxMessageSize <= buffer.size
    BY <1>11, <1>t DEF Write, WritesInside
  <2>2. PICK n \in MessageSizes : buffer' = [buffer EXCEPT !.writeHead = @ + n]
    BY <1>11 DEF Write
  <2>3. /\ buffer' \in [size : {0, logFileSize}, writeHead : 0 .. logFileSize]
        /\ buffer'.writeHead > 0
    <3>1. n \in Int /\ 1 <= n /\ n < maxMessageSize
      BY SizesAssumption DEF MessageSizes
    <3>2. /\ buffer \in [size : {0, logFileSize}, writeHead : 0 .. logFileSize]
          /\ buffer.size <= logFileSize /\ buffer.writeHead \in Nat
      BY <1>t, SizesAssumption DEF TypeOK
    <3>3. buffer.writeHead + n \in 0 .. logFileSize /\ buffer.writeHead + n > 0
      BY <3>1, <3>2, <2>1, SizesAssumption
    <3>4. /\ buffer' = [size |-> buffer.size, writeHead |-> buffer.writeHead + n]
      BY <2>2, <3>2
    <3> QED BY <3>2, <3>3, <3>4
  <2>4. /\ written \in Nat /\ written' = written + 1 /\ DOMAIN files' = DOMAIN files
        /\ \A m \in DOMAIN files \ {LogFile} : files'[m] = files[m]
        /\ files'[LogFile] = IF buffer.writeHead = 0 THEN <<written'>>
                             ELSE Append(files[LogFile], written')
    BY <1>11, <1>t, <2>1 DEF Write, TypeOK
  <2>5. \A m \in DOMAIN files : files[m] \in Seq(1 .. written')
    BY <2>4, <1>t DEF FilesOK
  <2>6. files'[LogFile] \in Seq(1 .. written')
    <3>1. <<written'>> \in Seq(1 .. written')
      BY <2>4
    <3>2. Append(files[LogFile], written') \in Seq(1 .. written')
      BY <2>1, <2>4, <2>5
    <3> QED BY <2>4, <3>1, <3>2
  <2>7. FilesOK(files', written')
    BY <2>4, <2>5, <2>6, <1>t DEF FilesOK
  <2>8. written' \in 0 .. MaxMessages
    BY <1>11, <1>t, <2>4, BoundsAssumption DEF Write, TypeOK, StepDone
  <2>9. TypeOK'
    BY <2>3, <2>7, <2>8, <1>11, <1>t DEF Write, TypeOK, FilesOK, Steps
  <2> QED
    BY <2>1, <2>3, <2>4, <2>9, <1>11, <1>t
    DEF Write, IInv, WritesInside, FileOpen, StepDone, NameFree
<1>12. CASE Start
  BY <1>12, <1>t, BoundsAssumption
  DEF Start, IInv, TypeOK, WritesInside, FileOpen, StepDone, NameFree, Steps
<1>13. CASE End
  <2>1. TypeOK'
    <3>1. buffer' \in [size : {0, logFileSize}, writeHead : 0 .. logFileSize]
      BY <1>13, <1>b DEF End
    <3>2. i' \in -1 .. MaxArchiveCount
      BY <1>13, BoundsAssumption DEF End
    <3>3. fd' \in BOOLEAN /\ process' \in {"down", "init", "up"} /\ step' \in Steps
      BY <1>13 DEF End, Steps
    <3> QED BY <3>1, <3>2, <3>3, <1>13, <1>t DEF End, TypeOK
  <2>2. WritesInside' /\ FileOpen' /\ StepDone' /\ NameFree'
    <3>1. step' = "unlocked" /\ ~fd' /\ process' = "down" /\ buffer' = NoBuffer
      BY <1>13 DEF End
    <3> QED BY <3>1 DEF WritesInside, FileOpen, StepDone, NameFree
  <2> QED BY <2>1, <2>2 DEF IInv
<1>14. CASE UNCHANGED vars
  BY <1>14, <1>t
  DEF vars, IInv, TypeOK, WritesInside, FileOpen, StepDone, NameFree, NewestArchive
<1> QED
  BY <1>1, <1>2, <1>3, <1>4, <1>5, <1>6, <1>7, <1>8, <1>9, <1>10, <1>11, <1>12, <1>13,
     <1>14 DEF Next, Rotate
----------------------------------------------------------------------------
(* The theorems *)

THEOREM Invariance == Spec => []IInv
BY InitIInv, NextIInv, PTL DEF Spec

\* Every variable keeps its type: the buffer's head stays within the file and
\* files have the names that rotate() gives them (LogMmap.cpp:107-185).
THEOREM TypeCorrect == Spec => []TypeOK
<1>1. IInv => TypeOK
  BY DEF IInv
<1> QED BY <1>1, Invariance, PTL

\* A message is written only inside a mapped http.log (LogMmap.cpp:139-155).
THEOREM WritesStayInside == Spec => []WritesInside
<1>1. IInv => WritesInside
  BY DEF IInv
<1> QED BY <1>1, Invariance, PTL

\* No rename() replaces a file, and none but the oldest is removed
\* (LogMmap.cpp:107-129).
THEOREM OldestIsLost == Spec => OnlyOldestLost
<1> DEFINE Kept1 == \A n \in DOMAIN files \ {logArchiveCount} :
                      \E m \in DOMAIN files' : IsPrefix(files[n], files'[m])
<1>1. IInv /\ [Next]_vars => [Kept1]_vars
  <2> SUFFICES ASSUME IInv, Next PROVE Kept1
    BY DEF vars
  <2>t. /\ WritesInside /\ FileOpen /\ NameFree /\ FilesOK(files, written)
        /\ logArchiveCount \in 0 .. MaxArchiveCount /\ i \in Int /\ written \in Nat
    BY BoundsAssumption DEF IInv, TypeOK, FilesOK
  <2>k. AllKept(files, files') => Kept1
    BY <2>t, KeptIsPrefix DEF AllKept
  <2>1. CASE RemoveOldest
    <3>1. files' = remove(logArchiveCount)
      BY <2>1 DEF RemoveOldest
    <3> QED BY <3>1, <2>t, RemoveFacts, KeptIsPrefix
  <2>2. CASE RenameNext
    <3>1. CASE i > 0
      <4>1. i + 1 \in Names /\ i # i + 1 /\ i + 1 \notin DOMAIN files
        BY <3>1, <2>2, <2>t, BoundsAssumption DEF RenameNext, NameFree, Names
      <4> QED BY <4>1, <3>1, <2>2, <2>t, <2>k, RenameFacts DEF RenameNext
    <3>2. CASE ~(i > 0)
      BY <3>2, <2>2, <2>k DEF RenameNext, AllKept
    <3> QED BY <3>1, <3>2
  <2>3. CASE RenameLog
    <3>1. /\ NewestArchive \in Names /\ NewestArchive # LogFile
          /\ NewestArchive \notin DOMAIN files
      BY <2>3, <2>t, BoundsAssumption DEF RenameLog, NameFree, NewestArchive, Names, LogFile
    <3> QED BY <3>1, <2>3, <2>t, <2>k, RenameFacts DEF RenameLog
  <2>4. CASE Open
    BY <2>4, <2>t, <2>k, CreateFacts DEF Open
  <2>5. CASE Write
    <3>1. /\ LogFile \in DOMAIN files /\ DOMAIN files' = DOMAIN files
          /\ \A m \in DOMAIN files \ {LogFile} : files'[m] = files[m]
          /\ files'[LogFile] = IF buffer.writeHead = 0 THEN <<written'>>
                               ELSE Append(files[LogFile], written')
          /\ written' = written + 1
      BY <2>5, <2>t DEF Write, WritesInside
    <3>2. IsPrefix(files[LogFile], files'[LogFile])
      <4>1. CASE buffer.writeHead = 0
        <5>1. files[LogFile] = <<>>
          BY <4>1, <2>5, <2>t DEF Write, WritesInside, FileOpen
        <5> QED BY <5>1, <3>1, <4>1 DEF IsPrefix
      <4>2. CASE buffer.writeHead # 0
        <5>1. files[LogFile] \in Seq(1 .. written') /\ written' \in 1 .. written'
          BY <3>1, <2>t DEF FilesOK
        <5> QED BY <5>1, <4>2, <3>1, AppendIsPrefix
      <4> QED BY <4>1, <4>2
    <3> QED BY <3>1, <3>2, <2>t, KeptIsPrefix
  <2>6. CASE Close \/ Ftruncate \/ Mmap \/ OpenFileFails \/ Log \/ CheckRoom \/ Start \/ End
    <3>1. files' = files
      BY <2>6 DEF Close, Ftruncate, Mmap, OpenFileFails, RotateFails, Log, CheckRoom,
                  Start, End
    <3> QED BY <3>1, <2>k DEF AllKept
  <2> QED BY <2>1, <2>2, <2>3, <2>4, <2>5, <2>6 DEF Next, Rotate
<1> QED BY <1>1, Invariance, PTL DEF Spec, OnlyOldestLost
----------------------------------------------------------------------------
(* One sequence of all the files *)

\* f holds what the first files of s are together, as far as k.
JoinedTo(s, n, k, f) ==
  /\ f \in [1 .. n -> Seq(Nat)]
  /\ \A j \in 1 .. k : f[j] = IF j = 1 THEN s[1] ELSE f[j - 1] \o s[j]

Joined(s, n, f) == JoinedTo(s, n, n, f)

LEMMA JoinedMore ==
  ASSUME NEW n \in Nat, NEW s \in [1 .. n -> Seq(Nat)], NEW k \in 0 .. n - 1,
         NEW f, JoinedTo(s, n, k, f)
  PROVE  \E g : JoinedTo(s, n, k + 1, g)
<1> PICK v : v = IF k = 0 THEN s[1] ELSE f[k] \o s[k + 1]
  OBVIOUS
<1> PICK g : g = [f EXCEPT ![k + 1] = v]
  OBVIOUS
<1>1. v \in Seq(Nat)
  <2>1. CASE k = 0
    BY <2>1
  <2>2. CASE k # 0
    <3>1. f[k] \in Seq(Nat) /\ s[k + 1] \in Seq(Nat)
      BY <2>2 DEF JoinedTo
    <3> QED BY <3>1, <2>2
  <2> QED BY <2>1, <2>2
<1>2. /\ g \in [1 .. n -> Seq(Nat)] /\ g[k + 1] = v
      /\ \A j \in 1 .. k : g[j] = f[j]
  BY <1>1 DEF JoinedTo
<1>3. ASSUME NEW j \in 1 .. k + 1
      PROVE  g[j] = IF j = 1 THEN s[1] ELSE g[j - 1] \o s[j]
  <2>1. CASE j = k + 1
    <3>1. k # 0 => k \in 1 .. k
      OBVIOUS
    <3> QED BY <2>1, <3>1, <1>2
  <2>2. CASE j # k + 1
    <3>1. j \in 1 .. k /\ (j # 1 => j - 1 \in 1 .. k)
      BY <2>2
    <3> QED BY <3>1, <1>2 DEF JoinedTo
  <2> QED BY <2>1, <2>2
<1>4. JoinedTo(s, n, k + 1, g)
  BY <1>2, <1>3 DEF JoinedTo
<1> QED BY <1>4

LEMMA JoinedExists ==
  ASSUME NEW n \in Nat, NEW s \in [1 .. n -> Seq(Nat)]
  PROVE  \E f : Joined(s, n, f)
<1> DEFINE T == {k \in 0 .. n : \E f : JoinedTo(s, n, k, f)}
<1>1. 0 \in T
  <2>1. JoinedTo(s, n, 0, s)
    BY DEF JoinedTo
  <2> QED BY <2>1
<1>2. \A k \in 0 .. n - 1 : k \in T => k + 1 \in T
  BY JoinedMore
<1> HIDE DEF T
<1>3. \A k \in 0 .. n : k \in T
  BY <1>1, <1>2, InductionUpTo
<1>4. n \in 0 .. n
  OBVIOUS
<1> QED BY <1>3, <1>4 DEF T, Joined

\* A function that satisfies the recursion joins the sequences.
LEMMA RecursionIsJoined ==
  ASSUME NEW n \in Nat \ {0}, NEW s \in [1 .. n -> Seq(Nat)], NEW f,
         f = [j \in 1 .. n |-> f[j]],
         \A k \in 1 .. n : f[k] = IF k = 1 THEN s[1] ELSE f[k - 1] \o s[k]
  PROVE  Joined(s, n, f)
<1> DEFINE T == {k \in 0 .. n : k # 0 => f[k] \in Seq(Nat)}
<1>1. 0 \in T
  OBVIOUS
<1>2. ASSUME NEW k \in 0 .. n - 1, k \in T PROVE k + 1 \in T
  <2> PICK q : q = k + 1
    OBVIOUS
  <2>1. /\ q \in 1 .. n /\ q \in 0 .. n /\ s[q] \in Seq(Nat)
        /\ q - 1 = k /\ (q = 1 <=> k = 0)
    OBVIOUS
  <2>2. f[q] = IF q = 1 THEN s[1] ELSE f[q - 1] \o s[q]
    BY <2>1
  <2>3. f[q] \in Seq(Nat)
    <3>1. CASE k = 0
      BY <2>1, <2>2, <3>1
    <3>2. CASE k # 0
      <4>1. f[k] \in Seq(Nat)
        BY <3>2, <1>2
      <4>2. f[k] \o s[q] \in Seq(Nat)
        BY <2>1, <4>1
      <4>3. f[q] = f[k] \o s[q]
        BY <2>1, <2>2, <3>2
      <4> QED BY <4>2, <4>3
    <3> QED BY <3>1, <3>2
  <2>4. q \in T
    BY <2>1, <2>3
  <2> QED BY <2>4
<1>3. ASSUME NEW k \in 1 .. n, k \in T PROVE f[k] \in Seq(Nat)
  BY <1>3
<1> HIDE DEF T
<1>4. \A k \in 0 .. n : k \in T
  BY <1>1, <1>2, InductionUpTo
<1>5. \A k \in 1 .. n : f[k] \in Seq(Nat)
  BY <1>3, <1>4
<1>6. f \in [1 .. n -> Seq(Nat)]
  BY <1>5
<1> QED BY <1>6 DEF Joined, JoinedTo

\* What FlattenSeq() returns.
LEMMA FlattenIsJoined ==
  ASSUME NEW n \in Nat \ {0}, NEW s \in [1 .. n -> Seq(Nat)]
  PROVE  \E f : Joined(s, n, f) /\ FlattenSeq(s) = f[n]
<1> DEFINE Body(g) == [j \in 1 .. Len(s) |->
                         IF j = 1 THEN s[j] ELSE g[j - 1] \o s[j]]
           f == CHOOSE g : g = Body(g)
<1>1. Len(s) = n /\ Len(s) # 0
  BY LenProperties
<1>2. FlattenSeq(s) = f[Len(s)]
  BY <1>1, Zenon DEF FlattenSeq
<1>3. \E g : g = Body(g)
  <2>1. PICK g : Joined(s, n, g)
    BY JoinedExists
  <2>2. g = Body(g)
    BY <2>1, <1>1 DEF Joined, JoinedTo
  <2> QED BY <2>2
<1> HIDE DEF f
<1>4. f = Body(f)
  BY <1>3, Zenon DEF f
<1> PICK h : h = f
  OBVIOUS
<1>5. h = [j \in 1 .. n |-> IF j = 1 THEN s[j] ELSE f[j - 1] \o s[j]]
  BY <1>1, <1>4
<1>6. /\ h = [j \in 1 .. n |-> h[j]]
      /\ \A k \in 1 .. n : h[k] = IF k = 1 THEN s[1] ELSE h[k - 1] \o s[k]
  BY <1>5
<1>7. Joined(s, n, h)
  BY <1>6, RecursionIsJoined
<1> QED BY <1>1, <1>2, <1>7

\* Concatenation is associative.
LEMMA NatConcat == ASSUME NEW a \in Seq(Nat), NEW x \in Seq(Nat), NEW y \in Seq(Nat)
  PROVE (a \o x) \o y = a \o (x \o y)
BY ConcatAssociative, SMTT(30)

\* One turn of the recursion.
LEMMA JoinedStep ==
  ASSUME NEW n \in Nat \ {0}, NEW s \in [1 .. n -> Seq(Nat)], NEW f, Joined(s, n, f),
         NEW k \in 2 .. n
  PROVE  f[k] = f[k - 1] \o s[k] /\ f[k - 1] \in Seq(Nat) /\ s[k] \in Seq(Nat)
<1>1. /\ f \in [1 .. n -> Seq(Nat)]
      /\ \A j \in 1 .. n : f[j] = IF j = 1 THEN s[1] ELSE f[j - 1] \o s[j]
  BY DEF Joined, JoinedTo
<1>2. k \in 1 .. n /\ k # 1 /\ k - 1 \in 1 .. n
  OBVIOUS
<1> QED BY <1>2, <1>1

\* f is g after a, or the same as g, at k; s and t are the same from k + 1 to m.
LongerBy(a, f, g, k) == f[k] = a \o g[k]
Equal(f, g, k) == f[k] = g[k]
Agree(s, t, k, m) == \A j \in k + 1 .. m : s[j] = t[j]

\* One turn for two joins that differ by what they begin with.
LEMMA LongerNext ==
  ASSUME NEW n \in Nat \ {0}, NEW s \in [1 .. n -> Seq(Nat)],
         NEW t \in [1 .. n -> Seq(Nat)], NEW f, NEW g, Joined(s, n, f), Joined(t, n, g),
         NEW a \in Seq(Nat), NEW p \in 1 .. n - 1,
         LongerBy(a, f, g, p), s[p + 1] = t[p + 1]
  PROVE  LongerBy(a, f, g, p + 1)
<1> PICK q : q = p + 1
  OBVIOUS
<1>1. q \in 2 .. n /\ q \in 1 .. n /\ q # 1 /\ q - 1 = p /\ p \in 1 .. n /\ s[q] = t[q]
  OBVIOUS
<1>2. /\ f \in [1 .. n -> Seq(Nat)] /\ g \in [1 .. n -> Seq(Nat)]
      /\ \A j \in 1 .. n : f[j] = IF j = 1 THEN s[1] ELSE f[j - 1] \o s[j]
      /\ \A j \in 1 .. n : g[j] = IF j = 1 THEN t[1] ELSE g[j - 1] \o t[j]
  BY DEF Joined, JoinedTo
<1>3. f[q] = f[p] \o s[q] /\ g[q] = g[p] \o t[q]
  <2>1. f[q] = IF q = 1 THEN s[1] ELSE f[q - 1] \o s[q]
    BY <1>1, <1>2
  <2>2. g[q] = IF q = 1 THEN t[1] ELSE g[q - 1] \o t[q]
    BY <1>1, <1>2
  <2> QED BY <1>1, <2>1, <2>2
<1>4. g[p] \in Seq(Nat) /\ t[q] \in Seq(Nat)
  BY <1>1, <1>2
<1>5. (a \o g[p]) \o t[q] = a \o (g[p] \o t[q])
  BY <1>4, NatConcat
<1>6. f[p] = a \o g[p]
  BY DEF LongerBy
<1>7. f[q] = a \o g[q]
  BY <1>1, <1>3, <1>5, <1>6
<1> QED BY <1>7 DEF LongerBy

\* Sequences that are the same after k give joins that differ as at k.
LEMMA JoinedAbove ==
  ASSUME NEW n \in Nat \ {0}, NEW s \in [1 .. n -> Seq(Nat)],
         NEW t \in [1 .. n -> Seq(Nat)], NEW f, NEW g, Joined(s, n, f), Joined(t, n, g),
         NEW a \in Seq(Nat), NEW k \in 1 .. n, NEW m \in 1 .. n, k <= m,
         LongerBy(a, f, g, k), Agree(s, t, k, m)
  PROVE  LongerBy(a, f, g, m)
<1> DEFINE T == {p \in 0 .. m : p >= k => LongerBy(a, f, g, p)}
<1>1. \A p \in 1 .. n - 1 :
         LongerBy(a, f, g, p) /\ s[p + 1] = t[p + 1] => LongerBy(a, f, g, p + 1)
  BY LongerNext
<1>2. \A p \in k .. m - 1 : s[p + 1] = t[p + 1]
  BY DEF Agree
<1>3. 0 \in T
  OBVIOUS
<1>4. ASSUME NEW p \in 0 .. m - 1, p \in T PROVE p + 1 \in T
  <2>1. p + 1 \in 0 .. m
    OBVIOUS
  <2>2. CASE p + 1 < k
    BY <2>1, <2>2
  <2>3. CASE p + 1 = k
    BY <2>1, <2>3
  <2>4. CASE p >= k
    BY <1>1, <1>2, <1>4, <2>1, <2>4
  <2> QED BY <2>2, <2>3, <2>4
<1>5. ASSUME m \in T PROVE LongerBy(a, f, g, m)
  BY <1>5
<1> HIDE DEF T
<1>6. m \in Nat /\ m \in 0 .. m
  OBVIOUS
<1>7. \A p \in 0 .. m : p \in T
  BY <1>3, <1>4, <1>6, InductionUpTo
<1> QED BY <1>5, <1>6, <1>7

\* A sequence of numbers with the empty one.
LEMMA EmptyJoins ==
  ASSUME NEW x \in Seq(Nat)
  PROVE  x \o <<>> = x /\ <<>> \o x = x /\ <<>> \in Seq(Nat)
  BY ConcatEmptySeq

\* Joins that are equal at k are equal at m.
LEMMA EqualAbove ==
  ASSUME NEW n \in Nat \ {0}, NEW s \in [1 .. n -> Seq(Nat)],
         NEW t \in [1 .. n -> Seq(Nat)], NEW f, NEW g, Joined(s, n, f), Joined(t, n, g),
         NEW k \in 1 .. n, NEW m \in 1 .. n, k <= m, Equal(f, g, k), Agree(s, t, k, m)
  PROVE  Equal(f, g, m)
<1>1. g[k] \in Seq(Nat) /\ g[m] \in Seq(Nat)
  BY DEF Joined, JoinedTo
<1>2. ASSUME NEW a \in Seq(Nat), LongerBy(a, f, g, k) PROVE LongerBy(a, f, g, m)
  BY <1>2, JoinedAbove
<1>3. LongerBy(<<>>, f, g, k) /\ <<>> \in Seq(Nat)
  BY <1>1, EmptyJoins DEF LongerBy, Equal
<1>4. LongerBy(<<>>, f, g, m)
  BY <1>2, <1>3
<1> QED BY <1>1, <1>4, EmptyJoins DEF LongerBy, Equal

\* They are equal where the sequences are.
LEMMA EqualBelow ==
  ASSUME NEW n \in Nat \ {0}, NEW s \in [1 .. n -> Seq(Nat)],
         NEW t \in [1 .. n -> Seq(Nat)], NEW f, NEW g, Joined(s, n, f), Joined(t, n, g),
         NEW m \in 1 .. n, Agree(s, t, 0, m)
  PROVE  Equal(f, g, m)
<1>1. Equal(f, g, 1)
  <2>1. f[1] = s[1] /\ g[1] = t[1]
    BY DEF Joined, JoinedTo
  <2>2. s[1] = t[1]
    BY DEF Agree
  <2> QED BY <2>1, <2>2 DEF Equal
<1>2. Agree(s, t, 1, m)
  BY DEF Agree
<1>3. 1 \in 1 .. n /\ 1 <= m
  OBVIOUS
<1>4. ASSUME NEW k \in 1 .. n, k <= m, Equal(f, g, k), Agree(s, t, k, m)
      PROVE  Equal(f, g, m)
  BY <1>4, EqualAbove
<1> QED BY <1>1, <1>2, <1>3, <1>4

\* The files read as one are a sequence of numbers.
LEMMA FlattenType ==
  ASSUME NEW n \in Nat \ {0}, NEW s \in [1 .. n -> Seq(Nat)]
  PROVE  FlattenSeq(s) \in Seq(Nat)
<1>1. PICK f : Joined(s, n, f) /\ FlattenSeq(s) = f[n]
  BY FlattenIsJoined
<1> QED BY <1>1 DEF Joined, JoinedTo

\* Nothing but empty files is nothing.
LEMMA FlattenEmpty ==
  ASSUME NEW n \in Nat \ {0}, NEW s \in [1 .. n -> Seq(Nat)],
         \A k \in 1 .. n : s[k] = <<>>
  PROVE  FlattenSeq(s) = <<>>
<1>1. PICK f : Joined(s, n, f) /\ FlattenSeq(s) = f[n]
  BY FlattenIsJoined
<1>2. \A j \in 1 .. n : f[j] = IF j = 1 THEN s[1] ELSE f[j - 1] \o s[j]
  BY <1>1 DEF Joined, JoinedTo
<1>e. <<>> \o <<>> = <<>>
  BY EmptyJoins
<1> DEFINE T == {k \in 0 .. n : k # 0 => f[k] = <<>>}
<1>3. 0 \in T
  OBVIOUS
<1>4. ASSUME NEW k \in 0 .. n - 1, k \in T PROVE k + 1 \in T
  <2> PICK q : q = k + 1
    OBVIOUS
  <2>1. q \in 1 .. n /\ q \in 0 .. n /\ q - 1 = k /\ (q = 1 <=> k = 0) /\ s[q] = <<>>
    OBVIOUS
  <2>2. f[q] = IF q = 1 THEN s[1] ELSE f[q - 1] \o s[q]
    BY <1>2, <2>1
  <2>3. f[q] = <<>>
    BY <1>e, <1>4, <2>1, <2>2
  <2>4. q \in T
    BY <2>1, <2>3
  <2> QED BY <2>4
<1>5. ASSUME n \in T PROVE f[n] = <<>>
  BY <1>5
<1> HIDE DEF T
<1>6. n \in Nat /\ n \in 0 .. n
  OBVIOUS
<1>7. \A k \in 0 .. n : k \in T
  BY <1>3, <1>4, <1>6, InductionUpTo
<1> QED BY <1>1, <1>5, <1>6, <1>7

\* Without the oldest file its messages are missing at the start.
LEMMA FlattenDrop ==
  ASSUME NEW n \in Nat \ {0}, NEW s \in [1 .. n -> Seq(Nat)],
         NEW t \in [1 .. n -> Seq(Nat)], t[1] = <<>>, Agree(s, t, 1, n)
  PROVE  FlattenSeq(s) = s[1] \o FlattenSeq(t)
<1>1. PICK f : Joined(s, n, f) /\ FlattenSeq(s) = f[n]
  BY FlattenIsJoined
<1>2. PICK g : Joined(t, n, g) /\ FlattenSeq(t) = g[n]
  BY FlattenIsJoined
<1>3. f[1] = s[1] /\ g[1] = t[1] /\ s[1] \in Seq(Nat)
  BY <1>1, <1>2 DEF Joined, JoinedTo
<1>4. LongerBy(s[1], f, g, 1)
  BY <1>3, EmptyJoins DEF LongerBy
<1>5. ASSUME NEW a \in Seq(Nat), NEW k \in 1 .. n, k <= n, LongerBy(a, f, g, k),
             Agree(s, t, k, n)
      PROVE  LongerBy(a, f, g, n)
  <2>1. n \in 1 .. n
    OBVIOUS
  <2> QED BY <1>1, <1>2, <1>5, <2>1, JoinedAbove
<1>6. 1 \in 1 .. n /\ 1 <= n
  OBVIOUS
<1>7. LongerBy(s[1], f, g, n)
  BY <1>3, <1>4, <1>5, <1>6
<1> QED BY <1>1, <1>2, <1>7 DEF LongerBy

\* In t the file at k + 1 of s is at k, which is free in s.
MovedTo(s, t, n, k) ==
  /\ s[k] = <<>> /\ t[k] = s[k + 1] /\ t[k + 1] = <<>>
  /\ \A j \in 1 .. n : j # k /\ j # k + 1 => s[j] = t[j]

\* A file that takes the free name before it changes nothing.
LEMMA FlattenMove ==
  ASSUME NEW n \in Nat \ {0}, NEW s \in [1 .. n -> Seq(Nat)],
         NEW t \in [1 .. n -> Seq(Nat)], NEW k \in 1 .. n - 1, MovedTo(s, t, n, k)
  PROVE  FlattenSeq(s) = FlattenSeq(t)
<1> SUFFICES ASSUME NEW m \in 1 .. n, m = k + 1,
                    s[k] = <<>>, t[k] = s[m], t[m] = <<>>,
                    \A j \in 1 .. n : j # k /\ j # m => s[j] = t[j]
             PROVE  FlattenSeq(s) = FlattenSeq(t)
  BY DEF MovedTo
<1>k. k \in 1 .. n
  OBVIOUS
<1>1. PICK f : Joined(s, n, f) /\ FlattenSeq(s) = f[n]
  BY FlattenIsJoined
<1>2. PICK g : Joined(t, n, g) /\ FlattenSeq(t) = g[n]
  BY FlattenIsJoined
<1>3. /\ f \in [1 .. n -> Seq(Nat)] /\ g \in [1 .. n -> Seq(Nat)]
      /\ \A j \in 1 .. n : f[j] = IF j = 1 THEN s[1] ELSE f[j - 1] \o s[j]
      /\ \A j \in 1 .. n : g[j] = IF j = 1 THEN t[1] ELSE g[j - 1] \o t[j]
  BY <1>1, <1>2 DEF Joined, JoinedTo
<1>4. f[m] = f[k] \o s[m] /\ g[m] = g[k] \o <<>>
  <2>1. m # 1 /\ m - 1 = k
    OBVIOUS
  <2>2. f[m] = IF m = 1 THEN s[1] ELSE f[m - 1] \o s[m]
    BY <1>3
  <2>3. g[m] = IF m = 1 THEN t[1] ELSE g[m - 1] \o t[m]
    BY <1>3
  <2> QED BY <2>1, <2>2, <2>3
<1>5. g[k] \in Seq(Nat) /\ s[m] \in Seq(Nat)
  BY <1>3
<1>a. ASSUME NEW q \in 1 .. n, NEW r \in 1 .. n, q <= r, Equal(f, g, q), Agree(s, t, q, r)
      PROVE  Equal(f, g, r)
  BY <1>1, <1>2, <1>a, EqualAbove
<1>b. ASSUME NEW q \in 1 .. n, Agree(s, t, 0, q) PROVE Equal(f, g, q)
  BY <1>1, <1>2, <1>b, EqualBelow
<1>6. f[m] = g[m]
  <2>1. f[k] = IF k = 1 THEN s[1] ELSE f[k - 1] \o s[k]
    BY <1>3, <1>k
  <2>2. g[k] = IF k = 1 THEN t[1] ELSE g[k - 1] \o t[k]
    BY <1>3, <1>k
  <2>3. CASE k = 1
    <3>1. f[k] = <<>> /\ g[k] = s[m]
      BY <2>1, <2>2, <2>3
    <3> QED BY <1>4, <1>5, <3>1, EmptyJoins
  <2>4. CASE k # 1
    <3> PICK p : p = k - 1
      OBVIOUS
    <3>1. p \in 1 .. n /\ Agree(s, t, 0, p)
      <4>1. p \in 1 .. n
        BY <2>4
      <4>2. p < k /\ k < m /\ m <= n
        OBVIOUS
      <4>3. \A j \in 0 + 1 .. p : j \in 1 .. n /\ j <= p
        BY <4>1
      <4>4. \A j \in 0 + 1 .. p : j # k /\ j # m
        BY <4>1, <4>2, <4>3
      <4> QED BY <4>1, <4>3, <4>4 DEF Agree
    <3>2. Equal(f, g, p)
      BY <1>b, <3>1
    <3>3. f[p] = g[p] /\ g[p] \in Seq(Nat)
      BY <1>3, <3>1, <3>2 DEF Equal
    <3>4. f[k] = f[p] /\ g[k] = g[p] \o s[m]
      BY <1>3, <2>1, <2>2, <2>4, <3>3, EmptyJoins
    <3> QED BY <1>4, <1>5, <3>3, <3>4, EmptyJoins
  <2> QED BY <2>3, <2>4
<1>7. Agree(s, t, m, n) /\ n \in 1 .. n /\ m <= n
  BY DEF Agree
<1>8. Equal(f, g, m)
  BY <1>6 DEF Equal
<1>9. Equal(f, g, n)
  BY <1>a, <1>7, <1>8
<1> QED BY <1>1, <1>2, <1>9 DEF Equal

\* A message after two sequences.
LEMMA AppendToBoth ==
  ASSUME NEW a \in Seq(Nat), NEW b \in Seq(Nat), NEW x \in Nat
  PROVE  a \o Append(b, x) = Append(a \o b, x)
<1>1. Append(b, x) = b \o <<x>>
  BY AppendIsConcat
<1>3. a \o b \in Seq(Nat) /\ <<x>> \in Seq(Nat)
  OBVIOUS
<1>4. ASSUME NEW c \in Seq(Nat) PROVE Append(c, x) = c \o <<x>>
  BY <1>4, AppendIsConcat
<1>5. Append(a \o b, x) = (a \o b) \o <<x>>
  BY <1>3, <1>4
<1>2. ASSUME NEW y \in Seq(Nat) PROVE (a \o b) \o y = a \o (b \o y)
  BY <1>2, NatConcat
<1> QED BY <1>1, <1>2, <1>3, <1>5

\* A message at the end of the newest file is the last one.
LEMMA FlattenLast ==
  ASSUME NEW n \in Nat \ {0, 1}, NEW s \in [1 .. n -> Seq(Nat)],
         NEW t \in [1 .. n -> Seq(Nat)], NEW x \in Nat, t[n] = Append(s[n], x),
         \A j \in 1 .. n - 1 : s[j] = t[j]
  PROVE  FlattenSeq(t) = Append(FlattenSeq(s), x)
<1>1. PICK f : Joined(s, n, f) /\ FlattenSeq(s) = f[n]
  BY FlattenIsJoined
<1>2. PICK g : Joined(t, n, g) /\ FlattenSeq(t) = g[n]
  BY FlattenIsJoined
<1>3. /\ f \in [1 .. n -> Seq(Nat)] /\ g \in [1 .. n -> Seq(Nat)]
      /\ \A j \in 1 .. n : f[j] = IF j = 1 THEN s[1] ELSE f[j - 1] \o s[j]
      /\ \A j \in 1 .. n : g[j] = IF j = 1 THEN t[1] ELSE g[j - 1] \o t[j]
  BY <1>1, <1>2 DEF Joined, JoinedTo
<1> PICK p : p = n - 1
  OBVIOUS
<1>4. p \in 1 .. n /\ n \in 1 .. n /\ Agree(s, t, 0, p)
  BY DEF Agree
<1>b. ASSUME NEW q \in 1 .. n, Agree(s, t, 0, q) PROVE Equal(f, g, q)
  BY <1>1, <1>2, <1>b, EqualBelow
<1>5. Equal(f, g, p)
  BY <1>b, <1>4
<1>6. f[p] = g[p] /\ g[p] \in Seq(Nat) /\ s[n] \in Seq(Nat)
  BY <1>3, <1>4, <1>5 DEF Equal
<1>7. f[n] = f[p] \o s[n] /\ g[n] = g[p] \o t[n]
  <2>1. f[n] = IF n = 1 THEN s[1] ELSE f[n - 1] \o s[n]
    BY <1>3, <1>4
  <2>2. g[n] = IF n = 1 THEN t[1] ELSE g[n - 1] \o t[n]
    BY <1>3, <1>4
  <2> QED BY <2>1, <2>2
<1>8. ASSUME NEW a \in Seq(Nat), NEW b \in Seq(Nat)
      PROVE  a \o Append(b, x) = Append(a \o b, x)
  BY <1>8, AppendToBoth
<1>9. g[n] = Append(f[n], x)
  <2>1. f[p] \in Seq(Nat) /\ t[n] = Append(s[n], x)
    BY <1>6
  <2>2. f[p] \o Append(s[n], x) = Append(f[p] \o s[n], x)
    BY <1>6, <1>8, <2>1
  <2> QED BY <1>6, <1>7, <2>1, <2>2
<1> QED BY <1>1, <1>2, <1>9

----------------------------------------------------------------------------
(* The files as one window on the messages *)

\* The messages of file n, none when it does not exist.
Content(fs, n) == IF n \in DOMAIN fs THEN fs[n] ELSE <<>>

\* The files from the oldest name to http.log; name n is the place l + 1 - n.
Slots(fs, l) == [k \in 1 .. l + 2 |-> Content(fs, l + 1 - k)]

LEMMA KeptIsSlots == Kept = FlattenSeq(Slots(files, logArchiveCount))
  BY DEF Kept, Slots, Content

\* The files hold numbers of messages.
Numbered(fs) == \A n : Content(fs, n) \in Seq(Nat)

LEMMA FilesAreNumbered ==
  ASSUME NEW fs, NEW w \in Nat, FilesOK(fs, w)
  PROVE  Numbered(fs)
<1>1. \A n \in DOMAIN fs : fs[n] \in Seq(1 .. w)
  BY DEF FilesOK
<1>2. \A n \in DOMAIN fs : fs[n] \in Seq(Nat)
  BY <1>1
<1>3. <<>> \in Seq(Nat)
  OBVIOUS
<1> QED BY <1>2, <1>3 DEF Numbered, Content

LEMMA SlotsType ==
  ASSUME NEW fs, NEW l \in Nat, Numbered(fs)
  PROVE  /\ Slots(fs, l) \in [1 .. l + 2 -> Seq(Nat)]
         /\ \A k \in 1 .. l + 2 : Slots(fs, l)[k] = Content(fs, l + 1 - k)
<1>1. \A k \in 1 .. l + 2 : Content(fs, l + 1 - k) \in Seq(Nat)
  BY DEF Numbered
<1> HIDE DEF Content
<1> QED BY <1>1 DEF Slots

\* Files with the same messages under each name are read as the same.
LEMMA SameContent ==
  ASSUME NEW fs, NEW gs, NEW l, \A n : Content(gs, n) = Content(fs, n)
  PROVE  Slots(gs, l) = Slots(fs, l)
  BY DEF Slots

\* A file that moves up by one to a free name is read as before.
LEMMA MovedUp ==
  ASSUME NEW fs, NEW gs, NEW l \in Nat, NEW n \in -1 .. l - 1, NEW to \in 0 .. l,
         to = n + 1, Numbered(fs), Numbered(gs),
         Content(fs, to) = <<>>, Content(gs, to) = Content(fs, n), Content(gs, n) = <<>>,
         \A m \in Int : m # n /\ m # to => Content(fs, m) = Content(gs, m)
  PROVE  FlattenSeq(Slots(fs, l)) = FlattenSeq(Slots(gs, l))
<1> HIDE DEF Content, Slots
<1>1. /\ Slots(fs, l) \in [1 .. l + 2 -> Seq(Nat)]
      /\ \A k \in 1 .. l + 2 : Slots(fs, l)[k] = Content(fs, l + 1 - k)
  BY SlotsType
<1>2. /\ Slots(gs, l) \in [1 .. l + 2 -> Seq(Nat)]
      /\ \A k \in 1 .. l + 2 : Slots(gs, l)[k] = Content(gs, l + 1 - k)
  BY SlotsType
<1>3. /\ l + 2 \in Nat \ {0} /\ l + 1 - to \in 1 .. l + 2 /\ l + 1 - n \in 1 .. l + 2
      /\ l + 1 - n = (l + 1 - to) + 1
      /\ l + 1 - (l + 1 - to) = to /\ l + 1 - (l + 1 - n) = n
  OBVIOUS
<1>4. /\ Slots(fs, l)[l + 1 - to] = <<>>
      /\ Slots(gs, l)[l + 1 - to] = Slots(fs, l)[l + 1 - n]
      /\ Slots(gs, l)[l + 1 - n] = <<>>
  BY <1>1, <1>2, <1>3
<1>5. ASSUME NEW j \in 1 .. l + 2, j # l + 1 - to, j # l + 1 - n
      PROVE  Slots(fs, l)[j] = Slots(gs, l)[j]
  <2>1. l + 1 - j \in Int /\ l + 1 - j # n /\ l + 1 - j # to
    BY <1>5
  <2>2. Content(fs, l + 1 - j) = Content(gs, l + 1 - j)
    BY <2>1
  <2> QED BY <1>1, <1>2, <2>2
<1> PICK k : k = l + 1 - to
  OBVIOUS
<1>6. MovedTo(Slots(fs, l), Slots(gs, l), l + 2, k)
  BY <1>3, <1>4, <1>5 DEF MovedTo
<1>7. k \in 1 .. (l + 2) - 1
  OBVIOUS
<1>8. ASSUME NEW N \in Nat \ {0}, NEW s \in [1 .. N -> Seq(Nat)],
             NEW t \in [1 .. N -> Seq(Nat)], NEW q \in 1 .. N - 1, MovedTo(s, t, N, q)
      PROVE  FlattenSeq(s) = FlattenSeq(t)
  BY <1>8, FlattenMove
<1> HIDE DEF MovedTo
<1> QED BY <1>1, <1>2, <1>3, <1>6, <1>7, <1>8

\* A rename() of the model moves a file's messages to the other name.
LEMMA RenameContent ==
  ASSUME NEW n \in DOMAIN files, NEW to, to \notin DOMAIN files, n # to
  PROVE  /\ Content(rename(n, to), to) = Content(files, n)
         /\ Content(rename(n, to), n) = <<>> /\ Content(files, to) = <<>>
         /\ \A m : m # n /\ m # to => Content(rename(n, to), m) = Content(files, m)
  BY DEF rename, Content

\* A rename() by one name up is not seen by the reader.
LEMMA RenameKeeps ==
  ASSUME FilesOK(files, written), written \in Nat, NEW l \in Nat,
         NEW n \in -1 .. l - 1, NEW to \in 0 .. l, to = n + 1,
         to \in Names, to \notin DOMAIN files
  PROVE  FlattenSeq(Slots(rename(n, to), l)) = FlattenSeq(Slots(files, l))
<1>1. CASE n \notin DOMAIN files
  BY <1>1 DEF rename
<1>2. CASE n \in DOMAIN files
  <2>1. FilesOK(rename(n, to), written)
    BY RenameFacts
  <2>2. Numbered(files) /\ Numbered(rename(n, to))
    BY <2>1, FilesAreNumbered
  <2>3. n # to
    OBVIOUS
  <2> PICK gs : gs = rename(n, to)
    OBVIOUS
  <2>4. /\ Content(gs, to) = Content(files, n)
        /\ Content(gs, n) = <<>> /\ Content(files, to) = <<>>
        /\ \A m : m # n /\ m # to => Content(gs, m) = Content(files, m)
    BY <1>2, <2>3, RenameContent
  <2>5. FlattenSeq(Slots(files, l)) = FlattenSeq(Slots(gs, l))
    BY <2>2, <2>4, MovedUp
  <2> QED BY <2>5
<1> QED BY <1>1, <1>2

\* With archives there is never a file of the name http.log.0.
NoZero == logArchiveCount > 0 => 0 \notin DOMAIN files

\* The rename() of http.log is not seen either: to .0, and to .1 across that name.
LEMMA RenameLogKeeps ==
  ASSUME FilesOK(files, written), written \in Nat, logArchiveCount \in 0 .. MaxArchiveCount,
         NoZero, NewestArchive \notin DOMAIN files
  PROVE  FlattenSeq(Slots(rename(LogFile, NewestArchive), logArchiveCount))
           = FlattenSeq(Slots(files, logArchiveCount))
<1>n. logArchiveCount \in Nat /\ 0 \in Names
  BY BoundsAssumption DEF Names
<1>1. CASE LogFile \notin DOMAIN files
  BY <1>1 DEF rename
<1>2. CASE LogFile \in DOMAIN files /\ logArchiveCount = 0
  BY <1>2, <1>n, RenameKeeps DEF NewestArchive, LogFile
<1>3. CASE LogFile \in DOMAIN files /\ logArchiveCount # 0
  <2> PICK l \in Nat \ {0} : l = logArchiveCount
    BY <1>n, <1>3
  <2>1. NewestArchive = 1 /\ 1 \in Names /\ 0 \notin DOMAIN files /\ LogFile = -1
    BY <1>n, <1>3, BoundsAssumption DEF NewestArchive, NoZero, Names, LogFile
  <2> PICK hs : hs = rename(LogFile, 0)
    OBVIOUS
  <2> PICK gs : gs = rename(LogFile, 1)
    OBVIOUS
  <2>2. Numbered(files) /\ Numbered(hs) /\ Numbered(gs)
    BY <1>n, <2>1, RenameFacts, FilesAreNumbered
  <2>3. /\ Content(hs, 0) = Content(files, -1) /\ Content(hs, -1) = <<>>
        /\ \A m : m # -1 /\ m # 0 => Content(hs, m) = Content(files, m)
    BY <1>3, <2>1, RenameContent
  <2>4. /\ Content(gs, 1) = Content(files, -1) /\ Content(gs, -1) = <<>>
        /\ Content(files, 1) = <<>> /\ Content(files, 0) = <<>>
        /\ \A m : m # -1 /\ m # 1 => Content(gs, m) = Content(files, m)
    BY <1>3, <2>1, RenameContent DEF Content
  <2>5. FlattenSeq(Slots(hs, l)) = FlattenSeq(Slots(files, l))
    BY <1>n, <2>1, RenameKeeps
  <2>6. FlattenSeq(Slots(hs, l)) = FlattenSeq(Slots(gs, l))
    <3>1. 0 \in -1 .. l - 1 /\ 1 \in 0 .. l /\ 1 = 0 + 1
      OBVIOUS
    <3>2. /\ Content(hs, 1) = <<>> /\ Content(gs, 1) = Content(hs, 0)
          /\ Content(gs, 0) = <<>>
      BY <2>3, <2>4
    <3>3. \A m \in Int : m # 0 /\ m # 1 => Content(hs, m) = Content(gs, m)
      BY <2>3, <2>4
    <3> QED BY <2>2, <3>1, <3>2, <3>3, MovedUp
  <2> QED BY <2>1, <2>5, <2>6
<1> QED BY <1>1, <1>2, <1>3

\* remove() of the oldest file loses its messages, the first ones.
LEMMA RemoveLoses ==
  ASSUME FilesOK(files, written), written \in Nat, NEW l \in Nat
  PROVE  /\ Content(files, l) \in Seq(Nat)
         /\ FlattenSeq(Slots(remove(l), l)) \in Seq(Nat)
         /\ FlattenSeq(Slots(files, l))
              = Content(files, l) \o FlattenSeq(Slots(remove(l), l))
<1> PICK gs : gs = remove(l)
  OBVIOUS
<1>1. FilesOK(gs, written) /\ Numbered(files) /\ Numbered(gs)
  BY RemoveFacts, FilesAreNumbered
<1>2. Content(gs, l) = <<>> /\ \A m : m # l => Content(gs, m) = Content(files, m)
  BY DEF remove, Content
<1>3. /\ Slots(files, l) \in [1 .. l + 2 -> Seq(Nat)]
      /\ \A k \in 1 .. l + 2 : Slots(files, l)[k] = Content(files, l + 1 - k)
  BY <1>1, SlotsType
<1>4. /\ Slots(gs, l) \in [1 .. l + 2 -> Seq(Nat)]
      /\ \A k \in 1 .. l + 2 : Slots(gs, l)[k] = Content(gs, l + 1 - k)
  BY <1>1, SlotsType
<1>5. 1 \in 1 .. l + 2 /\ l + 1 - 1 = l /\ l + 2 \in Nat \ {0}
  OBVIOUS
<1>6. Slots(files, l)[1] = Content(files, l) /\ Slots(gs, l)[1] = <<>>
  BY <1>2, <1>3, <1>4, <1>5
<1>7. Agree(Slots(files, l), Slots(gs, l), 1, l + 2)
  <2>1. ASSUME NEW j \in 1 + 1 .. l + 2 PROVE Slots(files, l)[j] = Slots(gs, l)[j]
    <3>1. j \in 1 .. l + 2 /\ l + 1 - j # l
      OBVIOUS
    <3> QED BY <1>2, <1>3, <1>4, <3>1
  <2> QED BY <2>1 DEF Agree
<1>8. FlattenSeq(Slots(files, l)) = Slots(files, l)[1] \o FlattenSeq(Slots(gs, l))
  <2>1. ASSUME NEW N \in Nat \ {0}, NEW s \in [1 .. N -> Seq(Nat)],
               NEW t \in [1 .. N -> Seq(Nat)], t[1] = <<>>, Agree(s, t, 1, N)
        PROVE  FlattenSeq(s) = s[1] \o FlattenSeq(t)
    BY <2>1, FlattenDrop
  <2> QED BY <1>3, <1>4, <1>5, <1>6, <1>7, <2>1
<1>9. FlattenSeq(Slots(gs, l)) \in Seq(Nat)
  BY <1>4, <1>5, FlattenType
<1> QED BY <1>1, <1>6, <1>8, <1>9 DEF Numbered

\* What is left of a sequence whose start is lost.
LEMMA LostStart ==
  ASSUME NEW a \in Seq(Nat), NEW b \in Seq(Nat), a # <<>>
  PROVE  \E n \in 2 .. Len(a \o b) + 1 : b = SubSeq(a \o b, n, Len(a \o b))
<1>1. /\ Len(a) \in Nat \ {0} /\ Len(b) \in Nat /\ Len(a \o b) = Len(a) + Len(b)
      /\ a \o b \in Seq(Nat)
  BY EmptySeq
<1> PICK n : n = Len(a) + 1
  OBVIOUS
<1>2. n \in 2 .. Len(a \o b) + 1
  BY <1>1
<1> PICK c : c = SubSeq(a \o b, n, Len(a \o b))
  OBVIOUS
<1>3. /\ c \in Seq(Nat) /\ Len(c) = Len(b)
      /\ \A k \in 1 .. Len(b) : c[k] = (a \o b)[n + k - 1]
  <2> PICK ab : ab = a \o b
    OBVIOUS
  <2>1. /\ ab \in Seq(Nat) /\ n \in Int /\ Len(ab) \in Int /\ n <= Len(ab) + 1
        /\ Len(ab) - n + 1 = Len(b) /\ Len(b) \in Nat
    BY <1>1, <1>2
  <2>2. \A k \in n .. Len(ab) : ab[k] \in Nat
    BY <1>1, <2>1
  <2>3. /\ SubSeq(ab, n, Len(ab)) \in Seq(Nat)
        /\ Len(SubSeq(ab, n, Len(ab))) = IF n <= Len(ab) THEN Len(ab) - n + 1 ELSE 0
        /\ \A k \in 1 .. Len(ab) - n + 1 : SubSeq(ab, n, Len(ab))[k] = ab[n + k - 1]
    BY <2>1, <2>2, SubSeqProperties
  <2>4. Len(SubSeq(ab, n, Len(ab))) = Len(b)
    BY <2>1, <2>3
  <2> QED BY <2>1, <2>3, <2>4
<1>4. \A k \in 1 .. Len(b) : (a \o b)[n + k - 1] = b[k]
  BY <1>1
<1>5. c = b
  BY <1>3, <1>4, SeqEqual
<1> QED BY <1>2, <1>5

\* A message at the end of http.log is the last one read.
LEMMA WriteAppends ==
  ASSUME NEW fs, NEW gs, NEW l \in Nat, NEW x \in Nat, Numbered(fs), Numbered(gs),
         Content(gs, -1) = Append(Content(fs, -1), x),
         \A m \in Int : m # -1 => Content(fs, m) = Content(gs, m)
  PROVE  FlattenSeq(Slots(gs, l)) = Append(FlattenSeq(Slots(fs, l)), x)
<1>1. /\ Slots(fs, l) \in [1 .. l + 2 -> Seq(Nat)]
      /\ \A k \in 1 .. l + 2 : Slots(fs, l)[k] = Content(fs, l + 1 - k)
  BY SlotsType
<1>2. /\ Slots(gs, l) \in [1 .. l + 2 -> Seq(Nat)]
      /\ \A k \in 1 .. l + 2 : Slots(gs, l)[k] = Content(gs, l + 1 - k)
  BY SlotsType
<1>3. l + 2 \in Nat \ {0, 1} /\ l + 2 \in 1 .. l + 2 /\ l + 1 - (l + 2) = -1
  OBVIOUS
<1>4. Slots(gs, l)[l + 2] = Append(Slots(fs, l)[l + 2], x)
  BY <1>1, <1>2, <1>3
<1>5. ASSUME NEW j \in 1 .. (l + 2) - 1 PROVE Slots(fs, l)[j] = Slots(gs, l)[j]
  <2>1. j \in 1 .. l + 2 /\ l + 1 - j \in Int /\ l + 1 - j # -1
    OBVIOUS
  <2> QED BY <1>1, <1>2, <2>1
<1>6. ASSUME NEW N \in Nat \ {0, 1}, NEW s \in [1 .. N -> Seq(Nat)],
             NEW t \in [1 .. N -> Seq(Nat)], t[N] = Append(s[N], x),
             \A j \in 1 .. N - 1 : s[j] = t[j]
      PROVE  FlattenSeq(t) = Append(FlattenSeq(s), x)
  BY <1>6, FlattenLast
<1> QED BY <1>1, <1>2, <1>3, <1>4, <1>5, <1>6

\* No step makes a file http.log.0 of a log with archives.
LEMMA InitNoZero == Init => NoZero
  BY DEF Init, NoZero

LEMMA NextNoZero == IInv /\ NoZero /\ [Next]_vars => NoZero'
<1> SUFFICES ASSUME IInv, NoZero, [Next]_vars PROVE NoZero'
  OBVIOUS
<1>1. CASE RemoveOldest
  BY <1>1 DEF RemoveOldest, NoZero, remove, unchangedProcess
<1>2. CASE RenameNext
  BY <1>2 DEF RenameNext, NoZero, rename, unchangedProcess, IInv, TypeOK
<1>3. CASE RenameLog
  BY <1>3 DEF RenameLog, NoZero, rename, NewestArchive, unchangedProcess, IInv, TypeOK
<1>4. CASE Open
  BY <1>4 DEF Open, NoZero, create, LogFile, unchangedProcess
<1>5. CASE Write
  BY <1>5 DEF Write, NoZero
<1>6. CASE Close \/ Ftruncate \/ Mmap \/ OpenFileFails \/ Log \/ CheckRoom \/ Start \/ End
           \/ UNCHANGED vars
  <2>1. files' = files /\ logArchiveCount' = logArchiveCount
    BY <1>6 DEF Close, Ftruncate, Mmap, OpenFileFails, RotateFails, Log, CheckRoom,
                Start, End, unchangedProcess, vars
  <2> QED BY <2>1 DEF NoZero
<1> QED BY <1>1, <1>2, <1>3, <1>4, <1>5, <1>6 DEF Next, Rotate

LEMMA InitIsWindow == Init => Window!Init
<1> SUFFICES ASSUME Init PROVE Window!Init
  OBVIOUS
<1>1. logArchiveCount \in Nat /\ written = 0 /\ \A n : Content(files, n) = <<>>
  BY BoundsAssumption DEF Init, Content
<1>2. Numbered(files)
  <2>1. <<>> \in Seq(Nat)
    OBVIOUS
  <2> QED BY <1>1, <2>1 DEF Numbered
<1> PICK l \in Nat : l = logArchiveCount
  BY <1>1
<1>3. /\ Slots(files, l) \in [1 .. l + 2 -> Seq(Nat)] /\ l + 2 \in Nat \ {0}
      /\ \A k \in 1 .. l + 2 : Slots(files, l)[k] = <<>>
  BY <1>1, <1>2, SlotsType
<1>4. FlattenSeq(Slots(files, l)) = <<>>
  BY <1>3, FlattenEmpty
<1> QED BY <1>1, <1>4, KeptIsSlots DEF Window!Init

LEMMA NextIsWindow ==
  IInv /\ NoZero /\ [Next]_vars => [Window!Write \/ Window!Lose]_(Window!vars)
<1> SUFFICES ASSUME IInv, NoZero, [Next]_vars
             PROVE  Window!Write \/ Window!Lose \/ (Kept' = Kept /\ written' = written)
  BY DEF Window!vars
<1>t. /\ WritesInside /\ FileOpen /\ NameFree /\ FilesOK(files, written)
      /\ logArchiveCount \in 0 .. MaxArchiveCount /\ logArchiveCount \in Nat
      /\ i \in Int /\ written \in Nat
  BY BoundsAssumption DEF IInv, TypeOK, FilesOK
<1>k. Kept = FlattenSeq(Slots(files, logArchiveCount))
  BY KeptIsSlots
<1>l. Kept' = FlattenSeq(Slots(files', logArchiveCount'))
  BY DEF Kept, Slots, Content
<1>1. CASE RemoveOldest
  <2> PICK a : a = Content(files, logArchiveCount)
    OBVIOUS
  <2> PICK b : b = FlattenSeq(Slots(remove(logArchiveCount), logArchiveCount))
    OBVIOUS
  <2>1. a \in Seq(Nat) /\ b \in Seq(Nat) /\ Kept = a \o b
    BY <1>t, <1>k, RemoveLoses
  <2>2. Kept' = b /\ written' = written
    BY <1>1, <1>l DEF RemoveOldest, unchangedProcess
  <2>3. CASE a = <<>>
    BY <2>1, <2>2, <2>3, EmptyJoins
  <2>4. CASE a # <<>>
    <3>1. \E n \in 2 .. Len(a \o b) + 1 : b = SubSeq(a \o b, n, Len(a \o b))
      BY <2>1, <2>4, LostStart
    <3>2. Window!Lose
      BY <2>1, <2>2, <3>1 DEF Window!Lose
    <3> QED BY <3>2
  <2> QED BY <2>3, <2>4
<1>2. CASE RenameNext
  <2>1. logArchiveCount' = logArchiveCount /\ written' = written
    BY <1>2 DEF RenameNext, unchangedProcess
  <2>2. CASE i > 0
    <3>1. /\ files' = rename(i, i + 1) /\ i + 1 \in Names /\ i + 1 \notin DOMAIN files
          /\ i \in -1 .. logArchiveCount - 1 /\ i + 1 \in 0 .. logArchiveCount
      BY <1>2, <1>t, <2>2, BoundsAssumption DEF RenameNext, NameFree, Names
    <3> PICK to : to = i + 1
      OBVIOUS
    <3>2. FlattenSeq(Slots(rename(i, to), logArchiveCount))
            = FlattenSeq(Slots(files, logArchiveCount))
      BY <1>t, <3>1, RenameKeeps
    <3> QED BY <1>k, <1>l, <2>1, <3>1, <3>2
  <2>3. CASE ~(i > 0)
    BY <1>2, <1>k, <1>l, <2>1, <2>3 DEF RenameNext
  <2> QED BY <2>2, <2>3
<1>3. CASE RenameLog
  <2>1. /\ files' = rename(LogFile, NewestArchive) /\ NewestArchive \notin DOMAIN files
        /\ logArchiveCount' = logArchiveCount /\ written' = written
    BY <1>3, <1>t DEF RenameLog, NameFree, unchangedProcess
  <2> QED BY <1>t, <1>k, <1>l, <2>1, RenameLogKeeps
<1>4. CASE Open
  <2>1. /\ files' = create(LogFile)
        /\ logArchiveCount' = logArchiveCount /\ written' = written
    BY <1>4 DEF Open, unchangedProcess
  <2>2. \A n : Content(files', n) = Content(files, n)
    BY <2>1 DEF Content, create
  <2>3. Slots(files', logArchiveCount) = Slots(files, logArchiveCount)
    BY <2>2, SameContent
  <2> QED BY <1>k, <1>l, <2>1, <2>3
<1>5. CASE Write
  <2>1. /\ LogFile \in DOMAIN files /\ DOMAIN files' = DOMAIN files
        /\ \A m \in DOMAIN files \ {LogFile} : files'[m] = files[m]
        /\ files'[LogFile] = IF buffer.writeHead = 0 THEN <<written'>>
                             ELSE Append(files[LogFile], written')
        /\ written' = written + 1 /\ written' \in Nat
        /\ logArchiveCount' = logArchiveCount
    BY <1>5, <1>t DEF Write, WritesInside
  <2>2. files'[LogFile] = Append(files[LogFile], written')
    <3>1. CASE buffer.writeHead = 0
      <4>1. files[LogFile] = <<>>
        BY <3>1, <1>5, <1>t DEF Write, WritesInside, FileOpen
      <4>2. Append(<<>>, written') = <<written'>>
        OBVIOUS
      <4> QED BY <3>1, <2>1, <4>1, <4>2
    <3>2. CASE buffer.writeHead # 0
      BY <3>2, <2>1
    <3> QED BY <3>1, <3>2
  <2>3. /\ Content(files', -1) = Append(Content(files, -1), written')
        /\ \A m : m # -1 => Content(files, m) = Content(files', m)
    BY <2>1, <2>2 DEF Content, LogFile
  <2>4. Numbered(files)
    BY <1>t, FilesAreNumbered
  <2>5. Numbered(files')
    <3>1. Append(Content(files, -1), written') \in Seq(Nat)
      BY <2>1, <2>4 DEF Numbered
    <3> QED BY <2>3, <2>4, <3>1 DEF Numbered
  <2> PICK gs : gs = files'
    OBVIOUS
  <2> PICK x \in Nat : x = written'
    BY <2>1
  <2>6. /\ Numbered(gs) /\ Content(gs, -1) = Append(Content(files, -1), x)
        /\ \A m \in Int : m # -1 => Content(files, m) = Content(gs, m)
    BY <2>3, <2>5
  <2>7. FlattenSeq(Slots(gs, logArchiveCount))
          = Append(FlattenSeq(Slots(files, logArchiveCount)), x)
    BY <1>t, <2>4, <2>6, WriteAppends
  <2>8. Window!Write
    BY <1>k, <1>l, <2>1, <2>7 DEF Window!Write
  <2> QED BY <2>8
<1>6. CASE Close \/ Ftruncate \/ Mmap \/ OpenFileFails \/ Log \/ CheckRoom \/ Start \/ End
           \/ UNCHANGED vars
  <2>1. /\ files' = files /\ logArchiveCount' = logArchiveCount /\ written' = written
    BY <1>6 DEF Close, Ftruncate, Mmap, OpenFileFails, RotateFails, Log, CheckRoom,
                Start, End, unchangedProcess, vars
  <2> QED BY <1>k, <1>l, <2>1
<1> QED BY <1>1, <1>2, <1>3, <1>4, <1>5, <1>6 DEF Next, Rotate

\* The files of the log are one window on the messages written, in their order,
\* and only the oldest of them get lost, whatever rotation is cut short by a
\* failure or by the end of the process (LogMmap.cpp:107-185).
THEOREM Implements == Spec => IsWindow
<1>1. Spec => []NoZero
  BY InitNoZero, NextNoZero, Invariance, PTL DEF Spec
<1> QED
  BY InitIsWindow, NextIsWindow, Invariance, <1>1, PTL
  DEF Spec, IsWindow, Window!Spec

=============================================================================
