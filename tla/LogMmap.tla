------------------------------- MODULE LogMmap -------------------------------
(***************************************************************************)
(* The log of log/LogMmap.cpp: messages are written to a mapped http.log;  *)
(* when one might not fit any more, the files http.log, .1, .2, ... move   *)
(* up by one name and a new http.log is mapped. Each system call of a      *)
(* rotation is a step: the last three of them may fail, and the process    *)
(* may end, be killed and be started again, between any two.               *)
(*                                                                         *)
(* logMtx is held from a call of writeLog() to its end, so at most one     *)
(* thread is inside; step says how far it is.                              *)
(***************************************************************************)
EXTENDS Integers, Sequences, SequencesExt

CONSTANTS
  logFileSize,       \* bytes of http.log
  maxMessageSize,    \* bytes that a message may take, 1024 in the code
  MaxArchiveCount,   \* bound of logArchiveCount
  MaxMessages,       \* bound of the messages written
  MaxStarts          \* bound of the starts of the process

ASSUME SizesAssumption ==
  /\ logFileSize \in Nat /\ maxMessageSize \in Nat
  /\ 0 < logFileSize /\ 1 < maxMessageSize
ASSUME BoundsAssumption ==
  MaxArchiveCount \in Nat /\ MaxMessages \in Nat /\ MaxStarts \in Nat

VARIABLES
  logArchiveCount,   \* of the configuration
  files,             \* the files of the log that exist, by name
  buffer,            \* TransferBuffer: its size and writeHead; size 0 for null
  fd,                \* is http.log open
  process,           \* down, in init(), or up
  step,              \* where the owner of logMtx is
  i,                 \* the loop of rotate()
  written,           \* messages written so far: the next one's time stamp
  starts             \* starts of the process so far

vars == <<logArchiveCount, files, buffer, fd, process, step, i, written, starts>>

\* http.log, and http.log.n for n >= 0.
LogFile == -1
Names == {LogFile} \cup 0 .. MaxArchiveCount
Steps == {"unlocked", "room", "close", "remove", "rename", "renameLog", "open",
          "ftruncate", "mmap", "write"}

NoBuffer == [size |-> 0, writeHead |-> 0]
MappedBuffer == [size |-> logFileSize, writeHead |-> 0]

Init ==
  /\ logArchiveCount \in 0 .. MaxArchiveCount
  /\ files = [n \in {} |-> <<>>]
  /\ buffer = NoBuffer /\ fd = FALSE
  /\ process = "down" /\ step = "unlocked" /\ i = 0
  /\ written = 0 /\ starts = 0

----------------------------------------------------------------------------
(* The file system *)

remove(n) == [m \in DOMAIN files \ {n} |-> files[m]]

\* A file that does not exist is not renamed.
rename(n, to) ==
  IF n \notin DOMAIN files THEN files
  ELSE [m \in (DOMAIN files \ {n}) \cup {to} |->
          IF m = to THEN files[n] ELSE files[m]]

\* open() with O_CREAT.
create(n) ==
  [m \in DOMAIN files \cup {n} |-> IF m \in DOMAIN files THEN files[m] ELSE <<>>]

----------------------------------------------------------------------------
(* rotate(), with closeFile() and openFile() *)

unchangedProcess == UNCHANGED <<logArchiveCount, process, written, starts>>

\* closeFile() does nothing when http.log is not open.
Close ==
  /\ step = "close" /\ step' = "remove"
  /\ fd' = FALSE /\ buffer' = (IF fd THEN NoBuffer ELSE buffer)
  /\ UNCHANGED <<files, i>> /\ unchangedProcess

\* Wrong: the files are taken to be numbered from 0.
RemoveBeforeOldest ==
  /\ step = "remove" /\ step' = "rename"
  /\ files' = remove(logArchiveCount - 1) /\ i' = logArchiveCount - 1
  /\ UNCHANGED <<buffer, fd>> /\ unchangedProcess

RemoveOldest ==
  /\ step = "remove" /\ step' = "rename"
  /\ files' = remove(logArchiveCount) /\ i' = logArchiveCount - 1
  /\ UNCHANGED <<buffer, fd>> /\ unchangedProcess

\* One turn of the loop, from the oldest file to the newest, and its end.
RenameNext ==
  /\ step = "rename"
  /\ IF i > 0
     THEN /\ files' = rename(i, i + 1) /\ i' = i - 1 /\ step' = "rename"
     ELSE step' = "renameLog" /\ UNCHANGED <<files, i>>
  /\ UNCHANGED <<buffer, fd>> /\ unchangedProcess

\* p1 is still the name that was removed when the loop had no turn.
NewestArchive == IF logArchiveCount = 0 THEN 0 ELSE 1

\* Wrong: a log without archives is left where it is.
RenameLogToArchive ==
  /\ step = "renameLog" /\ step' = "open"
  /\ files' = IF logArchiveCount = 0 THEN files ELSE rename(LogFile, NewestArchive)
  /\ UNCHANGED <<buffer, fd, i>> /\ unchangedProcess

RenameLog ==
  /\ step = "renameLog" /\ step' = "open"
  /\ files' = rename(LogFile, NewestArchive)
  /\ UNCHANGED <<buffer, fd, i>> /\ unchangedProcess

\* A failed rotation: the message is dropped, and init() fails.
RotateFails ==
  /\ step' = "unlocked" /\ fd' = FALSE
  /\ process' = IF process = "init" THEN "down" ELSE process
  /\ UNCHANGED <<logArchiveCount, buffer, i, written, starts>>

Open ==
  /\ step = "open" /\ step' = "ftruncate"
  /\ fd' = TRUE /\ files' = create(LogFile)
  /\ UNCHANGED <<buffer, i>> /\ unchangedProcess

Ftruncate ==
  /\ step = "ftruncate" /\ step' = "mmap"
  /\ UNCHANGED <<files, buffer, fd, i>> /\ unchangedProcess

\* The end of rotate(): init() is done, or the message is written now, unless
\* it might not fit into an empty file.
Mmap ==
  /\ step = "mmap" /\ buffer' = MappedBuffer /\ process' = "up"
  /\ step' = IF process = "init" \/ logFileSize < maxMessageSize
              THEN "unlocked" ELSE "write"
  /\ UNCHANGED <<logArchiveCount, files, fd, i, written, starts>>

OpenFileFails ==
  /\ step \in {"open", "ftruncate", "mmap"} /\ UNCHANGED files /\ RotateFails

Rotate ==
  Close \/ RemoveOldest \/ RenameNext \/ RenameLog \/ Open \/ Ftruncate \/ Mmap

----------------------------------------------------------------------------
(* writeLog() *)

\* A thread logs a message: it takes logMtx.
Log ==
  /\ process = "up" /\ step = "unlocked" /\ written < MaxMessages
  /\ step' = "room"
  /\ UNCHANGED <<files, buffer, fd, i>> /\ unchangedProcess

room == buffer.size - buffer.writeHead

\* Wrong: it is enough that startWrite() returns true.
FitsIfAny == room > 0

\* startWrite(), and the room that it offers for a message of any length.
Fits == room >= maxMessageSize

\* Wrong: a log without a buffer is not opened again.
CheckRoomOfBuffer ==
  /\ step = "room"
  /\ step' = (IF Fits THEN "write" ELSE IF room > 0 THEN "close" ELSE "unlocked")
  /\ UNCHANGED <<files, buffer, fd, i>> /\ unchangedProcess

CheckRoom ==
  /\ step = "room" /\ step' = (IF Fits THEN "write" ELSE "close")
  /\ UNCHANGED <<files, buffer, fd, i>> /\ unchangedProcess

\* Wrong: vsnprintf() returns the length of what it had to leave out, too.
UntruncatedSizes == 1 .. 2 * maxMessageSize

\* What endWrite() is given: the 0 at the end is not counted.
MessageSizes == 1 .. maxMessageSize - 1

\* The message and endWrite(). Writing at the
\* start of the file replaces what an older one has left there.
Write ==
  /\ step = "write" /\ step' = "unlocked" /\ written' = written + 1
  /\ \E n \in MessageSizes :
       buffer' = [buffer EXCEPT !.writeHead = @ + n]
  /\ files' = [files EXCEPT ![LogFile] =
                 IF buffer.writeHead = 0 THEN <<written'>> ELSE Append(@, written')]
  /\ UNCHANGED <<logArchiveCount, fd, process, i, starts>>

----------------------------------------------------------------------------
(* The process *)

\* The process is started: init() has checked the folder and calls rotate().
Start ==
  /\ process = "down" /\ starts < MaxStarts
  /\ process' = "init" /\ starts' = starts + 1 /\ step' = "close"
  /\ UNCHANGED <<logArchiveCount, files, buffer, fd, i, written>>

\* It ends, or is killed. What was written to the mapping is in the file.
End ==
  /\ process # "down" /\ process' = "down"
  /\ step' = "unlocked" /\ buffer' = NoBuffer /\ fd' = FALSE /\ i' = 0
  /\ UNCHANGED <<logArchiveCount, files, written, starts>>

Next == Rotate \/ OpenFileFails \/ Log \/ CheckRoom \/ Write \/ Start \/ End

\* A thread inside runs on, threads go on logging, and the calls of openFile()
\* do not fail for ever.
Fairness ==
  /\ WF_vars(Close \/ RemoveOldest \/ RenameNext \/ RenameLog \/ CheckRoom \/ Write)
  /\ WF_vars(Log)
  /\ SF_vars(Open) /\ SF_vars(Ftruncate) /\ SF_vars(Mmap)

Spec == Init /\ [][Next]_vars /\ Fairness

----------------------------------------------------------------------------
(* Properties *)

\* Every variable has its type.
TypeOK ==
  /\ logArchiveCount \in 0 .. MaxArchiveCount
  /\ DOMAIN files \subseteq Names
  /\ \A n \in DOMAIN files : files[n] \in Seq(1 .. written)
  /\ buffer \in [size : {0, logFileSize}, writeHead : 0 .. logFileSize]
  /\ fd \in BOOLEAN
  /\ process \in {"down", "init", "up"} /\ step \in Steps
  /\ i \in -1 .. MaxArchiveCount /\ written \in 0 .. MaxMessages
  /\ starts \in 0 .. MaxStarts

\* A message is written only to a mapped http.log, within its bytes, also after
\* a rotation that failed (LogMmap.cpp:139-155): buffer is empty whenever the
\* file is not open.
WritesInside ==
  /\ step = "write" => /\ fd /\ LogFile \in DOMAIN files
                       /\ buffer.writeHead + maxMessageSize <= buffer.size
  /\ ~fd => buffer = NoBuffer

\* A step loses no message but those of the file numbered logArchiveCount,
\* whatever file names exist when a rotation begins, also those that one cut
\* short by a failure or by the end of the process left (LogMmap.cpp:107-129):
\* no rename() replaces another file.
OnlyOldestLost ==
  [][\A n \in DOMAIN files \ {logArchiveCount} :
       \E m \in DOMAIN files' : IsPrefix(files[n], files'[m])]_vars

\* The messages of all the files, from the oldest file to http.log.
Kept ==
  FlattenSeq([k \in 1 .. logArchiveCount + 2 |->
                LET n == logArchiveCount + 1 - k
                IN IF n \in DOMAIN files THEN files[n] ELSE <<>>])

Window == INSTANCE LogWindow WITH kept <- Kept

\* To a reader the files are one window on the messages: a rotation is no step
\* of it, or loses the oldest ones.
IsWindow == Window!Spec

\* After a failed rotation the log is written to again while the process runs.
Recovers ==
  (process = "up" /\ step = "unlocked" /\ ~fd /\ written < MaxMessages)
    ~> (step = "write" \/ process = "down")
=============================================================================
