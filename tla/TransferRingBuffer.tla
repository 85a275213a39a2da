-------------------------- MODULE TransferRingBuffer --------------------------
(***************************************************************************)
(* The arithmetic of utils/TransferRingBuffer.h, the buffer of a           *)
(* connection. Positions are those of the code: 0 .. bufSize - 1 in buf,   *)
(* and bufSize for a writeHead that has reached the end.                   *)
(***************************************************************************)
EXTENDS Integers

CONSTANT bufSize   \* REQUEST_BUFFER_SIZE, 10000 in the code

ASSUME BufSizeAssumption == bufSize \in Nat /\ bufSize > 1

Heads == [readHead : 0 .. bufSize - 1, writeHead : 0 .. bufSize]

\* init() and clear()
clear == [readHead |-> 0, writeHead |-> 0]

\* Wrong: the end of buf is taken for the end of the room.
startWriteNoWrap(h) == h

\* Wrong: at the end of buf, what is held is moved to its start to make room.
startWriteMoves(h) ==
  IF h.writeHead = bufSize
  THEN [readHead |-> 0, writeHead |-> bufSize - h.readHead] ELSE h

\* startWrite(): where it leaves the heads, also when it returns false, and
\* the contiguous room that it offers. It returns false when there is none.
startWrite(h) ==
  IF h.writeHead = bufSize /\ h.readHead # 0 THEN [h EXCEPT !.writeHead = 0]
  ELSE h

\* Wrong: after the wrap the room goes up to readHead.
WriteSizeToReadHead(h) ==
  LET w == startWrite(h).writeHead IN
  IF w >= h.readHead THEN bufSize - w ELSE h.readHead - w

WriteSize(h) ==
  LET w == startWrite(h).writeHead IN
  IF w >= h.readHead THEN bufSize - w ELSE h.readHead - w - 1

\* endWrite(n) after startWrite().
endWrite(h, n) == [startWrite(h) EXCEPT !.writeHead = @ + n]

\* startRead(): the contiguous bytes it offers; false when there are none.
ReadSize(h) ==
  IF h.readHead <= h.writeHead THEN h.writeHead - h.readHead
  ELSE bufSize - h.readHead

readAvailable(h) == ReadSize(h) > 0

\* Wrong: readHead does not wrap.
endReadNoWrap(h, n) == [h EXCEPT !.readHead = @ + n]

endRead(h, n) ==
  IF h.readHead + n # bufSize THEN [h EXCEPT !.readHead = @ + n]
  ELSE [readHead |-> 0,
        writeHead |-> IF h.writeHead = bufSize THEN 0 ELSE h.writeHead]

\* How many bytes wait to be read, those after the wrap included.
Held(h) ==
  IF h.readHead <= h.writeHead THEN h.writeHead - h.readHead
  ELSE bufSize - h.readHead + h.writeHead
=============================================================================
