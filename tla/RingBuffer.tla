------------------------------ MODULE RingBuffer ------------------------------
(***************************************************************************)
(* A TransferRingBuffer with its bytes, used as the executors use it:      *)
(* startWrite(), a read() into it that may bring less or nothing,          *)
(* endWrite(); startRead(), a write() from it, endRead().                  *)
(***************************************************************************)
EXTENDS TransferRingBuffer, Sequences

CONSTANT Bytes

VARIABLES
  heads, buf,
  call       \* history: the last call, with the bytes it moved

vars == <<heads, buf, call>>

Cleared == <<"clear", <<>>>>

Init == heads = clear /\ buf \in [0 .. bufSize - 1 -> Bytes] /\ call = Cleared

\* The bytes of buf from position a up to b.
Slice(a, b) == [i \in 1 .. b - a |-> buf[a + i - 1]]

Write(n, data) ==
  LET w == startWrite(heads).writeHead IN
  /\ n \in 1 .. WriteSize(heads)
  /\ buf' = [i \in 0 .. bufSize - 1 |->
               IF i \in w .. w + n - 1 THEN data[i - w + 1] ELSE buf[i]]
  /\ heads' = endWrite(heads, n)
  /\ call' = <<"put", data>>

\* startWrite() found no room, or read() had nothing.
WriteNothing == heads' = startWrite(heads) /\ UNCHANGED <<buf, call>>

Read(n) ==
  /\ n \in 1 .. ReadSize(heads)
  /\ heads' = endRead(heads, n)
  /\ call' = <<"get", Slice(heads.readHead, heads.readHead + n)>>
  /\ UNCHANGED buf

\* init() with the same size, or clear().
Clear == heads' = clear /\ call' = Cleared /\ UNCHANGED buf

Next ==
  \/ \E n \in 1 .. bufSize : \E data \in [1 .. n -> Bytes] : Write(n, data)
  \/ WriteNothing
  \/ \E n \in 1 .. bufSize : Read(n)
  \/ Clear

Spec == Init /\ [][Next]_vars

----------------------------------------------------------------------------
(* Properties *)

\* The heads stay inside buf.
TypeOK == heads \in Heads /\ buf \in [0 .. bufSize - 1 -> Bytes]

\* Room is refused only when at most one byte of buf is free (the one that
\* tells a full buffer from an empty one), so a proxy that stops reading from
\* its upstream because startWrite() returned false has something to send.
RefusedWhenFull == WriteSize(heads) = 0 => Held(heads) >= bufSize - 1

\* The buffer is a FIFO of bytes.
Contents ==
  IF heads.readHead <= heads.writeHead
  THEN Slice(heads.readHead, heads.writeHead)
  ELSE Slice(heads.readHead, bufSize) \o Slice(0, heads.writeHead)

Abstract == INSTANCE ByteFifo WITH contents <- Contents, Capacity <- bufSize
IsFifo == Abstract!Spec
=============================================================================
