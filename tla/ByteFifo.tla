------------------------------- MODULE ByteFifo -------------------------------
(***************************************************************************)
(* What the buffer of a connection promises: bytes come out in the order   *)
(* they went in, and none is lost or overwritten before it is read, unless *)
(* the buffer is cleared for another use.                                  *)
(***************************************************************************)
EXTENDS Naturals, Sequences

CONSTANTS Bytes, Capacity

VARIABLES
  contents,
  call       \* the last call, with the bytes it moved

fvars == <<contents, call>>

Init == contents = <<>> /\ call = <<"clear", <<>>>>

Put ==
  \E n \in 1 .. Capacity - Len(contents) : \E data \in [1 .. n -> Bytes] :
    contents' = contents \o data /\ call' = <<"put", data>>

Get ==
  \E n \in 1 .. Len(contents) :
    /\ contents' = SubSeq(contents, n + 1, Len(contents))
    /\ call' = <<"get", SubSeq(contents, 1, n)>>

clear == contents' = <<>> /\ call' = <<"clear", <<>>>>

Next == Put \/ Get \/ clear

Spec == Init /\ [][Next]_fvars
=============================================================================
