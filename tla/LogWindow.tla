------------------------------ MODULE LogWindow ------------------------------
(***************************************************************************)
(* What a rotated log promises: the messages it keeps, read from the       *)
(* oldest file to the newest, are the latest ones without a gap, in the    *)
(* order in which they were written. Only the oldest ones get lost.        *)
(***************************************************************************)
EXTENDS Integers, Sequences

VARIABLES
  kept,      \* the numbers of the messages that can be read
  written    \* how many were written

vars == <<kept, written>>

Init == kept = <<>> /\ written = 0

Write ==
  /\ written' = written + 1
  /\ kept' = Append(kept, written')

Lose ==
  /\ \E n \in 2 .. Len(kept) + 1 : kept' = SubSeq(kept, n, Len(kept))
  /\ UNCHANGED written

Spec == Init /\ [][Write \/ Lose]_vars
=============================================================================
