-------------------------------- MODULE Pool --------------------------------
(***************************************************************************)
(* What BlockStorage promises: allocate() returns an object that is not in *)
(* use, free() gives one back, and head()/next() visit those in use.       *)
(***************************************************************************)
CONSTANT Items

VARIABLE used

Init == used = {}

allocate == \E p \in Items \ used : used' = used \cup {p}

free == \E p \in used : used' = used \ {p}

\* destroy() deletes every object.
destroy == used' = {}

Next == allocate \/ free \/ destroy

Spec == Init /\ [][Next]_used
=============================================================================
