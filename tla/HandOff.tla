------------------------------ MODULE HandOff ------------------------------
(***************************************************************************)
(* What the server promises for an accepted client: it is given to one     *)
(* loop, which serves it or closes it, and from then on never to another.  *)
(***************************************************************************)
CONSTANTS Clients, Loops

VARIABLES
  waiting,  \* per loop, the clients given to it and not yet taken
  serving,  \* per loop, the clients it serves
  closed    \* the clients that were closed

hvars == <<waiting, serving, closed>>

Placed == closed \cup UNION {waiting[l] \cup serving[l] : l \in Loops}

Init ==
  /\ waiting = [l \in Loops |-> {}]
  /\ serving = [l \in Loops |-> {}]
  /\ closed = {}

\* A client that has no place yet is given to loop l, is served by the loop
\* that accepted it, or is closed.
Give(c, l) ==
  /\ c \notin Placed
  /\ waiting' = [waiting EXCEPT ![l] = @ \cup {c}]
  /\ UNCHANGED <<serving, closed>>

ServeHere(c, l) ==
  /\ c \notin Placed
  /\ serving' = [serving EXCEPT ![l] = @ \cup {c}]
  /\ UNCHANGED <<waiting, closed>>

Refuse(c) ==
  /\ c \notin Placed
  /\ closed' = closed \cup {c}
  /\ UNCHANGED <<waiting, serving>>

\* Loop l takes a client that waits for it, or drops it.
Take(c, l) ==
  /\ c \in waiting[l]
  /\ waiting' = [waiting EXCEPT ![l] = @ \ {c}]
  /\ \/ serving' = [serving EXCEPT ![l] = @ \cup {c}] /\ UNCHANGED closed
     \/ closed' = closed \cup {c} /\ UNCHANGED serving

\* Loop l ends clients that it serves, and may refuse a new one as it does.
End(C, l) ==
  /\ C # {} /\ C \subseteq serving[l]
  /\ serving' = [serving EXCEPT ![l] = @ \ C]
  /\ \E R \in SUBSET (Clients \ Placed) : closed' = closed \cup C \cup R
  /\ UNCHANGED waiting

Next ==
  \/ \E c \in Clients, l \in Loops : Give(c, l) \/ ServeHere(c, l) \/ Take(c, l)
  \/ \E c \in Clients : Refuse(c)
  \/ \E l \in Loops : \E C \in SUBSET serving[l] : End(C, l)

Spec == Init /\ [][Next]_hvars
=============================================================================
