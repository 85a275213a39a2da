----------------------------- MODULE MCPollLoop -----------------------------
(* Values of the constants of PollLoop for model checking. *)
EXTENDS PollLoop

\* The pools and the kernel hand out any free object.
AnyFree(S) == S

\* They hand out the first one, as the kernel does with descriptors.
FirstFree(S) == IF S = {} THEN {} ELSE {CHOOSE x \in S : TRUE}
=============================================================================
