--------------------------- MODULE MCPendingStore ---------------------------
(* Instances of PendingStore for TLC. *)
EXTENDS PendingStore, TLC

CONSTANTS a1, a2, i1

\* A call and its retry under one correlation id; only the first has a deadline.
MCIdOf == (a1 :> i1) @@ (a2 :> i1)
MCTimed == {a1}
=============================================================================
