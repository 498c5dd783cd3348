------------------------------ MODULE MCEvents -------------------------------
(* Two operations that reach the graph: enough for a circuit that opens, a *)
(* burst beyond the bucket and a gap around a reconnection.                *)
EXTENDS Events, TLC

CONSTANTS o1, o2

MCKindOf == (o1 :> "transfer") @@ (o2 :> "freeze")
=============================================================================
