------------------------------ MODULE MCTribunal -----------------------------
(* Three auditors, so that a first tally can decide one way on one vote    *)
(* and a second one the other way on three.                                *)
EXTENDS Tribunal, TLC

Symmetry == Permutations(Tasks) \cup Permutations(Auditors)
            \cup Permutations(VoteIds)
=============================================================================
