---- MODULE MCCompliance ----
(* Two versions of the manifest; only the first lists the participant.     *)
EXTENDS Compliance, TLC
CONSTANTS u1
Manifest(mtime, listed, score) ==
  [mtime |-> mtime, listed |-> listed, score |-> [u \in Users |-> score]]
TwoManifests == {Manifest(1, {u1}, 50), Manifest(2, {}, 70)}
Symmetry == Permutations(Requests)
====
