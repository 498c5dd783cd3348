---- MODULE MCCredentials ----
(* One text of a key, its prover and a prover of another key.              *)
EXTENDS Credentials, TLC
CONSTANTS p1
OnePoint == [k \in Keys |-> p1]

(* The tree whose root every credential comes with, on every list of up to *)
(* seven names: odd and even levels, the empty list and one name.          *)
M == INSTANCE Merkle
ASSUME MerkleProofs ==
  \A names \in SUBSET (1..7) : \A n \in 0..8 : M!ProofsAreCorrect(names, n)
ASSUME MerkleRoots ==
  \A names, others \in SUBSET (1..5) : M!RootsDiffer(names, others)

Symmetry == Permutations(Holders)
====
