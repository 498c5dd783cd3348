------------------------------- MODULE Merkle --------------------------------
(***************************************************************************)
(* The sorted Merkle tree of the sanctions lists (core/features/zkp/       *)
(* merkle.py): build, the binary search of non_membership_proof, and       *)
(* verify_non_membership.                                                  *)
(*                                                                         *)
(* A name is a natural number, ordered as the lower-case names are.  A     *)
(* hash is the term it was computed from: SHA-256 is taken to be free of   *)
(* collisions.  Lists are indexed from 1 here and from 0 in the code.      *)
(***************************************************************************)
EXTENDS Integers, SequencesExt

_leaf_hash(name) == <<"LEAF", name>>
_node_hash(left, right) == <<"NODE", left, right>>
Sentinel == <<"EMPTY">>   \* the one leaf of the empty tree
NoName == -1              \* "", which sorts before every name

(* One pass of the loop of build: the last node of an odd level is paired  *)
(* with itself.                                                            *)
NextLevel(level) ==
  [i \in 1..((Len(level) + 1) \div 2) |->
     _node_hash(level[2 * i - 1], level[Min({2 * i, Len(level)})])]

(* A level has at most half the nodes of the one below, rounded up: as     *)
(* many passes as there are leaves are enough.                             *)
TreeLevels(leaves) ==
  LET upTo[n \in 0..Len(leaves)] ==
        IF n = 0 THEN <<leaves>>
        ELSE LET built == upTo[n - 1]
             IN  IF Len(Last(built)) = 1 THEN built
                 ELSE Append(built, NextLevel(Last(built)))
  IN upTo[Len(leaves)]

build(names) ==
  LET sorted == IF names = {} THEN <<NoName>>
                ELSE SetToSortSeq(names, LAMBDA a, b : a < b)
      leaves == IF names = {} THEN <<Sentinel>>
                ELSE [i \in DOMAIN sorted |-> _leaf_hash(sorted[i])]
      levels == TreeLevels(leaves)
  IN [names |-> sorted, leaves |-> leaves, levels |-> levels,
      root |-> Last(levels)[1]]

_merkle_path(tree, leaf) ==
  LET index[l \in 1..Len(tree.levels)] ==
        IF l = 1 THEN leaf ELSE (index[l - 1] + 1) \div 2
      Step(level, i) ==
        IF i % 2 = 1 THEN [side |-> "right", hash |-> level[Min({i + 1, Len(level)})]]
        ELSE [side |-> "left", hash |-> level[i - 1]]
  IN [l \in 1..(Len(tree.levels) - 1) |-> Step(tree.levels[l], index[l])]

(* The binary search: the name's place, or where it would be inserted.     *)
Search(sorted, name) ==
  LET n == Len(sorted)
      from[lo \in 1..(n + 1), hi \in 0..n] ==
        LET mid == (lo + hi) \div 2
        IN  IF lo > hi THEN [found |-> FALSE, lo |-> lo]
            ELSE IF sorted[mid] = name THEN [found |-> TRUE, lo |-> mid]
            ELSE IF sorted[mid] < name THEN from[mid + 1, hi]
            ELSE from[lo, mid - 1]
  IN from[1, n]

NoProof == <<>>

non_membership_proof(tree, name) ==
  LET found == Search(tree.names, name)
      left == Max({found.lo - 1, 1})
      right == Min({found.lo, Len(tree.names)})
  IN IF found.found THEN NoProof
     ELSE <<[queried |-> name, root |-> tree.root,
             left_name |-> tree.names[left], right_name |-> tree.names[right],
             left_hash |-> tree.leaves[left], right_hash |-> tree.leaves[right],
             left_path |-> _merkle_path(tree, left),
             right_path |-> _merkle_path(tree, right)]>>

_verify_path(leaf, path, root) ==
  root = FoldLeft(LAMBDA node, step :
                    IF step.side = "right" THEN _node_hash(node, step.hash)
                    ELSE _node_hash(step.hash, node), leaf, path)

verify_non_membership(proof, root) ==
  /\ proof.left_hash = _leaf_hash(proof.left_name)
  /\ proof.right_hash = _leaf_hash(proof.right_name)
  /\ proof.left_name < proof.queried /\ proof.queried < proof.right_name
  /\ _verify_path(proof.left_hash, proof.left_path, root)
  /\ _verify_path(proof.right_hash, proof.right_path, root)
  /\ proof.root = root

-----------------------------------------------------------------------------
(* For the list `names` and the name n: there is a proof of absence iff n  *)
(* is not listed; the proof verifies, against the root of exactly this     *)
(* list, iff n lies between two listed names.  A name before the first or  *)
(* after the last, and any name when the list is empty, has a proof that   *)
(* does not verify.                                                        *)
ProofsAreCorrect(names, n) ==
  LET tree == build(names)
      proof == non_membership_proof(tree, n)
      between == /\ \E a \in names : a < n
                 /\ \E b \in names : n < b
  IN /\ proof = NoProof <=> n \in names
     /\ proof # NoProof => (verify_non_membership(proof[1], tree.root) <=> between)

(* The root tells lists apart, although an odd level repeats its last      *)
(* node.                                                                   *)
RootsDiffer(names, others) ==
  build(names).root = build(others).root => names = others
=============================================================================
