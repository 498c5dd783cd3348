----------------------------- MODULE MCSessions -----------------------------
(* One user with up to two tokens; two requests overlap at a time.         *)
EXTENDS Sessions, TLC

Symmetry == Permutations(Reqs) \cup Permutations(Logins)
=============================================================================
