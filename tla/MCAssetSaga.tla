----------------------------- MODULE MCAssetSaga -----------------------------
(* Instances of AssetSaga: one asset, one bank and one regulator identity. *)
(* The text num parses as the number 3, the text note does not parse.      *)
EXTENDS AssetSaga, TLC

CONSTANTS bank, reg, a1, alice, bob, stranger, num, note, comp, p1, p3, goodRef, sagaComp

MCMspOf == (bank :> "BANK01MSP") @@ (reg :> "REG01MSP")
MCAmounts == {1, 3}
MCNumOf == [t \in Texts |-> IF t = num THEN 3 ELSE 0]
MCStrOf == (1 :> p1) @@ (3 :> p3)
Symmetry == Permutations(TxIds) \cup Permutations(Reqs)

Tokenizes == {[kind |-> "tokenize", client |-> bank, asset |-> a1,
               wellFormed |-> TRUE, orgKnown |-> b, amount |-> 1,
               text |-> note] : b \in BOOLEAN}
Transfers == {[kind |-> "transfer", client |-> bank, asset |-> a1, to |-> u,
               by |-> alice, amount |-> 1, text |-> t] :
                 u \in {bob, stranger}, t \in {num, note}}
Freezes   == {[kind |-> "freeze", client |-> reg, asset |-> a1,
               text |-> note, ref |-> goodRef]}
Unfreezes == {[kind |-> "unfreeze", client |-> reg, asset |-> a1,
               text |-> note]}
Valuates  == {[kind |-> "valuate", asset |-> a1, amount |-> 3]}
Syncs     == {[kind |-> "sync", asset |-> a1]}

(* Every request, the ones that are refused on the way included.           *)
AllRequests == Tokenizes \cup Transfers \cup Freezes \cup Unfreezes
               \cup Valuates \cup Syncs
(* The requests on which a freeze or an unfreeze can succeed.              *)
FreezeRequests == {r \in AllRequests : \/ r.kind \in {"freeze", "unfreeze"}
                                       \/ r.kind = "tokenize" /\ r.orgKnown}
AllKinds == Kinds
=============================================================================
