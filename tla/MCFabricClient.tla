--------------------------- MODULE MCFabricClient ----------------------------
EXTENDS FabricClient, TLC

CONSTANTS bank, reg, a1, buyer, goodRef, txt

MCMspOf == (bank :> "BANK01MSP") @@ (reg :> "REG01MSP")
MCAmounts == {1}
(* One request of each function: each may commit, be refused, be           *)
(* invalidated by another or hang.                                         *)
MCRequests ==
  {[fn |-> "TokenizeAsset", client |-> bank, asset |-> a1,
    wellFormed |-> TRUE, amount |-> 1, text |-> txt],
   [fn |-> "TransferAsset", client |-> bank, asset |-> a1,
    to |-> buyer, amount |-> 1, text |-> txt],
   [fn |-> "FreezeAsset", client |-> reg, asset |-> a1,
    text |-> txt, ref |-> goodRef],
   [fn |-> "UnfreezeAsset", client |-> reg, asset |-> a1, text |-> txt]}
=============================================================================
