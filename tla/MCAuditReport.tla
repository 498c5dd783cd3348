--------------------------- MODULE MCAuditReport ---------------------------
(* A small instance of the ledger with its auditors: one client of each    *)
(* organisation and one of neither, a price below and one above the MiCA   *)
(* threshold, a non-positive one, one accepted and one refused reference.  *)
EXTENDS AuditReport, TLC

CONSTANTS bank, reg, other

MCMspOf == (bank :> "BANK01MSP") @@ (reg :> "REG01MSP") @@ (other :> "OTHERMSP")
MCAmounts == {0, 1, 3}
Symmetry == Permutations(Assets) \cup Permutations(TxIds) \cup Permutations(Jobs)
=============================================================================
