---------------------------- MODULE FabricLedger -----------------------------
(***************************************************************************)
(* How Fabric runs the contract (external: peers and orderer; modelled     *)
(* from what network.py's `peer chaincode invoke --waitForEvent` relies     *)
(* on).  A proposal is simulated against the committed state and yields a  *)
(* read version and a write; the endorsed transaction is ordered later and *)
(* is valid only if the key it read still has that version, otherwise it   *)
(* is marked invalid and writes nothing.  An endorsed transaction that is  *)
(* never ordered simply stays endorsed.                                    *)
(*                                                                         *)
(* The property Serializable is the claim of the module: whatever the      *)
(* interleaving, the committed state evolves as AssetContract does.        *)
(***************************************************************************)
EXTENDS Chaincode

VARIABLES
  world,     \* committed world state
  version,   \* committed version of each key
  txn        \* TxID -> the transaction's life

lvars == <<world, version, txn>>

NoTxn == [st |-> "free"]

(* A proposal refused by the chaincode keeps its answer; an endorsed one   *)
(* keeps the read version and the write set of its simulation.             *)
Txn ==
  {NoTxn}
  \cup [st: {"refused"}, call: Call, answer: Answers \ {"ok"}]
  \cup [st: {"endorsed", "valid", "invalid"}, call: Call, read: Nat,
        write: FinancialAsset]

LInit ==
  /\ world = [id \in Assets |-> NoAsset]
  /\ version = [id \in Assets |-> 0]
  /\ txn = [tx \in TxIds |-> NoTxn]

(* The endorsing peers run the handler on the committed state.             *)
Endorse(tx, c) ==
  /\ txn[tx] = NoTxn
  /\ Answer(world, c) = "ok"
  /\ txn' = [txn EXCEPT ![tx] =
       [st |-> "endorsed", call |-> c, read |-> version[c.asset],
        write |-> Write(world, tx, c)]]
  /\ UNCHANGED <<world, version>>

Refuse(tx, c) ==
  /\ txn[tx] = NoTxn
  /\ Answer(world, c) # "ok"
  /\ txn' = [txn EXCEPT ![tx] =
       [st |-> "refused", call |-> c, answer |-> Answer(world, c)]]
  /\ UNCHANGED <<world, version>>

ReadIsCurrentMutant(tx) == TRUE

ReadIsCurrent(tx) == version[txn[tx].call.asset] = txn[tx].read

Commit(tx) ==
  /\ txn[tx].st = "endorsed"
  /\ ReadIsCurrent(tx)
  /\ world' = [world EXCEPT ![txn[tx].call.asset] = txn[tx].write]
  /\ version' = [version EXCEPT ![txn[tx].call.asset] = @ + 1]
  /\ txn' = [txn EXCEPT ![tx].st = "valid"]

Invalidate(tx) ==
  /\ txn[tx].st = "endorsed"
  /\ ~ReadIsCurrent(tx)
  /\ txn' = [txn EXCEPT ![tx].st = "invalid"]
  /\ UNCHANGED <<world, version>>

LNext == \E tx \in TxIds :
           \/ \E c \in Call : Endorse(tx, c)
           \/ \E c \in Call : Refuse(tx, c)
           \/ Commit(tx)
           \/ Invalidate(tx)

LSpec == LInit /\ [][LNext]_lvars

-----------------------------------------------------------------------------
(* Type correctness of the committed state and of every transaction.       *)
LTypeOK ==
  /\ world \in [Assets -> FinancialAsset \cup {NoAsset}]
  /\ version \in [Assets -> Nat]
  /\ txn \in [TxIds -> Txn]

(***************************************************************************)
(* Validation is enough: an endorsed transaction that would still be valid *)
(* was simulated on exactly the present record of its asset, so committing *)
(* its stored write is the same as running its handler now.                *)
(***************************************************************************)
EndorsedIsFresh ==
  \A tx \in TxIds :
    txn[tx].st = "endorsed" =>
      /\ txn[tx].read <= version[txn[tx].call.asset]
      /\ ReadIsCurrent(tx) =>
           /\ Answer(world, txn[tx].call) = "ok"
           /\ txn[tx].write = Write(world, tx, txn[tx].call)

(* The version of a key counts the records of its trail: no commit ever    *)
(* overwrites another (the lost update that PutState alone would allow).   *)
NoLostUpdate ==
  \A id \in Assets :
    version[id] = IF world[id] = NoAsset THEN 0
                  ELSE Len(world[id].provenance)

committedEvents ==
  [tx \in TxIds |-> IF txn[tx].st = "valid" THEN Event(txn[tx].call)
                    ELSE "none"]

AC == INSTANCE AssetContract WITH events <- committedEvents

(* Concurrent endorsement with validation at commit implements the atomic  *)
(* contract, so everything proved of AssetContract holds of the ledger.    *)
Serializable == AC!Spec
=============================================================================
