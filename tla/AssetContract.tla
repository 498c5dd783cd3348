---------------------------- MODULE AssetContract ----------------------------
(***************************************************************************)
(* The asset ledger as its clients should see it: every handler of the     *)
(* AssetTraceContract runs atomically on the current world state.  A call  *)
(* that returns an error writes nothing, so only the successful runs are   *)
(* steps.  FabricLedger shows that Fabric's endorse-then-validate execution *)
(* implements this specification.                                          *)
(***************************************************************************)
EXTENDS Chaincode

VARIABLES
  world,   \* the world state: asset id -> FinancialAsset or NoAsset
  events   \* TxID -> the chaincode event of the committed transaction

vars == <<world, events>>

Init ==
  /\ world = [id \in Assets |-> NoAsset]
  /\ events = [tx \in TxIds |-> "none"]

(* PutState and the transaction's event, for a handler that returned nil.  *)
Apply(tx, c) ==
  /\ events[tx] = "none"
  /\ Answer(world, c) = "ok"
  /\ world' = [world EXCEPT ![c.asset] = Write(world, tx, c)]
  /\ events' = [events EXCEPT ![tx] = Event(c)]

TokenizeAsset(tx) == \E c \in TokenizeCall : Apply(tx, c)
TransferAsset(tx) == \E c \in TransferCall : Apply(tx, c)
FreezeAsset(tx)   == \E c \in FreezeCall   : Apply(tx, c)
UnfreezeAsset(tx) == \E c \in UnfreezeCall : Apply(tx, c)

Next == \E tx \in TxIds :
          \/ TokenizeAsset(tx)
          \/ TransferAsset(tx)
          \/ FreezeAsset(tx)
          \/ UnfreezeAsset(tx)

Spec == Init /\ [][Next]_vars

-----------------------------------------------------------------------------
(* Type correctness of the world state and of the recorded events.         *)
TypeOK ==
  /\ world \in [Assets -> FinancialAsset \cup {NoAsset}]
  /\ events \in [TxIds -> EventNames \cup {"none"}]

Issued == {id \in Assets : world[id] # NoAsset}
Trail(id) == world[id].provenance

Ownership(r) == r.action \in {"TOKENISE", "TRANSFERE"}
Freezing(r)  == r.action \in {"GELE", "DEGELE"}

(* i is the position of the last record of that kind in trail p.           *)
LastOwnership(p, i) ==
  /\ i \in 1..Len(p) /\ Ownership(p[i])
  /\ \A j \in 1..Len(p) : Ownership(p[j]) => j <= i

LastFreezing(p, i) ==
  /\ i \in 1..Len(p) /\ Freezing(p[i])
  /\ \A j \in 1..Len(p) : Freezing(p[j]) => j <= i

(***************************************************************************)
(* Chain of custody.  The trail starts with the one TOKENISE record, every *)
(* TRANSFERE record names as fromOwner the owner the previous ownership    *)
(* record named as toOwner, and the asset's currentOwner and currentValue  *)
(* are those of the last ownership record (TransferAsset keeps five fields *)
(* in step with the record it appends).                                    *)
(***************************************************************************)
CustodyOf(a) ==
  LET p == a.provenance IN
  /\ Len(p) > 0 /\ p[1].action = "TOKENISE"
  /\ \A i \in 2..Len(p) : p[i].action # "TOKENISE"
  /\ \A i, j \in 1..Len(p) :
       (/\ i < j /\ Ownership(p[i]) /\ Ownership(p[j])
        /\ \A k \in 1..Len(p) : i < k /\ k < j => ~Ownership(p[k]))
       => p[j].fromOwner = p[i].toOwner
  /\ \A i \in 1..Len(p) : LastOwnership(p, i) =>
       a.currentOwner = p[i].toOwner /\ a.currentValue = p[i].amount

CustodyChain == \A id \in Issued : CustodyOf(world[id])

(***************************************************************************)
(* Freeze discipline.  Freezes and unfreezes alternate along the trail, no *)
(* transfer is recorded between a freeze and the unfreeze that ends it,    *)
(* and the asset's status and four freeze fields are those of the freeze   *)
(* in force: set by the last freeze record if it is a GELE, empty if it is *)
(* a DEGELE or there is none.                                              *)
(***************************************************************************)
FreezeDisciplineOf(a) ==
  LET p == a.provenance IN
  /\ \A i, j \in 1..Len(p) :
       (/\ i < j /\ Freezing(p[j]) /\ Freezing(p[i])
        /\ \A k \in 1..Len(p) : i < k /\ k < j => ~Freezing(p[k]))
       => p[i].action # p[j].action
  /\ \A i, j \in 1..Len(p) :
       (/\ i < j /\ p[i].action = "GELE" /\ p[j].action = "TRANSFERE")
       => \E k \in 1..Len(p) : i < k /\ k < j /\ p[k].action = "DEGELE"
  /\ a.status = "GELE" => \E i \in 1..Len(p) :
       /\ LastFreezing(p, i) /\ p[i].action = "GELE"
       /\ a.frozenBy = p[i].actorDN /\ a.frozenAt = p[i].txID
       /\ a.frozenReason = p[i].justification
       /\ a.regulatoryRef \in ValidRefs
  /\ a.status = "ACTIF" =>
       /\ a.frozenBy = Empty /\ a.frozenAt = Empty
       /\ a.frozenReason = Empty /\ a.regulatoryRef = Empty
       /\ \/ \A i \in 1..Len(p) : ~Freezing(p[i])
          \/ \E i \in 1..Len(p) : LastFreezing(p, i) /\ p[i].action = "DEGELE"

FreezeDiscipline == \A id \in Issued : FreezeDisciplineOf(world[id])

(* totalTransfers counts the TRANSFERE records of the trail: TransferAsset *)
(* is the only handler that increments it, and the only one that appends   *)
(* such a record.                                                          *)
TransfersOf(p) == {i \in 1..Len(p) : p[i].action = "TRANSFERE"}

CountedOf(a) == a.totalTransfers = Cardinality(TransfersOf(a.provenance))

TransfersCounted == \A id \in Issued : CountedOf(world[id])

(* Separation of duties (verifyRole, authorisedMSPs): in every trail the   *)
(* ownership records were written by the bank and the freeze records by    *)
(* the regulator, and the issuer is the bank.                              *)
DutiesOf(a) ==
  /\ a.issuerMSP = "BANK01MSP"
  /\ \A i \in 1..Len(a.provenance) :
       a.provenance[i].actorMSP =
         (IF Ownership(a.provenance[i]) THEN "BANK01MSP" ELSE "REG01MSP")

SeparationOfDuties == \A id \in Issued : DutiesOf(world[id])

(* Each committed transaction appears exactly once, in one trail: the      *)
(* trails together are a complete, duplicate-free log of the ledger.       *)
TrailsAreTheLog ==
  /\ \A tx \in TxIds : events[tx] # "none" <=>
       \E id \in Issued : \E i \in 1..Len(Trail(id)) : Trail(id)[i].txID = tx
  /\ \A id1, id2 \in Issued :
       \A i \in 1..Len(Trail(id1)), j \in 1..Len(Trail(id2)) :
         Trail(id1)[i].txID = Trail(id2)[j].txID => id1 = id2 /\ i = j

(* History is immutable: no step removes an asset, changes its nominal     *)
(* value or its issuer, or rewrites a record of its trail.                 *)
ImmutableHistory ==
  [][\A id \in Issued :
       /\ id \in Issued'
       /\ world'[id].nominalValue = world[id].nominalValue
       /\ world'[id].issuerMSP = world[id].issuerMSP
       /\ Len(Trail(id)) <= Len(Trail(id)')
       /\ \A i \in 1..Len(Trail(id)) : Trail(id)'[i] = Trail(id)[i]]_vars

=============================================================================
