------------------------------ MODULE Chaincode ------------------------------
(***************************************************************************)
(* The AssetTraceContract chaincode (chaincode/*.go) as operators: for     *)
(* each handler the condition under which it returns no error, the asset   *)
(* record it writes with PutState, and the chaincode event its transaction *)
(* carries.  The module has no state: AssetContract runs the handlers one  *)
(* at a time, FabricLedger runs them the way Fabric does (endorse now,     *)
(* validate and commit later), AssetSaga runs them under the API.          *)
(*                                                                         *)
(* Data are abstract.  A text (reason, justification) is a member of       *)
(* Texts, an owner a member of Owners, the four format checks of           *)
(* TokenizeAsset are one Boolean of the call, a transaction's timestamp is *)
(* named by its transaction identifier, and MspOf gives a client's MSP up  *)
(* to letter case (verifyRole compares with EqualFold).                    *)
(***************************************************************************)
EXTENDS Integers, Sequences, FiniteSets

CONSTANTS
  Assets,         \* asset identifiers
  TxIds,          \* Fabric transaction identifiers, each used at most once
  Clients,        \* X.509 distinguished names of submitting clients
  MspOf,          \* the MSP of a client
  Owners,         \* strings passed as toOwner
  Amounts,        \* numbers passed as nominalValue or price
  MicaThreshold,  \* micaThresholdEUR
  Refs,           \* strings passed as regulatoryRef
  ValidRefs,      \* those that match regulatoryRefPattern
  Texts,          \* reasons and justifications
  Empty,          \* Go's empty string
  NoAsset         \* GetState returned nil

(* getClientDN and getClientMSP reject an empty answer and the pattern of  *)
(* regulatory references does not match the empty string.                  *)
ASSUME ClientAssumption ==
  /\ MspOf \in [Clients -> STRING]
  /\ Empty \notin Clients /\ Empty \notin TxIds /\ Empty \notin ValidRefs

ASSUME DataAssumption ==
  /\ Amounts \subseteq Int /\ MicaThreshold \in Int
  /\ ValidRefs \subseteq Refs

-----------------------------------------------------------------------------
(* The calls a client can make; every string argument is client-chosen.    *)

TokenizeCall ==
  [fn: {"TokenizeAsset"}, client: Clients, asset: Assets,
   wellFormed: BOOLEAN, amount: Amounts, text: Texts]

TransferCall ==
  [fn: {"TransferAsset"}, client: Clients, asset: Assets,
   to: Owners, amount: Amounts, text: Texts]

FreezeCall ==
  [fn: {"FreezeAsset"}, client: Clients, asset: Assets,
   text: Texts, ref: Refs]

UnfreezeCall ==
  [fn: {"UnfreezeAsset"}, client: Clients, asset: Assets, text: Texts]

Call == TokenizeCall \cup TransferCall \cup FreezeCall \cup UnfreezeCall

(* ProvenanceRecord and FinancialAsset, without the descriptive fields     *)
(* that no handler reads or changes after issuance.                        *)
ActionName == {"TOKENISE", "TRANSFERE", "GELE", "DEGELE"}

ProvenanceRecord ==
  [txID: TxIds, actorMSP: STRING, actorDN: Clients, action: ActionName,
   fromOwner: Owners \cup Clients \cup {Empty},
   toOwner: Owners \cup Clients \cup {Empty},
   amount: Amounts \cup {0}, justification: Texts]

FinancialAsset ==
  [issuerMSP: STRING, currentOwner: Owners \cup Clients,
   nominalValue: Amounts, currentValue: Amounts,
   status: {"ACTIF", "GELE"},
   frozenBy: Clients \cup {Empty}, frozenAt: TxIds \cup {Empty},
   frozenReason: Texts \cup {Empty}, regulatoryRef: ValidRefs \cup {Empty},
   totalTransfers: Nat, provenance: Seq(ProvenanceRecord)]

ASSUME NoAssetAssumption == NoAsset \notin FinancialAsset

-----------------------------------------------------------------------------
(* Access control and the compliance helpers.                              *)

authorisedMSPs ==
  [TokenizeAsset |-> {"BANK01MSP"}, TransferAsset |-> {"BANK01MSP"},
   FreezeAsset   |-> {"REG01MSP"},  UnfreezeAsset |-> {"REG01MSP"}]

verifyRole(client, fn) == MspOf[client] \in authorisedMSPs[fn]

assetExists(world, id) == world[id] # NoAsset

RequireActiveAssetMutant(a) == TRUE

RequireActiveAsset(a) == a.status = "ACTIF"

RequireFrozenAsset(a) == a.status = "GELE"

(* Whether CheckMiCAThreshold calls SetEvent("MiCAThresholdExceeded").     *)
CheckMiCAThreshold(amount) == amount > MicaThreshold

-----------------------------------------------------------------------------
(* What each handler checks, in the order of its early returns.  "ok" is a *)
(* nil error; the other answers name the error.                            *)

TokenizeAnswerMutant(world, c) ==
  IF ~verifyRole(c.client, c.fn)      THEN "denied"
  ELSE IF ~c.wellFormed               THEN "malformed"
  ELSE IF c.amount <= 0               THEN "badAmount"
  ELSE "ok"

TokenizeAnswer(world, c) ==
  IF ~verifyRole(c.client, c.fn)      THEN "denied"
  ELSE IF ~c.wellFormed               THEN "malformed"
  ELSE IF c.amount <= 0               THEN "badAmount"
  ELSE IF assetExists(world, c.asset) THEN "exists"
  ELSE "ok"

TransferAnswer(world, c) ==
  IF ~verifyRole(c.client, c.fn)                THEN "denied"
  ELSE IF c.amount <= 0                         THEN "badAmount"
  ELSE IF ~assetExists(world, c.asset)          THEN "notFound"
  ELSE IF ~RequireActiveAsset(world[c.asset])   THEN "notActive"
  ELSE "ok"

FreezeAnswer(world, c) ==
  IF ~verifyRole(c.client, c.fn)              THEN "denied"
  ELSE IF c.ref \notin ValidRefs              THEN "badRef"
  ELSE IF ~assetExists(world, c.asset)        THEN "notFound"
  ELSE IF world[c.asset].status = "GELE"      THEN "alreadyFrozen"
  ELSE "ok"

UnfreezeAnswer(world, c) ==
  IF ~verifyRole(c.client, c.fn)                THEN "denied"
  ELSE IF ~assetExists(world, c.asset)          THEN "notFound"
  ELSE IF ~RequireFrozenAsset(world[c.asset])   THEN "notFrozen"
  ELSE "ok"

Answer(world, c) ==
  CASE c.fn = "TokenizeAsset" -> TokenizeAnswer(world, c)
    [] c.fn = "TransferAsset" -> TransferAnswer(world, c)
    [] c.fn = "FreezeAsset"   -> FreezeAnswer(world, c)
    [] c.fn = "UnfreezeAsset" -> UnfreezeAnswer(world, c)

Answers == {"ok", "denied", "malformed", "badAmount", "exists", "notFound",
            "notActive", "badRef", "alreadyFrozen", "notFrozen"}

-----------------------------------------------------------------------------
(* What each handler writes when it returns no error.                      *)

Record(tx, c, action, from, to, amount) ==
  [txID |-> tx, actorMSP |-> MspOf[c.client], actorDN |-> c.client,
   action |-> action, fromOwner |-> from, toOwner |-> to,
   amount |-> amount, justification |-> c.text]

TokenizeWrite(tx, c) ==
  [issuerMSP |-> MspOf[c.client], currentOwner |-> c.client,
   nominalValue |-> c.amount, currentValue |-> c.amount,
   status |-> "ACTIF", frozenBy |-> Empty, frozenAt |-> Empty,
   frozenReason |-> Empty, regulatoryRef |-> Empty, totalTransfers |-> 0,
   provenance |->
     <<Record(tx, c, "TOKENISE", Empty, c.client, c.amount)>>]

TransferWriteFromActor(a, tx, c) ==
  [a EXCEPT !.currentOwner = c.to, !.currentValue = c.amount,
     !.totalTransfers = @ + 1,
     !.provenance =
        Append(@, Record(tx, c, "TRANSFERE", c.client, c.to, c.amount))]

TransferWrite(a, tx, c) ==
  [a EXCEPT !.currentOwner = c.to, !.currentValue = c.amount,
     !.totalTransfers = @ + 1,
     !.provenance = Append(@, Record(tx, c, "TRANSFERE",
                                     a.currentOwner, c.to, c.amount))]

FreezeWriteNoRecord(a, tx, c) ==
  [a EXCEPT !.status = "GELE", !.frozenBy = c.client, !.frozenAt = tx,
            !.frozenReason = c.text, !.regulatoryRef = c.ref]

FreezeWrite(a, tx, c) ==
  [a EXCEPT !.status = "GELE", !.frozenBy = c.client, !.frozenAt = tx,
     !.frozenReason = c.text, !.regulatoryRef = c.ref,
     !.provenance = Append(@, Record(tx, c, "GELE", Empty, Empty, 0))]

UnfreezeWrite(a, tx, c) ==
  [a EXCEPT !.status = "ACTIF", !.frozenBy = Empty, !.frozenAt = Empty,
     !.frozenReason = Empty, !.regulatoryRef = Empty,
     !.provenance = Append(@, Record(tx, c, "DEGELE", Empty, Empty, 0))]

Write(world, tx, c) ==
  CASE c.fn = "TokenizeAsset" -> TokenizeWrite(tx, c)
    [] c.fn = "TransferAsset" -> TransferWrite(world[c.asset], tx, c)
    [] c.fn = "FreezeAsset"   -> FreezeWrite(world[c.asset], tx, c)
    [] c.fn = "UnfreezeAsset" -> UnfreezeWrite(world[c.asset], tx, c)

(***************************************************************************)
(* The event of the handler's transaction.  TransferAsset calls SetEvent   *)
(* inside CheckMiCAThreshold and again before it returns; a transaction    *)
(* carries one event, the last one set (SetEvent is external).             *)
(***************************************************************************)
SetEvents(c) ==
  CASE c.fn = "TokenizeAsset" -> <<"AssetCreated">>
    [] c.fn = "TransferAsset" ->
         IF CheckMiCAThreshold(c.amount)
         THEN <<"MiCAThresholdExceeded", "AssetTransferred">>
         ELSE <<"AssetTransferred">>
    [] c.fn = "FreezeAsset"   -> <<"AssetFrozen">>
    [] c.fn = "UnfreezeAsset" -> <<"AssetUnfrozen">>

Event(c) == SetEvents(c)[Len(SetEvents(c))]

EventNames == {"AssetCreated", "AssetTransferred", "AssetFrozen",
               "AssetUnfrozen", "MiCAThresholdExceeded"}
=============================================================================
