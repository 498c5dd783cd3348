------------------------------ MODULE AssetSaga ------------------------------
(***************************************************************************)
(* The asset service (core/features/assets/service.py), the valuation      *)
(* service and the Fabric synchronisation task: every operation changes    *)
(* the ledger and PostgreSQL in separate steps, and concurrent requests    *)
(* interleave at each await.  The ledger runs one handler at a time, which *)
(* FabricLedger!Serializable justifies.                                    *)
(*                                                                         *)
(* A request is loaded, checked, submitted, committed and, if the commit   *)
(* fails, compensated, in the order of its handler.  A session keeps the   *)
(* asset row it loaded (expire_on_commit is off) and its UPDATE carries    *)
(* only the columns whose value differs from that copy.                    *)
(***************************************************************************)
EXTENDS Chaincode

CONSTANTS
  Reqs,         \* requests in a behaviour
  Users,        \* e-mails of the users in PostgreSQL
  IssuerUser,   \* the owner tokenize stores: a user of the issuing org
  NumOf,        \* text -> the number ParseFloat reads in it, 0 if none
  StrOf,        \* number -> the text of str(price)
  CompText,     \* "SAGA_COMPENSATION: DB commit failure rollback"
  CompRef,      \* "SAGA-COMP"
  Requests,     \* the requests clients may make
  Payloads,     \* what the peer CLI may print after a commit
  DbFails,      \* kinds of request whose database commit may fail
  LoseReplies,  \* attempts may time out and the client give up
  NoRow         \* the asset has no row in PostgreSQL

Kinds == {"tokenize", "transfer", "freeze", "unfreeze", "valuate", "sync"}

TokenizeRequest == [kind: {"tokenize"}, client: Clients, asset: Assets,
                    wellFormed: BOOLEAN, orgKnown: BOOLEAN,
                    amount: Amounts, text: Texts]
TransferRequest == [kind: {"transfer"}, client: Clients, asset: Assets,
                    to: Owners, by: Users, amount: Amounts, text: Texts]
FreezeRequest   == [kind: {"freeze"}, client: Clients, asset: Assets,
                    text: Texts, ref: Refs]
UnfreezeRequest == [kind: {"unfreeze"}, client: Clients, asset: Assets,
                    text: Texts]
ValuateRequest  == [kind: {"valuate"}, asset: Assets, amount: Amounts]
SyncTask        == [kind: {"sync"}, asset: Assets]

Request == TokenizeRequest \cup TransferRequest \cup FreezeRequest
           \cup UnfreezeRequest \cup ValuateRequest \cup SyncTask

(* A row of assets, without the columns that nothing changes.              *)
Row == [status: {"ACTIF", "GELE"}, owner: Users \cup {IssuerUser},
        value: Amounts, nominal: Amounts, tx: TxIds \cup {Empty}]

(* The compensation's texts are fixed in the code: the justification does  *)
(* not parse as a number and "SAGA-COMP" has two of the four parts that    *)
(* regulatoryRefPattern asks for.  A user's e-mail is no X.509 name.       *)
ASSUME SagaAssumption ==
  /\ NoRow \notin Row /\ Users \cap Clients = {}
  /\ Users \subseteq Owners
  /\ NumOf \in [Texts -> Amounts \cup {0}] /\ StrOf \in [Amounts -> Texts]
  /\ CompText \in Texts /\ NumOf[CompText] = 0
  /\ CompRef \in Refs \ ValidRefs
  /\ Requests \subseteq Request
  /\ Payloads \subseteq {"full", "partial", "none"}
  /\ DbFails \subseteq Kinds
  /\ LoseReplies \in BOOLEAN

VARIABLES
  world,    \* the ledger
  used,     \* TxIDs committed on the ledger
  stray,    \* calls that nobody waits for and that may still commit
  db,       \* table assets: asset id -> row or NoRow
  rows,     \* table transactions
  pc,       \* step each request is at
  rq,       \* the request
  loaded,   \* the asset row its session holds, or what sync read
  gotTx,    \* fabric_tx_id taken from the payload, Empty if absent
  critical, \* requests that logged "[SAGA] CRITICAL: Compensation FAILED"
  disturbed \* requests overlapped, or an attempt went astray (history)

dbvars == <<db, rows>>
ledger == <<world, used, stray>>
logs == <<critical, disturbed>>
vars == <<ledger, dbvars, pc, rq, loaded, gotTx, logs>>

PcSet == {"idle", "load", "check", "submit", "commit", "compensate",
          "read", "select", "update", "done", "failed", "noPayload"}
Ended == {"idle", "done", "failed", "noPayload"}

(* What the synchronisation read; later, of it the columns to update.      *)
SyncRow == [status: {"ACTIF", "GELE", Empty}, value: Amounts \cup {Empty}]
TxRow == [tx: TxIds, type: {"TRANSFERT", "GEL", "DEGEL"}, asset: Assets,
          to: Users \cup {Empty}, amount: Amounts]

Init ==
  /\ world = [id \in Assets |-> NoAsset] /\ used = {} /\ stray = {}
  /\ db = [id \in Assets |-> NoRow] /\ rows = {}
  /\ pc = [q \in Reqs |-> "idle"]
  /\ rq \in [Reqs -> Requests]
  /\ loaded = [q \in Reqs |-> NoRow]
  /\ gotTx = [q \in Reqs |-> Empty]
  /\ critical = {}
  /\ disturbed = FALSE

Quiet == \A q \in Reqs : pc[q] \in Ended
Asset(q) == rq[q].asset
Goto(q, label) == pc' = [pc EXCEPT ![q] = label]

FirstStepMutant(kind) ==
  CASE kind \in {"tokenize", "transfer", "valuate"} -> "load"
    [] kind = "sync" -> "read"
    [] OTHER -> "submit"

(* The first step of each handler: transfer and valuate read PostgreSQL    *)
(* first, the others go to the ledger first.                               *)
FirstStep(kind) ==
  CASE kind \in {"transfer", "valuate"} -> "load"
    [] kind = "sync" -> "read"
    [] OTHER -> "submit"

Start(q) ==
  /\ pc[q] = "idle"
  /\ Goto(q, FirstStep(rq[q].kind))
  /\ disturbed' = (disturbed \/ ~Quiet)
  /\ UNCHANGED <<ledger, dbvars, rq, loaded, gotTx, critical>>

(* What the handler reads from PostgreSQL before it goes on: the asset's   *)
(* row (transfer also refuses one that is GELE, and an unknown recipient); *)
(* for tokenize, the issuing organisation.  tokenize, freeze and           *)
(* unfreeze_asset read after the ledger has committed, and do not          *)
(* compensate when the read fails.                                         *)
LoadFails(q) ==
  CASE rq[q].kind = "tokenize" -> ~rq[q].orgKnown
    [] rq[q].kind = "transfer" ->
         \/ db[Asset(q)] = NoRow
         \/ db[Asset(q)].status = "GELE"
         \/ rq[q].to \notin Users
    [] OTHER -> db[Asset(q)] = NoRow

Load(q) ==
  /\ pc[q] = "load"
  /\ IF LoadFails(q)
     THEN Goto(q, "failed") /\ UNCHANGED loaded
     ELSE /\ loaded' = [loaded EXCEPT ![q] = db[Asset(q)]]
          /\ Goto(q, IF rq[q].kind = "transfer" THEN "check" ELSE "commit")
  /\ UNCHANGED <<ledger, dbvars, rq, gotTx, logs>>

(* full_check on the recipient: blocked, or let through.                   *)
Check(q) ==
  /\ pc[q] = "check"
  /\ \/ Goto(q, "failed")
     \/ Goto(q, "submit")
  /\ UNCHANGED <<ledger, dbvars, rq, loaded, gotTx, logs>>

(* The chaincode call of each handler.  transfer passes (asset_id,         *)
(* to_owner, str(price), justification) to TransferAsset(assetID, toOwner, *)
(* justification, price): the chaincode parses the justification as the    *)
(* price and stores the price as the justification.                        *)
Submitted(r) ==
  CASE r.kind = "tokenize" ->
         [fn |-> "TokenizeAsset", client |-> r.client, asset |-> r.asset,
          wellFormed |-> r.wellFormed, amount |-> r.amount, text |-> r.text]
    [] r.kind = "transfer" ->
         [fn |-> "TransferAsset", client |-> r.client, asset |-> r.asset,
          to |-> r.to, amount |-> NumOf[r.text], text |-> StrOf[r.amount]]
    [] r.kind = "freeze" ->
         [fn |-> "FreezeAsset", client |-> r.client, asset |-> r.asset,
          text |-> r.text, ref |-> r.ref]
    [] r.kind = "unfreeze" ->
         [fn |-> "UnfreezeAsset", client |-> r.client, asset |-> r.asset,
          text |-> r.text]

(* ... and of its compensation, with the same swapped order for transfer.  *)
Compensation(r) ==
  CASE r.kind = "transfer" ->
         [fn |-> "TransferAsset", client |-> r.client, asset |-> r.asset,
          to |-> r.by, amount |-> NumOf[CompText], text |-> StrOf[r.amount]]
    [] r.kind = "freeze" ->
         [fn |-> "UnfreezeAsset", client |-> r.client, asset |-> r.asset,
          text |-> CompText]
    [] r.kind = "unfreeze" ->
         [fn |-> "FreezeAsset", client |-> r.client, asset |-> r.asset,
          text |-> CompText, ref |-> CompRef]

Execute(tx, c) ==
  /\ tx \notin used
  /\ Answer(world, c) = "ok"
  /\ world' = [world EXCEPT ![c.asset] = Write(world, tx, c)]
  /\ used' = used \cup {tx}
  /\ UNCHANGED stray

(* submit_transaction returned.  A payload that is not a dict ends the     *)
(* handler with ValueError: the ledger keeps the transaction, nothing is   *)
(* compensated and nothing logged.  One without txID and blockNumber       *)
(* leaves fabric_tx_id empty.                                              *)
SubmitReturns(q, tx) ==
  /\ pc[q] = "submit"
  /\ Execute(tx, Submitted(rq[q]))
  /\ \E p \in Payloads :
       /\ gotTx' = [gotTx EXCEPT ![q] = IF p = "full" THEN tx ELSE Empty]
       /\ Goto(q, IF p = "none" THEN "noPayload"
                  ELSE IF rq[q].kind = "transfer" THEN "commit"
                  ELSE "load")
  /\ UNCHANGED <<dbvars, rq, loaded, logs>>

(* submit_transaction raised: the chaincode refused, FabricClient gave up  *)
(* (retries exhausted, open circuit), or the peer process failed.          *)
SubmitFails(q) ==
  /\ pc[q] = "submit"
  /\ Answer(world, Submitted(rq[q])) # "ok" \/ LoseReplies
  /\ Goto(q, "failed")
  /\ UNCHANGED <<ledger, dbvars, rq, loaded, gotTx, logs>>

(* An attempt of the submission (or of its compensation) goes astray: it   *)
(* timed out and its peer process is abandoned, or the process failed      *)
(* after the transaction was ordered (FabricClient!Fail).  What follows is *)
(* another attempt or SubmitFails.                                         *)
AttemptStrays(q) ==
  /\ LoseReplies
  /\ pc[q] \in {"submit", "compensate"}
  /\ stray' = stray \cup {IF pc[q] = "submit" THEN Submitted(rq[q])
                           ELSE Compensation(rq[q])}
  /\ disturbed' = TRUE
  /\ UNCHANGED <<world, used, dbvars, pc, rq, loaded, gotTx, critical>>

(* A transaction that nobody waits for commits, at any later time.         *)
LateCommit(tx) ==
  /\ \E c \in stray : Execute(tx, c)
  /\ UNCHANGED <<dbvars, pc, rq, loaded, gotTx, logs>>

(* The UPDATE of a loaded row: only changed columns are written.           *)
Updated(old, cur, new) ==
  [cur EXCEPT !.status = IF new.status # old.status THEN new.status ELSE @,
              !.owner  = IF new.owner  # old.owner  THEN new.owner  ELSE @,
              !.value  = IF new.value  # old.value  THEN new.value  ELSE @,
              !.tx     = IF new.tx     # old.tx     THEN new.tx     ELSE @]

NewRow(q) ==
  LET r == rq[q] IN
  CASE r.kind = "transfer" ->
         [loaded[q] EXCEPT !.owner = r.to, !.value = r.amount, !.tx = gotTx[q]]
    [] r.kind = "freeze"   -> [loaded[q] EXCEPT !.status = "GELE", !.tx = gotTx[q]]
    [] r.kind = "unfreeze" -> [loaded[q] EXCEPT !.status = "ACTIF", !.tx = gotTx[q]]

Inserted(q) ==
  LET r == rq[q] IN
  CASE r.kind = "transfer" ->
         {[tx |-> gotTx[q], type |-> "TRANSFERT", asset |-> r.asset,
           to |-> r.to, amount |-> r.amount]}
    [] r.kind \in {"freeze", "unfreeze"} ->
         {[tx |-> gotTx[q], asset |-> r.asset, to |-> Empty,
           type |-> IF r.kind = "freeze" THEN "GEL" ELSE "DEGEL",
           amount |-> loaded[q].nominal]}
    [] OTHER -> {}

CommitMustFailMutant(q) == FALSE

(* transactions.fabric_tx_id is unique and fabric_block_number NOT NULL:   *)
(* without them in the payload the insert cannot succeed.                  *)
CommitMustFail(q) ==
  rq[q].kind \in {"transfer", "freeze", "unfreeze"} /\ gotTx[q] = Empty

CommitTokenize(q) ==
  /\ pc[q] = "commit" /\ rq[q].kind = "tokenize"
  /\ db[Asset(q)] = NoRow
  /\ db' = [db EXCEPT ![Asset(q)] =
       [status |-> "ACTIF", owner |-> IssuerUser, value |-> rq[q].amount,
        nominal |-> rq[q].amount, tx |-> gotTx[q]]]
  /\ Goto(q, "done")
  /\ UNCHANGED <<ledger, rows, rq, loaded, gotTx, logs>>

(* record_valuation inserts a valuation, and trg_update_asset_value copies *)
(* its value to the asset whether or not it differs from the loaded one.   *)
CommitUpdate(q) ==
  /\ pc[q] = "commit" /\ rq[q].kind # "tokenize"
  /\ ~CommitMustFail(q)
  /\ db' = [db EXCEPT ![Asset(q)] =
       IF rq[q].kind = "valuate" THEN [@ EXCEPT !.value = rq[q].amount]
       ELSE Updated(loaded[q], @, NewRow(q))]
  /\ rows' = rows \cup Inserted(q)
  /\ Goto(q, "done")
  /\ UNCHANGED <<ledger, rq, loaded, gotTx, logs>>

CommitFailsMutant(q) ==
  /\ pc[q] \in {"commit", "update"}
  /\ rq[q].kind \in DbFails \/ CommitMustFail(q)
  /\ Goto(q, IF rq[q].kind \in {"transfer", "unfreeze"}
             THEN "compensate" ELSE "failed")
  /\ UNCHANGED <<ledger, dbvars, rq, loaded, gotTx, logs>>

(* The commit raised.  tokenize, record_valuation and the synchronisation  *)
(* have no compensation.                                                   *)
CommitFails(q) ==
  /\ pc[q] \in {"commit", "update"}
  /\ rq[q].kind \in DbFails \/ CommitMustFail(q)
  /\ Goto(q, IF rq[q].kind \in {"transfer", "freeze", "unfreeze"}
             THEN "compensate" ELSE "failed")
  /\ UNCHANGED <<ledger, dbvars, rq, loaded, gotTx, logs>>

Compensate(q, tx) ==
  /\ pc[q] = "compensate"
  /\ Execute(tx, Compensation(rq[q]))
  /\ Goto(q, "failed")
  /\ UNCHANGED <<dbvars, rq, loaded, gotTx, logs>>

CompensationFails(q) ==
  /\ pc[q] = "compensate"
  /\ Answer(world, Compensation(rq[q])) # "ok" \/ LoseReplies
  /\ critical' = critical \cup {q}
  /\ Goto(q, "failed")
  /\ UNCHANGED <<ledger, dbvars, rq, loaded, gotTx, disturbed>>

(* _do_sync_fabric_state: GetAsset on the ledger, SELECT, then an UPDATE   *)
(* of the columns that differed.  evaluate_transaction turns currentValue  *)
(* into current_value, but currentOwner into current_owner where the task  *)
(* looks for current_owner_id: the owner is never synchronised.            *)
SyncRead(q) ==
  /\ pc[q] = "read"
  /\ IF world[Asset(q)] = NoAsset
     THEN Goto(q, "failed") /\ UNCHANGED loaded
     ELSE /\ loaded' = [loaded EXCEPT ![q] =
                [status |-> world[Asset(q)].status,
                 value |-> world[Asset(q)].currentValue]]
          /\ Goto(q, "select")
  /\ UNCHANGED <<ledger, dbvars, rq, gotTx, logs>>

(* A column of the ledger's that differs from the row's, Empty otherwise.  *)
Differs(ours, theirs) == IF ours # theirs THEN theirs ELSE Empty

SyncSelect(q) ==
  /\ pc[q] = "select"
  /\ LET row == db[Asset(q)]
         differ == [status |-> Differs(row.status, loaded[q].status),
                    value |-> Differs(row.value, loaded[q].value)]
     IN IF row = NoRow \/ differ = [status |-> Empty, value |-> Empty]
        THEN loaded' = [loaded EXCEPT ![q] = NoRow] /\ Goto(q, "done")
        ELSE loaded' = [loaded EXCEPT ![q] = differ] /\ Goto(q, "update")
  /\ UNCHANGED <<ledger, dbvars, rq, gotTx, logs>>

SyncUpdate(q) ==
  /\ pc[q] = "update"
  /\ LET row == db[Asset(q)]
         got == loaded[q]
         synced == [row EXCEPT
           !.status = IF got.status # Empty THEN got.status ELSE @,
           !.value  = IF got.value # Empty THEN got.value ELSE @]
     IN db' = [db EXCEPT ![Asset(q)] = synced]
  /\ Goto(q, "done")
  /\ UNCHANGED <<ledger, rows, rq, loaded, gotTx, logs>>

Next ==
  \/ \E q \in Reqs :
       \/ Start(q) \/ Load(q) \/ Check(q)
       \/ \E tx \in TxIds : SubmitReturns(q, tx)
       \/ SubmitFails(q) \/ AttemptStrays(q)
       \/ CommitTokenize(q) \/ CommitUpdate(q) \/ CommitFails(q)
       \/ \E tx \in TxIds : Compensate(q, tx)
       \/ CompensationFails(q)
       \/ SyncRead(q) \/ SyncSelect(q) \/ SyncUpdate(q)
  \/ \E tx \in TxIds : LateCommit(tx)

Spec == Init /\ [][Next]_vars

-----------------------------------------------------------------------------
(* Type correctness of both stores and of the requests' local state.       *)
TypeOK ==
  /\ world \in [Assets -> FinancialAsset \cup {NoAsset}]
  /\ used \subseteq TxIds
  /\ stray \subseteq Call \cup {[c EXCEPT !.amount = 0] : c \in TransferCall}
  /\ db \in [Assets -> Row \cup {NoRow}]
  /\ rows \subseteq TxRow
  /\ pc \in [Reqs -> PcSet] /\ rq \in [Reqs -> Requests]
  /\ loaded \in [Reqs -> Row \cup {NoRow} \cup SyncRow]
  /\ gotTx \in [Reqs -> TxIds \cup {Empty}]
  /\ critical \subseteq Reqs /\ disturbed \in BOOLEAN

LedgerAction ==
  [TRANSFERT |-> "TRANSFERE", GEL |-> "GELE", DEGEL |-> "DEGELE"]

(***************************************************************************)
(* PostgreSQL never runs ahead of the ledger, whatever fails, is lost or   *)
(* interleaves: every row of transactions is the image of one record of    *)
(* its asset's trail, with the same TxID, operation and recipient, and     *)
(* every row of assets describes an asset of the ledger, with its nominal  *)
(* value and a TxID of its trail.                                          *)
(***************************************************************************)
NoPhantomRows ==
  /\ \A t \in rows :
       /\ world[t.asset] # NoAsset
       /\ \E i \in 1..Len(world[t.asset].provenance) :
            LET r == world[t.asset].provenance[i] IN
            /\ r.txID = t.tx /\ r.action = LedgerAction[t.type]
            /\ t.type = "TRANSFERT" => r.toOwner = t.to
  /\ \A id \in Assets : db[id] # NoRow =>
       /\ world[id] # NoAsset
       /\ db[id].nominal = world[id].nominalValue
       /\ db[id].tx # Empty =>
            \E i \in 1..Len(world[id].provenance) :
              world[id].provenance[i].txID = db[id].tx

Recorded == {id \in Assets : db[id] # NoRow /\ world[id] # NoAsset}

SameStatus(id) == db[id].status = world[id].status
SameOwner(id) ==
  db[id].owner = IF world[id].currentOwner \in Clients THEN IssuerUser
                 ELSE world[id].currentOwner

(* README: "Distributed transaction consistency between PostgreSQL and     *)
(* Fabric is guaranteed through the SAGA orchestration pattern, which      *)
(* triggers automated compensating actions on execution failures": once    *)
(* requests that did not overlap, and of which no attempt went astray,     *)
(* have ended, an asset is in both stores or in neither, with one status   *)
(* and one owner.                                                          *)
SagaGuarantee ==
  Quiet /\ ~disturbed =>
    /\ \A id \in Assets : db[id] = NoRow <=> world[id] = NoAsset
    /\ \A id \in Recorded : SameStatus(id) /\ SameOwner(id)

(* A request on the asset that left the stores apart: it logged that its   *)
(* compensation failed, or its submission committed without a payload.     *)
Excuse(kinds, id) ==
  \E q \in Reqs : /\ rq[q].kind \in kinds /\ rq[q].asset = id
                  /\ q \in critical \/ pc[q] = "noPayload"

(***************************************************************************)
(* What the saga does achieve when requests do not overlap and no attempt  *)
(* goes astray: once quiet, the stores differ in status only if a freeze   *)
(* or an unfreeze, and in owner only if a transfer, has logged that its    *)
(* compensation failed - or has ended with the ValueError of a submission  *)
(* that committed and printed no payload, the one case that is neither     *)
(* compensated nor logged.  An asset without a row has a tokenisation that *)
(* failed.                                                                 *)
(***************************************************************************)
DivergenceIsExplained ==
  Quiet /\ ~disturbed =>
    /\ \A id \in Assets : world[id] # NoAsset /\ db[id] = NoRow =>
         \E q \in Reqs : /\ rq[q].kind = "tokenize" /\ rq[q].asset = id
                         /\ pc[q] \in {"failed", "noPayload"}
    /\ \A id \in Recorded :
         /\ ~SameStatus(id) => Excuse({"freeze", "unfreeze"}, id)
         /\ ~SameOwner(id) => Excuse({"transfer"}, id)
=============================================================================
