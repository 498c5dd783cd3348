--------------------------- MODULE AssetSagaProofs ---------------------------
(***************************************************************************)
(* Proofs about the asset service, for every number of assets, requests,   *)
(* users and transactions: both stores stay well typed, PostgreSQL never   *)
(* runs ahead of the ledger, and requests that do not overlap leave the    *)
(* stores in agreement or a log entry behind.                              *)
(***************************************************************************)
EXTENDS AssetSaga, ChaincodeProofs

-----------------------------------------------------------------------------
(* The steps a request of each kind goes through.                          *)
StepsOf(kind) ==
  CASE kind = "tokenize" -> {"idle", "submit", "load", "commit", "done", "failed",
                             "noPayload"}
    [] kind = "transfer" -> {"idle", "load", "check", "submit", "commit",
                             "compensate", "done", "failed", "noPayload"}
    [] kind \in {"freeze", "unfreeze"} ->
         {"idle", "submit", "load", "commit", "compensate", "done", "failed",
          "noPayload"}
    [] kind = "valuate" -> {"idle", "load", "commit", "done", "failed"}
    [] OTHER -> {"idle", "read", "select", "update", "done", "failed"}

(* The request's submission has committed, and its handler goes on.        *)
Pending(q) ==
  \/ rq[q].kind \in {"tokenize", "freeze", "unfreeze"}
     /\ pc[q] \in {"load", "commit", "compensate"}
  \/ rq[q].kind = "transfer" /\ pc[q] \in {"commit", "compensate"}

(* What the session holds, and that the row it was read from is there:     *)
(* no handler deletes a row of assets.                                     *)
RowHeld(q) ==
  /\ rq[q].kind = "transfer" /\ pc[q] \in {"check", "submit", "commit", "compensate"}
     => loaded[q] \in Row /\ db[Asset(q)] # NoRow /\ rq[q].to \in Users
  /\ rq[q].kind \in {"freeze", "unfreeze", "valuate"}
     /\ pc[q] \in {"commit", "compensate"}
     => loaded[q] \in Row /\ db[Asset(q)] # NoRow
  /\ pc[q] = "select" => loaded[q] \in [status: {"ACTIF", "GELE"}, value: Amounts]
  /\ pc[q] = "update" => loaded[q] \in SyncRow /\ db[Asset(q)] # NoRow

(* The action of the record a request's submission appends.                *)
ActionOf(kind) ==
  CASE kind = "tokenize" -> "TOKENISE"
    [] kind = "transfer" -> "TRANSFERE"
    [] kind = "freeze"   -> "GELE"
    [] OTHER             -> "DEGELE"

(* The ledger holds what the request submitted, under the TxID it got.     *)
Landed(q) ==
  Pending(q) =>
    /\ world[Asset(q)] # NoAsset
    /\ rq[q].kind = "tokenize" => world[Asset(q)].nominalValue = rq[q].amount
    /\ gotTx[q] # Empty =>
         \E i \in 1..Len(world[Asset(q)].provenance) :
           LET r == world[Asset(q)].provenance[i] IN
           /\ r.txID = gotTx[q] /\ r.action = ActionOf(rq[q].kind)
           /\ rq[q].kind = "transfer" => r.toOwner = rq[q].to

BaseInv ==
  /\ TypeOK
  /\ \A q \in Reqs : pc[q] \in StepsOf(rq[q].kind)
  /\ \A q \in Reqs : RowHeld(q)
  /\ \A q \in Reqs : Landed(q)
  /\ NoPhantomRows

-----------------------------------------------------------------------------
(* While nothing has overlapped and no attempt went astray.                *)
Active(q) == pc[q] \notin Ended

MissingExcused(id) ==
  \E q \in Reqs : /\ rq[q].kind = "tokenize" /\ rq[q].asset = id
                  /\ pc[q] \in {"failed", "noPayload"}
StatusExcused(id) == Excuse({"freeze", "unfreeze"}, id)
OwnerExcused(id) == Excuse({"transfer"}, id)

(* The status a freeze or an unfreeze asks for, and the one it ends.       *)
Target(kind) == IF kind = "freeze" THEN "GELE" ELSE "ACTIF"
Former(kind) == IF kind = "freeze" THEN "ACTIF" ELSE "GELE"

(* What holds of the request under way.                                    *)
StageOK(q) ==
  LET id == Asset(q) IN
  /\ rq[q].kind = "tokenize" /\ Pending(q) =>
       /\ db[id] = NoRow /\ world[id].status = "ACTIF"
       /\ world[id].currentOwner \in Clients
  /\ rq[q].kind = "transfer" /\ pc[q] \in {"check", "submit", "commit"} =>
       loaded[q] = db[id]
  /\ rq[q].kind = "transfer" /\ Pending(q) =>
       world[id].currentOwner = rq[q].to
  /\ rq[q].kind \in {"freeze", "unfreeze"} /\ Pending(q) =>
       /\ world[id].status = Target(rq[q].kind)
       /\ db[id] # NoRow => \/ db[id].status = Former(rq[q].kind)
                            \/ StatusExcused(id)
  /\ rq[q].kind \in {"freeze", "unfreeze"} /\ pc[q] = "commit" =>
       loaded[q] = db[id]
  /\ pc[q] = "select" => /\ world[id] # NoAsset
                         /\ loaded[q].status = world[id].status
  /\ pc[q] = "update" => /\ world[id] # NoAsset
                         /\ loaded[q].status \in {Empty, world[id].status}

(* The stores agree on the asset, or a request on it is under way, or the  *)
(* failure that made them differ was logged.                               *)
AssetOK(id) ==
  /\ world[id] # NoAsset /\ db[id] = NoRow =>
       \/ MissingExcused(id)
       \/ \E q \in Reqs : /\ Pending(q) /\ rq[q].kind = "tokenize"
                          /\ rq[q].asset = id
  /\ id \in Recorded /\ ~SameStatus(id) =>
       \/ StatusExcused(id)
       \/ \E q \in Reqs : /\ Pending(q) /\ rq[q].asset = id
                          /\ rq[q].kind \in {"freeze", "unfreeze"}
  /\ id \in Recorded /\ ~SameOwner(id) =>
       \/ OwnerExcused(id)
       \/ \E q \in Reqs : /\ Pending(q) /\ rq[q].kind = "transfer"
                          /\ rq[q].asset = id

InTurn ==
  /\ stray = {}
  /\ \A p, q \in Reqs : Active(p) /\ Active(q) => p = q
  /\ \A q \in Reqs : StageOK(q)
  /\ \A id \in Assets : AssetOK(id)

IInv == BaseInv /\ (~disturbed => InTurn)

-----------------------------------------------------------------------------
(* The calls a handler or its compensation makes.  A transfer whose text   *)
(* does not parse passes the price 0.                                      *)
SagaCall == Call \cup {[c EXCEPT !.amount = 0] : c \in TransferCall}

LEMMA KindsOf ==
  ASSUME NEW r \in Request
  PROVE  /\ r.asset \in Assets /\ r.kind \in Kinds
         /\ r.kind = "tokenize" => r \in TokenizeRequest
         /\ r.kind = "transfer" => r \in TransferRequest
         /\ r.kind = "freeze" => r \in FreezeRequest
         /\ r.kind = "unfreeze" => r \in UnfreezeRequest
         /\ r.kind = "valuate" => r \in ValuateRequest
         /\ r.kind = "sync" => r \in SyncTask
<1>1. CASE r \in TokenizeRequest
  BY <1>1 DEF TokenizeRequest, Kinds
<1>2. CASE r \in TransferRequest
  BY <1>2 DEF TransferRequest, Kinds
<1>3. CASE r \in FreezeRequest
  BY <1>3 DEF FreezeRequest, Kinds
<1>4. CASE r \in UnfreezeRequest
  BY <1>4 DEF UnfreezeRequest, Kinds
<1>5. CASE r \in ValuateRequest
  BY <1>5 DEF ValuateRequest, Kinds
<1>6. CASE r \in SyncTask
  BY <1>6 DEF SyncTask, Kinds
<1>7. QED
  BY <1>1, <1>2, <1>3, <1>4, <1>5, <1>6 DEF Request

(* A transfer with a price of Amounts or 0 is one of those calls.          *)
LEMMA TransferIsCall ==
  ASSUME NEW k \in Clients, NEW a \in Assets, NEW o \in Owners,
         NEW n \in Amounts \cup {0}, NEW t \in Texts, NEW m \in Amounts
  PROVE  [fn |-> "TransferAsset", client |-> k, asset |-> a, to |-> o,
          amount |-> n, text |-> t] \in SagaCall
<1> DEFINE c == [fn |-> "TransferAsset", client |-> k, asset |-> a, to |-> o,
                 amount |-> n, text |-> t]
           d == [fn |-> "TransferAsset", client |-> k, asset |-> a, to |-> o,
                 amount |-> m, text |-> t]
<1>1. CASE n \in Amounts
  <2>1. c \in TransferCall
    BY <1>1 DEF TransferCall
  <2>2. QED
    BY <2>1 DEF SagaCall, Call
<1>2. CASE n = 0
  <2>1. d \in TransferCall
    BY DEF TransferCall
  <2>2. c = [d EXCEPT !.amount = 0]
    BY <1>2
  <2>3. QED
    BY <2>1, <2>2 DEF SagaCall
<1>3. QED
  BY <1>1, <1>2

(* The submission of a request: its type, and what it asks for.            *)
LEMMA SubmittedCall ==
  ASSUME NEW r \in Request,
         r.kind \in {"tokenize", "transfer", "freeze", "unfreeze"}
  PROVE  LET c == Submitted(r) IN
         /\ c \in SagaCall /\ c.asset = r.asset
         /\ r.kind = "tokenize" =>
              /\ c.fn = "TokenizeAsset" /\ c.client \in Clients
              /\ c.amount = r.amount
         /\ r.kind = "transfer" => c.fn = "TransferAsset" /\ c.to = r.to
         /\ r.kind = "freeze" => c.fn = "FreezeAsset"
         /\ r.kind = "unfreeze" => c.fn = "UnfreezeAsset"
<1>1. CASE r.kind = "tokenize"
  <2>1. r \in TokenizeRequest
    BY <1>1, KindsOf
  <2>2. Submitted(r) = [fn |-> "TokenizeAsset", client |-> r.client,
          asset |-> r.asset, wellFormed |-> r.wellFormed,
          amount |-> r.amount, text |-> r.text]
    BY <1>1 DEF Submitted
  <2>3. Submitted(r) \in TokenizeCall
    BY <2>1, <2>2 DEF TokenizeRequest, TokenizeCall
  <2>4. QED
    BY <1>1, <2>1, <2>2, <2>3 DEF SagaCall, Call, TokenizeRequest
<1>2. CASE r.kind = "transfer"
  <2>1. r \in TransferRequest
    BY <1>2, KindsOf
  <2>2. Submitted(r) = [fn |-> "TransferAsset", client |-> r.client,
          asset |-> r.asset, to |-> r.to, amount |-> NumOf[r.text],
          text |-> StrOf[r.amount]]
    BY <1>2 DEF Submitted
  <2>3. /\ r.client \in Clients /\ r.asset \in Assets /\ r.to \in Owners
        /\ NumOf[r.text] \in Amounts \cup {0} /\ StrOf[r.amount] \in Texts
        /\ r.amount \in Amounts
    BY <2>1, SagaAssumption DEF TransferRequest
  <2>4. Submitted(r) \in SagaCall
    BY <2>2, <2>3, TransferIsCall
  <2>5. QED
    BY <1>2, <2>2, <2>4
<1>3. CASE r.kind = "freeze"
  <2>1. r \in FreezeRequest
    BY <1>3, KindsOf
  <2>2. Submitted(r) = [fn |-> "FreezeAsset", client |-> r.client,
          asset |-> r.asset, text |-> r.text, ref |-> r.ref]
    BY <1>3 DEF Submitted
  <2>3. Submitted(r) \in FreezeCall
    BY <2>1, <2>2 DEF FreezeRequest, FreezeCall
  <2>4. QED
    BY <1>3, <2>2, <2>3 DEF SagaCall, Call
<1>4. CASE r.kind = "unfreeze"
  <2>1. r \in UnfreezeRequest
    BY <1>4, KindsOf
  <2>2. Submitted(r) = [fn |-> "UnfreezeAsset", client |-> r.client,
          asset |-> r.asset, text |-> r.text]
    BY <1>4 DEF Submitted
  <2>3. Submitted(r) \in UnfreezeCall
    BY <2>1, <2>2 DEF UnfreezeRequest, UnfreezeCall
  <2>4. QED
    BY <1>4, <2>2, <2>3 DEF SagaCall, Call
<1>5. QED
  BY <1>1, <1>2, <1>3, <1>4

(* The compensation of a request.  That of a transfer carries the price 0  *)
(* and that of an unfreeze an invalid reference: the ledger refuses both.  *)
LEMMA CompensationCall ==
  ASSUME NEW r \in Request, r.kind \in {"transfer", "freeze", "unfreeze"}
  PROVE  LET c == Compensation(r) IN
         /\ c \in SagaCall /\ c.asset = r.asset
         /\ r.kind = "transfer" => c.fn = "TransferAsset" /\ c.amount = 0
         /\ r.kind = "freeze" => c.fn = "UnfreezeAsset"
         /\ r.kind = "unfreeze" => c.fn = "FreezeAsset" /\ c.ref \notin ValidRefs
<1>1. CASE r.kind = "transfer"
  <2>1. r \in TransferRequest
    BY <1>1, KindsOf
  <2>2. Compensation(r) = [fn |-> "TransferAsset", client |-> r.client,
          asset |-> r.asset, to |-> r.by, amount |-> NumOf[CompText],
          text |-> StrOf[r.amount]]
    BY <1>1 DEF Compensation
  <2>3. /\ r.client \in Clients /\ r.asset \in Assets /\ r.by \in Owners
        /\ NumOf[CompText] = 0 /\ StrOf[r.amount] \in Texts
        /\ r.amount \in Amounts
    BY <2>1, SagaAssumption DEF TransferRequest
  <2>4. Compensation(r) \in SagaCall
    BY <2>2, <2>3, TransferIsCall
  <2>5. QED
    BY <1>1, <2>2, <2>3, <2>4
<1>2. CASE r.kind = "freeze"
  <2>1. r \in FreezeRequest
    BY <1>2, KindsOf
  <2>2. Compensation(r) = [fn |-> "UnfreezeAsset", client |-> r.client,
          asset |-> r.asset, text |-> CompText]
    BY <1>2 DEF Compensation
  <2>3. Compensation(r) \in UnfreezeCall
    BY <2>1, <2>2, SagaAssumption DEF FreezeRequest, UnfreezeCall
  <2>4. QED
    BY <1>2, <2>2, <2>3 DEF SagaCall, Call
<1>3. CASE r.kind = "unfreeze"
  <2>1. r \in UnfreezeRequest
    BY <1>3, KindsOf
  <2>2. Compensation(r) = [fn |-> "FreezeAsset", client |-> r.client,
          asset |-> r.asset, text |-> CompText, ref |-> CompRef]
    BY <1>3 DEF Compensation
  <2>3. Compensation(r) \in FreezeCall
    BY <2>1, <2>2, SagaAssumption DEF UnfreezeRequest, FreezeCall
  <2>4. QED
    BY <1>3, <2>2, <2>3, SagaAssumption DEF SagaCall, Call
<1>4. QED
  BY <1>1, <1>2, <1>3

(* TransferAsset refuses the price 0, so a call that the ledger accepts is *)
(* one of the chaincode's calls.                                           *)
LEMMA AcceptedIsCall ==
  ASSUME NEW w, NEW c \in SagaCall, Answer(w, c) = "ok"
  PROVE  /\ c \in Call
         /\ c.fn = "TransferAsset" => c.amount # 0
         /\ c.fn = "FreezeAsset" => c.ref \in ValidRefs
<1>1. c.fn = "TransferAsset" => c.amount # 0
  <2>1. SUFFICES ASSUME c.fn = "TransferAsset", c.amount = 0 PROVE FALSE
    OBVIOUS
  <2>2. Answer(w, c) = TransferAnswer(w, c)
    BY <2>1 DEF Answer
  <2>3. TransferAnswer(w, c) # "ok"
    BY <2>1 DEF TransferAnswer
  <2>4. QED
    BY <2>2, <2>3
<1>2. c.fn = "FreezeAsset" => c.ref \in ValidRefs
  <2>1. SUFFICES ASSUME c.fn = "FreezeAsset", c.ref \notin ValidRefs PROVE FALSE
    OBVIOUS
  <2>2. Answer(w, c) = FreezeAnswer(w, c)
    BY <2>1 DEF Answer
  <2>3. FreezeAnswer(w, c) # "ok"
    BY <2>1 DEF FreezeAnswer
  <2>4. QED
    BY <2>2, <2>3
<1>3. ASSUME NEW d \in TransferCall, c = [d EXCEPT !.amount = 0] PROVE FALSE
  <2>1. c.fn = "TransferAsset" /\ c.amount = 0
    BY <1>3 DEF TransferCall
  <2>2. QED
    BY <1>1, <2>1
<1>4. QED
  BY <1>1, <1>2, <1>3 DEF SagaCall

-----------------------------------------------------------------------------
(* What a call that the ledger executes does to the world state.           *)

(* The action of the record a handler appends.                             *)
Appends(fn) ==
  CASE fn = "TokenizeAsset" -> "TOKENISE"
    [] fn = "TransferAsset" -> "TRANSFERE"
    [] fn = "FreezeAsset"   -> "GELE"
    [] OTHER                -> "DEGELE"

(* Nothing on the ledger is lost from w to v.                              *)
Grown(w, v) ==
  \A id \in Assets : w[id] # NoAsset =>
    /\ v[id] # NoAsset
    /\ v[id].nominalValue = w[id].nominalValue
    /\ \A i \in 1..Len(w[id].provenance) :
         /\ i \in 1..Len(v[id].provenance)
         /\ v[id].provenance[i] = w[id].provenance[i]

(* The record b that call c writes over a under transaction tx.            *)
Wrote(a, b, tx, c) ==
  /\ b \in FinancialAsset
  /\ a # NoAsset =>
       /\ b.nominalValue = a.nominalValue
       /\ \A i \in 1..Len(a.provenance) :
            i \in 1..Len(b.provenance) /\ b.provenance[i] = a.provenance[i]
  /\ c.fn = "TokenizeAsset" =>
       /\ a = NoAsset /\ b.status = "ACTIF" /\ b.currentOwner = c.client
       /\ b.nominalValue = c.amount
  /\ c.fn = "TransferAsset" =>
       /\ a # NoAsset /\ b.status = a.status /\ b.currentOwner = c.to
  /\ c.fn = "FreezeAsset" =>
       /\ a # NoAsset /\ a.status = "ACTIF" /\ b.status = "GELE"
       /\ b.currentOwner = a.currentOwner
  /\ c.fn = "UnfreezeAsset" =>
       /\ a # NoAsset /\ a.status = "GELE" /\ b.status = "ACTIF"
       /\ b.currentOwner = a.currentOwner
  /\ \E i \in 1..Len(b.provenance) :
       /\ b.provenance[i].txID = tx /\ b.provenance[i].action = Appends(c.fn)
       /\ c.fn = "TransferAsset" => b.provenance[i].toOwner = c.to

LEMMA WriteWrote ==
  ASSUME NEW w \in [Assets -> FinancialAsset \cup {NoAsset}],
         NEW tx \in TxIds, NEW c \in Call, Answer(w, c) = "ok"
  PROVE  Wrote(w[c.asset], Write(w, tx, c), tx, c)
<1> DEFINE a == w[c.asset]
           b == Write(w, tx, c)
<1>1. c.asset \in Assets /\ b \in FinancialAsset
  BY Accepted, WriteType
<1>2. a \in FinancialAsset \cup {NoAsset}
  BY <1>1
<1>3. CASE c \in TokenizeCall /\ a = NoAsset
  <2> DEFINE r == Record(tx, c, "TOKENISE", Empty, c.client, c.amount)
  <2>1. b = TokenizeWrite(tx, c) /\ c.fn = "TokenizeAsset"
    BY <1>3 DEF Write, TokenizeCall
  <2>2. /\ b.provenance = <<r>> /\ b.status = "ACTIF"
        /\ b.currentOwner = r.toOwner
    BY <1>3, <2>1, TokenizeFields
  <2>3. r.toOwner = c.client /\ r.txID = tx /\ r.action = "TOKENISE"
    BY Roles
  <2>4. b.nominalValue = c.amount
    BY <2>1 DEF TokenizeWrite
  <2> HIDE DEF r, b, a
  <2>5. Len(b.provenance) = 1 /\ b.provenance[1] = r
    BY <2>2
  <2>6. \E i \in 1..Len(b.provenance) :
          b.provenance[i].txID = tx /\ b.provenance[i].action = Appends(c.fn)
    <3>1. 1 \in 1..Len(b.provenance)
      BY <2>5
    <3>2. b.provenance[1].txID = tx /\ b.provenance[1].action = Appends(c.fn)
      BY <2>1, <2>3, <2>5 DEF Appends
    <3>3. QED
      BY <3>1, <3>2
  <2>7. Wrote(a, b, tx, c)
    BY <1>1, <1>3, <2>1, <2>2, <2>3, <2>4, <2>6 DEF Wrote
  <2>8. QED
    BY <2>7 DEF a, b
<1>4. CASE c \in TransferCall /\ a # NoAsset
  <2> DEFINE r == Record(tx, c, "TRANSFERE", a.currentOwner, c.to, c.amount)
  <2>1. b = TransferWrite(a, tx, c) /\ c.fn = "TransferAsset"
    BY <1>4 DEF Write, TransferCall
  <2>2. /\ Extended(a.provenance, b.provenance, r) /\ b.status = a.status
        /\ b.currentOwner = r.toOwner /\ b.nominalValue = a.nominalValue
    BY <1>2, <1>4, <2>1, TransferFields
  <2>3. r.toOwner = c.to /\ r.txID = tx /\ r.action = "TRANSFERE"
    BY Roles
  <2> HIDE DEF r, b, a
  <2>4. /\ Len(a.provenance) + 1 \in 1..Len(b.provenance)
        /\ b.provenance[Len(a.provenance) + 1] = r
        /\ \A i \in 1..Len(a.provenance) :
             i \in 1..Len(b.provenance) /\ b.provenance[i] = a.provenance[i]
    BY <2>2 DEF Extended
  <2>5. \E i \in 1..Len(b.provenance) :
          /\ b.provenance[i].txID = tx /\ b.provenance[i].action = Appends(c.fn)
          /\ b.provenance[i].toOwner = c.to
    BY <2>1, <2>3, <2>4 DEF Appends
  <2>6. Wrote(a, b, tx, c)
    BY <1>1, <1>4, <2>1, <2>2, <2>3, <2>4, <2>5 DEF Wrote
  <2>7. QED
    BY <2>6 DEF a, b
<1>5. CASE c \in FreezeCall /\ a # NoAsset /\ a.status # "GELE"
  <2> DEFINE r == Record(tx, c, "GELE", Empty, Empty, 0)
  <2>1. b = FreezeWrite(a, tx, c) /\ c.fn = "FreezeAsset"
    BY <1>5 DEF Write, FreezeCall
  <2>2. /\ Extended(a.provenance, b.provenance, r) /\ b.status = "GELE"
        /\ b.currentOwner = a.currentOwner /\ b.nominalValue = a.nominalValue
    BY <1>2, <1>5, <2>1, FreezeFields
  <2>3. r.txID = tx /\ r.action = "GELE"
    BY Roles
  <2>4. a.status = "ACTIF"
    BY <1>2, <1>5 DEF FinancialAsset
  <2> HIDE DEF r, b, a
  <2>5. /\ Len(a.provenance) + 1 \in 1..Len(b.provenance)
        /\ b.provenance[Len(a.provenance) + 1] = r
        /\ \A i \in 1..Len(a.provenance) :
             i \in 1..Len(b.provenance) /\ b.provenance[i] = a.provenance[i]
    BY <2>2 DEF Extended
  <2>6. \E i \in 1..Len(b.provenance) :
          b.provenance[i].txID = tx /\ b.provenance[i].action = Appends(c.fn)
    BY <2>1, <2>3, <2>5 DEF Appends
  <2>7. Wrote(a, b, tx, c)
    BY <1>1, <1>5, <2>1, <2>2, <2>4, <2>5, <2>6 DEF Wrote
  <2>8. QED
    BY <2>7 DEF a, b
<1>6. CASE c \in UnfreezeCall /\ a # NoAsset /\ a.status = "GELE"
  <2> DEFINE r == Record(tx, c, "DEGELE", Empty, Empty, 0)
  <2>1. b = UnfreezeWrite(a, tx, c) /\ c.fn = "UnfreezeAsset"
    BY <1>6 DEF Write, UnfreezeCall
  <2>2. /\ Extended(a.provenance, b.provenance, r) /\ b.status = "ACTIF"
        /\ b.currentOwner = a.currentOwner /\ b.nominalValue = a.nominalValue
    BY <1>2, <1>6, <2>1, UnfreezeFields
  <2>3. r.txID = tx /\ r.action = "DEGELE"
    BY Roles
  <2> HIDE DEF r, b, a
  <2>5. /\ Len(a.provenance) + 1 \in 1..Len(b.provenance)
        /\ b.provenance[Len(a.provenance) + 1] = r
        /\ \A i \in 1..Len(a.provenance) :
             i \in 1..Len(b.provenance) /\ b.provenance[i] = a.provenance[i]
    BY <2>2 DEF Extended
  <2>6. \E i \in 1..Len(b.provenance) :
          b.provenance[i].txID = tx /\ b.provenance[i].action = Appends(c.fn)
    BY <2>1, <2>3, <2>5 DEF Appends
  <2>7. Wrote(a, b, tx, c)
    BY <1>1, <1>6, <2>1, <2>2, <2>5, <2>6 DEF Wrote
  <2>8. QED
    BY <2>7 DEF a, b
<1>7. QED
  BY <1>3, <1>4, <1>5, <1>6, Accepted DEF RequireFrozenAsset

(* A step of the ledger, of whichever request or abandoned process.        *)
LEMMA ExecuteGrows ==
  ASSUME TypeOK, NEW tx \in TxIds, NEW c \in SagaCall, Execute(tx, c)
  PROVE  /\ world' \in [Assets -> FinancialAsset \cup {NoAsset}]
         /\ used' \subseteq TxIds /\ stray' = stray
         /\ c.asset \in Assets /\ world'[c.asset] # NoAsset
         /\ Wrote(world[c.asset], world'[c.asset], tx, c)
         /\ \A id \in Assets : id # c.asset => world'[id] = world[id]
         /\ Grown(world, world')
<1> DEFINE b == Write(world, tx, c)
<1>1. /\ world \in [Assets -> FinancialAsset \cup {NoAsset}]
      /\ Answer(world, c) = "ok"
      /\ world' = [world EXCEPT ![c.asset] = b]
      /\ used' = used \cup {tx} /\ used \subseteq TxIds /\ stray' = stray
  BY DEF TypeOK, Execute
<1>2. c \in Call
  BY <1>1, AcceptedIsCall
<1>3. c.asset \in Assets
  BY <1>1, <1>2, Accepted
<1>4. Wrote(world[c.asset], b, tx, c)
  BY <1>1, <1>2, WriteWrote
<1> HIDE DEF b
<1>5. b \in FinancialAsset /\ b # NoAsset
  BY <1>4, NoAssetAssumption DEF Wrote
<1>6. /\ world' \in [Assets -> FinancialAsset \cup {NoAsset}]
      /\ world'[c.asset] = b
      /\ \A id \in Assets : id # c.asset => world'[id] = world[id]
  BY <1>1, <1>3, <1>5
<1>7. Grown(world, world')
  <2>1. SUFFICES ASSUME NEW id \in Assets, world[id] # NoAsset
                 PROVE  /\ world'[id] # NoAsset
                        /\ world'[id].nominalValue = world[id].nominalValue
                        /\ \A i \in 1..Len(world[id].provenance) :
                             /\ i \in 1..Len(world'[id].provenance)
                             /\ world'[id].provenance[i] = world[id].provenance[i]
    BY DEF Grown
  <2>2. CASE id = c.asset
    BY <1>4, <1>5, <1>6, <2>1, <2>2 DEF Wrote
  <2>3. CASE id # c.asset
    BY <1>6, <2>1, <2>3
  <2>4. QED
    BY <2>2, <2>3
<1>8. QED
  BY <1>1, <1>3, <1>4, <1>5, <1>6, <1>7

LEMMA SameGrown ==
  Grown(world, world)
BY DEF Grown

-----------------------------------------------------------------------------
(* Preservation of BaseInv.                                                *)

(* NoPhantomRows, for one row of transactions and for one of assets.       *)
TxRowOK(w, t) ==
  /\ w[t.asset] # NoAsset
  /\ \E i \in 1..Len(w[t.asset].provenance) :
       LET r == w[t.asset].provenance[i] IN
       /\ r.txID = t.tx /\ r.action = LedgerAction[t.type]
       /\ t.type = "TRANSFERT" => r.toOwner = t.to

AssetRowOK(w, id, row) ==
  /\ w[id] # NoAsset
  /\ row.nominal = w[id].nominalValue
  /\ row.tx # Empty =>
       \E i \in 1..Len(w[id].provenance) : w[id].provenance[i].txID = row.tx

LEMMA NoPhantomParts ==
  NoPhantomRows <=>
    /\ \A t \in rows : TxRowOK(world, t)
    /\ \A id \in Assets : db[id] # NoRow => AssetRowOK(world, id, db[id])
BY DEF NoPhantomRows, TxRowOK, AssetRowOK

(* What is true of a row stays true as the ledger grows.                   *)
LEMMA RowsStayOK ==
  ASSUME NEW w, NEW v, Grown(w, v)
  PROVE  /\ \A t : t.asset \in Assets /\ TxRowOK(w, t) => TxRowOK(v, t)
         /\ \A id \in Assets : \A row :
              AssetRowOK(w, id, row) => AssetRowOK(v, id, row)
<1>1. ASSUME NEW t, t.asset \in Assets, TxRowOK(w, t)
      PROVE  TxRowOK(v, t)
  <2>1. /\ w[t.asset] # NoAsset
        /\ \E i \in 1..Len(w[t.asset].provenance) :
             /\ w[t.asset].provenance[i].txID = t.tx
             /\ w[t.asset].provenance[i].action = LedgerAction[t.type]
             /\ t.type = "TRANSFERT" => w[t.asset].provenance[i].toOwner = t.to
    BY <1>1 DEF TxRowOK
  <2>2. PICK i \in 1..Len(w[t.asset].provenance) :
             /\ w[t.asset].provenance[i].txID = t.tx
             /\ w[t.asset].provenance[i].action = LedgerAction[t.type]
             /\ t.type = "TRANSFERT" => w[t.asset].provenance[i].toOwner = t.to
    BY <2>1
  <2>3. /\ v[t.asset] # NoAsset /\ i \in 1..Len(v[t.asset].provenance)
        /\ v[t.asset].provenance[i] = w[t.asset].provenance[i]
    BY <1>1, <2>1 DEF Grown
  <2>4. QED
    BY <2>2, <2>3 DEF TxRowOK
<1>2. ASSUME NEW id \in Assets, NEW row, AssetRowOK(w, id, row)
      PROVE  AssetRowOK(v, id, row)
  BY <1>2 DEF AssetRowOK, Grown
<1>3. QED
  BY <1>1, <1>2

LEMMA PhantomsKept ==
  ASSUME TypeOK, NoPhantomRows, Grown(world, world'),
         \A t \in rows' : t \in rows \/ TxRowOK(world', t),
         \A id \in Assets : \/ db'[id] = db[id]
                            \/ AssetRowOK(world', id, db'[id])
  PROVE  NoPhantomRows'
<1>1. \A t \in rows : t.asset \in Assets
  BY DEF TypeOK, TxRow
<1>2. \A t \in rows : TxRowOK(world, t)
  BY NoPhantomParts
<1>3. \A id \in Assets : db[id] # NoRow => AssetRowOK(world, id, db[id])
  BY NoPhantomParts
<1>4. \A t \in rows' : TxRowOK(world', t)
  BY <1>1, <1>2, RowsStayOK
<1>5. \A id \in Assets : db'[id] # NoRow => AssetRowOK(world', id, db'[id])
  BY <1>3, RowsStayOK
<1>6. QED
  BY <1>4, <1>5 DEF NoPhantomRows, TxRowOK, AssetRowOK

(* Request q moves to a step of its kind; the requests' own state is       *)
(* otherwise kept, no row is deleted and the ledger grows.                 *)
Moves(q, l) ==
  /\ l \in StepsOf(rq[q].kind)
  /\ pc' = [pc EXCEPT ![q] = l] /\ rq' = rq
  /\ \A p \in Reqs : p # q => loaded'[p] = loaded[p] /\ gotTx'[p] = gotTx[p]
  /\ \A id \in Assets : db[id] # NoRow => db'[id] # NoRow
  /\ Grown(world, world')

LEMMA ReqTypes ==
  ASSUME TypeOK, NEW q \in Reqs
  PROVE  rq[q] \in Request /\ Asset(q) \in Assets /\ rq[q].kind \in Kinds
<1>1. rq[q] \in Request
  BY SagaAssumption DEF TypeOK
<1>2. QED
  BY <1>1, KindsOf DEF Asset

LEMMA OthersKept ==
  ASSUME TypeOK, NEW p \in Reqs, RowHeld(p), Landed(p),
         rq' = rq, pc'[p] = pc[p], loaded'[p] = loaded[p],
         gotTx'[p] = gotTx[p], Grown(world, world'),
         \A id \in Assets : db[id] # NoRow => db'[id] # NoRow
  PROVE  RowHeld(p)' /\ Landed(p)'
<1>1. Asset(p) \in Assets /\ Asset(p)' = Asset(p)
  BY ReqTypes DEF Asset
<1>2. RowHeld(p)'
  BY <1>1 DEF RowHeld
<1>3. Landed(p)'
  <2>1. CASE ~Pending(p)
    BY <2>1 DEF Landed, Pending
  <2>2. CASE Pending(p)
    <3> DEFINE id == Asset(p)
    <3>1. /\ world[id] # NoAsset
          /\ rq[p].kind = "tokenize" => world[id].nominalValue = rq[p].amount
          /\ gotTx[p] # Empty =>
               \E i \in 1..Len(world[id].provenance) :
                 /\ world[id].provenance[i].txID = gotTx[p]
                 /\ world[id].provenance[i].action = ActionOf(rq[p].kind)
                 /\ rq[p].kind = "transfer" =>
                      world[id].provenance[i].toOwner = rq[p].to
      BY <2>2 DEF Landed
    <3>2. /\ world'[id] # NoAsset
          /\ world'[id].nominalValue = world[id].nominalValue
          /\ \A i \in 1..Len(world[id].provenance) :
               /\ i \in 1..Len(world'[id].provenance)
               /\ world'[id].provenance[i] = world[id].provenance[i]
      BY <1>1, <3>1 DEF Grown
    <3> HIDE DEF id
    <3>3. gotTx[p] # Empty =>
               \E i \in 1..Len(world'[id].provenance) :
                 /\ world'[id].provenance[i].txID = gotTx[p]
                 /\ world'[id].provenance[i].action = ActionOf(rq[p].kind)
                 /\ rq[p].kind = "transfer" =>
                      world'[id].provenance[i].toOwner = rq[p].to
      BY <3>1, <3>2
    <3>4. QED
      BY <1>1, <3>1, <3>2, <3>3 DEF Landed, id
  <2>3. QED
    BY <2>1, <2>2
<1>4. QED
  BY <1>2, <1>3

LEMMA BaseStep ==
  ASSUME BaseInv, NEW q \in Reqs, NEW l, Moves(q, l),
         TypeOK', RowHeld(q)', Landed(q)', NoPhantomRows'
  PROVE  BaseInv'
<1>1. TypeOK /\ pc \in [Reqs -> PcSet]
  BY DEF BaseInv, TypeOK
<1>2. \A p \in Reqs : pc'[p] \in StepsOf(rq'[p].kind)
  BY <1>1 DEF BaseInv, Moves
<1>3. ASSUME NEW p \in Reqs, p # q PROVE RowHeld(p)' /\ Landed(p)'
  <2>1. RowHeld(p) /\ Landed(p)
    BY DEF BaseInv
  <2>2. pc'[p] = pc[p] /\ loaded'[p] = loaded[p] /\ gotTx'[p] = gotTx[p]
    BY <1>1, <1>3 DEF Moves
  <2>3. QED
    BY <1>1, <2>1, <2>2, OthersKept DEF Moves
<1>4. QED
  BY <1>2, <1>3 DEF BaseInv

LEMMA StoresKept ==
  ASSUME NoPhantomRows, world' = world, db' = db, rows' = rows
  PROVE  /\ NoPhantomRows' /\ Grown(world, world')
         /\ \A id \in Assets : db[id] # NoRow => db'[id] # NoRow
BY SameGrown DEF NoPhantomRows, Grown

LEMMA BaseParts ==
  ASSUME BaseInv, NEW q \in Reqs
  PROVE  /\ TypeOK /\ NoPhantomRows /\ pc[q] \in StepsOf(rq[q].kind)
         /\ RowHeld(q) /\ Landed(q)
         /\ rq[q] \in Request /\ Asset(q) \in Assets /\ rq[q].kind \in Kinds
BY ReqTypes DEF BaseInv

LEMMA StartBase ==
  ASSUME BaseInv, NEW q \in Reqs, Start(q)
  PROVE  BaseInv'
<1> DEFINE l == FirstStep(rq[q].kind)
<1>1. /\ TypeOK /\ NoPhantomRows /\ rq[q].kind \in Kinds
  BY BaseParts
<1>2. /\ pc' = [pc EXCEPT ![q] = l] /\ rq' = rq /\ db' = db /\ rows' = rows
      /\ world' = world /\ used' = used /\ stray' = stray
      /\ loaded' = loaded /\ gotTx' = gotTx /\ critical' = critical
      /\ disturbed' = (disturbed \/ ~Quiet)
  BY DEF Start, Goto, ledger, dbvars
<1>3. l \in StepsOf(rq[q].kind) /\ l \in PcSet
  BY <1>1 DEF FirstStep, StepsOf, Kinds, PcSet
<1>4. /\ rq[q].kind \in {"tokenize", "freeze", "unfreeze"} => l = "submit"
      /\ rq[q].kind \in {"transfer", "valuate"} => l = "load"
      /\ rq[q].kind = "sync" => l = "read"
  BY <1>1 DEF FirstStep, Kinds
<1> HIDE DEF l
<1>5. pc'[q] = l
  BY <1>1, <1>2 DEF TypeOK
<1>6. TypeOK'
  <2>1. disturbed' \in BOOLEAN
    BY <1>2
  <2>2. QED
    BY <1>1, <1>2, <1>3, <2>1 DEF TypeOK
<1>7. RowHeld(q)' /\ Landed(q)'
  BY <1>1, <1>2, <1>4, <1>5 DEF RowHeld, Landed, Pending, Kinds
<1>8. Moves(q, l) /\ NoPhantomRows'
  BY <1>1, <1>2, <1>3, StoresKept DEF Moves
<1>9. QED
  BY <1>6, <1>7, <1>8, BaseStep

LEMMA LoadBase ==
  ASSUME BaseInv, NEW q \in Reqs, Load(q)
  PROVE  BaseInv'
<1> DEFINE l == IF LoadFails(q) THEN "failed"
                ELSE IF rq[q].kind = "transfer" THEN "check" ELSE "commit"
<1>1. /\ TypeOK /\ NoPhantomRows /\ rq[q].kind \in Kinds /\ Asset(q) \in Assets
      /\ Landed(q) /\ pc[q] \in StepsOf(rq[q].kind) /\ rq[q] \in Request
  BY BaseParts
<1>2. /\ pc' = [pc EXCEPT ![q] = l] /\ rq' = rq /\ db' = db /\ rows' = rows
      /\ world' = world /\ used' = used /\ stray' = stray
      /\ gotTx' = gotTx /\ critical' = critical /\ disturbed' = disturbed
      /\ pc[q] = "load"
      /\ IF LoadFails(q) THEN loaded' = loaded
         ELSE loaded' = [loaded EXCEPT ![q] = db[Asset(q)]]
  BY DEF Load, Goto, ledger, dbvars, logs
<1>3. l \in StepsOf(rq[q].kind) /\ l \in PcSet
  BY <1>1, <1>2 DEF StepsOf, Kinds, PcSet
<1>4. rq[q].kind # "sync"
  BY <1>1, <1>2 DEF StepsOf
<1>5. db[Asset(q)] \in Row \cup {NoRow}
  BY <1>1 DEF TypeOK
<1>6. pc'[q] = l /\ (~LoadFails(q) => loaded'[q] = db[Asset(q)])
  BY <1>1, <1>2 DEF TypeOK
<1>7. TypeOK'
  BY <1>1, <1>2, <1>3, <1>5 DEF TypeOK
<1>8. ASSUME ~LoadFails(q), rq[q].kind # "tokenize"
      PROVE  /\ db[Asset(q)] # NoRow
             /\ rq[q].kind = "transfer" => rq[q].to \in Users
  BY <1>8 DEF LoadFails
<1>9. RowHeld(q)' /\ Landed(q)'
  <2>1. CASE LoadFails(q)
    BY <2>1, <1>6 DEF RowHeld, Landed, Pending
  <2>2. CASE ~LoadFails(q)
    <3>1. RowHeld(q)'
      BY <1>2, <1>4, <1>5, <1>6, <1>8, <2>2, SMTT(40) DEF RowHeld, Asset
    <3>2. Landed(q)'
      BY <1>1, <1>2, <1>6, <2>2 DEF Landed, Pending, Asset
    <3>3. QED
      BY <3>1, <3>2
  <2>3. QED
    BY <2>1, <2>2
<1>10. Moves(q, l) /\ NoPhantomRows'
  <2>1. \A p \in Reqs : p # q => loaded'[p] = loaded[p]
    BY <1>1, <1>2 DEF TypeOK
  <2>2. QED
    BY <1>1, <1>2, <1>3, <2>1, StoresKept DEF Moves
<1> HIDE DEF l
<1>11. QED
  BY <1>7, <1>9, <1>10, BaseStep

LEMMA CheckBase ==
  ASSUME BaseInv, NEW q \in Reqs, Check(q)
  PROVE  BaseInv'
<1>1. /\ TypeOK /\ NoPhantomRows /\ RowHeld(q) /\ Asset(q) \in Assets
      /\ pc[q] \in StepsOf(rq[q].kind) /\ rq[q].kind \in Kinds
  BY BaseParts
<1>2. PICK l \in {"failed", "submit"} : pc' = [pc EXCEPT ![q] = l]
  BY DEF Check, Goto
<1>3. /\ rq' = rq /\ db' = db /\ rows' = rows
      /\ world' = world /\ used' = used /\ stray' = stray
      /\ loaded' = loaded /\ gotTx' = gotTx
      /\ critical' = critical /\ disturbed' = disturbed /\ pc[q] = "check"
  BY DEF Check, ledger, dbvars, logs
<1>4. rq[q].kind = "transfer"
  BY <1>1, <1>3 DEF StepsOf, Kinds
<1>5. l \in StepsOf(rq[q].kind) /\ l \in PcSet
  BY <1>4 DEF StepsOf, PcSet
<1>6. pc'[q] = l
  BY <1>1, <1>2 DEF TypeOK
<1>7. TypeOK'
  BY <1>1, <1>2, <1>3, <1>5 DEF TypeOK
<1>8. RowHeld(q)' /\ Landed(q)'
  BY <1>1, <1>3, <1>4, <1>6 DEF RowHeld, Landed, Pending, Asset
<1>9. Moves(q, l) /\ NoPhantomRows'
  BY <1>1, <1>2, <1>3, <1>5, StoresKept DEF Moves
<1>10. QED
  BY <1>7, <1>8, <1>9, BaseStep

LEMMA SubmitFailsBase ==
  ASSUME BaseInv, NEW q \in Reqs, SubmitFails(q)
  PROVE  BaseInv'
<1>1. /\ TypeOK /\ NoPhantomRows /\ pc[q] \in StepsOf(rq[q].kind)
      /\ rq[q].kind \in Kinds
  BY BaseParts
<1>2. /\ pc' = [pc EXCEPT ![q] = "failed"] /\ rq' = rq /\ db' = db
      /\ rows' = rows /\ world' = world /\ used' = used /\ stray' = stray
      /\ loaded' = loaded /\ gotTx' = gotTx
      /\ critical' = critical /\ disturbed' = disturbed
  BY DEF SubmitFails, Goto, ledger, dbvars, logs
<1>3. "failed" \in StepsOf(rq[q].kind) /\ "failed" \in PcSet
  BY <1>1 DEF StepsOf, PcSet, Kinds
<1>4. pc'[q] = "failed"
  BY <1>1, <1>2 DEF TypeOK
<1>5. TypeOK'
  BY <1>1, <1>2, <1>3 DEF TypeOK
<1>6. RowHeld(q)' /\ Landed(q)'
  BY <1>4 DEF RowHeld, Landed, Pending
<1>7. Moves(q, "failed") /\ NoPhantomRows'
  BY <1>1, <1>2, <1>3, StoresKept DEF Moves
<1>8. QED
  BY <1>5, <1>6, <1>7, BaseStep

LEMMA TimeoutBase ==
  ASSUME BaseInv, NEW q \in Reqs, AttemptStrays(q)
  PROVE  BaseInv'
<1> DEFINE c == IF pc[q] = "submit" THEN Submitted(rq[q])
                ELSE Compensation(rq[q])
<1>1. /\ TypeOK /\ NoPhantomRows /\ RowHeld(q) /\ Landed(q)
      /\ pc[q] \in StepsOf(rq[q].kind)
      /\ rq[q].kind \in Kinds /\ rq[q] \in Request
  BY BaseParts
<1>2. /\ stray' = stray \cup {c} /\ disturbed' = TRUE
      /\ pc[q] \in {"submit", "compensate"}
      /\ rq' = rq /\ db' = db /\ rows' = rows /\ world' = world
      /\ used' = used /\ loaded' = loaded /\ gotTx' = gotTx
      /\ critical' = critical /\ pc' = pc
  BY DEF AttemptStrays, dbvars
<1>3. c \in SagaCall
  <2>1. CASE pc[q] = "submit"
    <3>1. rq[q].kind \in {"tokenize", "transfer", "freeze", "unfreeze"}
      BY <1>1, <2>1 DEF StepsOf, Kinds
    <3>2. QED
      BY <1>1, <2>1, <3>1, SubmittedCall
  <2>2. CASE pc[q] = "compensate"
    <3>1. rq[q].kind \in {"transfer", "freeze", "unfreeze"}
      BY <1>1, <2>2 DEF StepsOf, Kinds
    <3>2. QED
      BY <1>1, <2>2, <3>1, CompensationCall
  <2>3. QED
    BY <1>2, <2>1, <2>2
<1> HIDE DEF c
<1>4. TypeOK'
  BY <1>1, <1>2, <1>3 DEF TypeOK, SagaCall
<1>5. RowHeld(q)' /\ Landed(q)'
  BY <1>1, <1>2 DEF RowHeld, Landed, Pending, Asset
<1>6. Moves(q, pc[q]) /\ NoPhantomRows'
  <2>1. pc' = [pc EXCEPT ![q] = pc[q]]
    BY <1>1, <1>2 DEF TypeOK
  <2>2. QED
    BY <1>1, <1>2, <2>1, StoresKept DEF Moves
<1>7. QED
  BY <1>4, <1>5, <1>6, BaseStep

LEMMA CommitFailsBase ==
  ASSUME BaseInv, NEW q \in Reqs, CommitFails(q)
  PROVE  BaseInv'
<1> DEFINE l == IF rq[q].kind \in {"transfer", "freeze", "unfreeze"}
                THEN "compensate" ELSE "failed"
<1>1. /\ TypeOK /\ NoPhantomRows /\ RowHeld(q) /\ Landed(q)
      /\ pc[q] \in StepsOf(rq[q].kind) /\ rq[q].kind \in Kinds
  BY BaseParts
<1>2. /\ pc' = [pc EXCEPT ![q] = l] /\ rq' = rq /\ db' = db
      /\ rows' = rows /\ world' = world /\ used' = used /\ stray' = stray
      /\ loaded' = loaded /\ gotTx' = gotTx /\ pc[q] \in {"commit", "update"}
      /\ critical' = critical /\ disturbed' = disturbed
  BY DEF CommitFails, Goto, ledger, dbvars, logs
<1>3. l \in StepsOf(rq[q].kind) /\ l \in PcSet
  BY <1>1 DEF StepsOf, PcSet, Kinds
<1>4. pc'[q] = l
  BY <1>1, <1>2 DEF TypeOK
<1>5. pc[q] = "update" => rq[q].kind = "sync"
  BY <1>1 DEF StepsOf, Kinds
<1>6. RowHeld(q)'
  BY <1>1, <1>2, <1>4, <1>5, SMTT(40) DEF RowHeld, Asset
<1>7. Landed(q)'
  BY <1>1, <1>2, <1>4, <1>5 DEF Landed, Pending, Asset
<1> HIDE DEF l
<1>8. TypeOK'
  BY <1>1, <1>2, <1>3 DEF TypeOK
<1>9. Moves(q, l) /\ NoPhantomRows'
  BY <1>1, <1>2, <1>3, StoresKept DEF Moves
<1>10. QED
  BY <1>6, <1>7, <1>8, <1>9, BaseStep

LEMMA CompensationFailsBase ==
  ASSUME BaseInv, NEW q \in Reqs, CompensationFails(q)
  PROVE  BaseInv'
<1>1. /\ TypeOK /\ NoPhantomRows /\ rq[q].kind \in Kinds
  BY BaseParts
<1>2. /\ pc' = [pc EXCEPT ![q] = "failed"] /\ rq' = rq /\ db' = db
      /\ rows' = rows /\ world' = world /\ used' = used /\ stray' = stray
      /\ loaded' = loaded /\ gotTx' = gotTx
      /\ critical' = critical \cup {q} /\ disturbed' = disturbed
  BY DEF CompensationFails, Goto, ledger, dbvars
<1>3. "failed" \in StepsOf(rq[q].kind) /\ "failed" \in PcSet
  BY <1>1 DEF StepsOf, PcSet, Kinds
<1>4. pc'[q] = "failed"
  BY <1>1, <1>2 DEF TypeOK
<1>5. TypeOK'
  BY <1>1, <1>2, <1>3 DEF TypeOK
<1>6. RowHeld(q)' /\ Landed(q)'
  BY <1>4 DEF RowHeld, Landed, Pending
<1>7. Moves(q, "failed") /\ NoPhantomRows'
  BY <1>1, <1>2, <1>3, StoresKept DEF Moves
<1>8. QED
  BY <1>5, <1>6, <1>7, BaseStep

LEMMA SyncReadBase ==
  ASSUME BaseInv, NEW q \in Reqs, SyncRead(q)
  PROVE  BaseInv'
<1> DEFINE got == [status |-> world[Asset(q)].status,
                   value |-> world[Asset(q)].currentValue]
           l == IF world[Asset(q)] = NoAsset THEN "failed" ELSE "select"
<1>1. /\ TypeOK /\ NoPhantomRows /\ rq[q].kind \in Kinds /\ Asset(q) \in Assets
      /\ pc[q] \in StepsOf(rq[q].kind)
  BY BaseParts
<1>2. /\ pc' = [pc EXCEPT ![q] = l] /\ rq' = rq /\ db' = db /\ rows' = rows
      /\ world' = world /\ used' = used /\ stray' = stray /\ pc[q] = "read"
      /\ gotTx' = gotTx /\ critical' = critical /\ disturbed' = disturbed
      /\ IF world[Asset(q)] = NoAsset THEN loaded' = loaded
         ELSE loaded' = [loaded EXCEPT ![q] = got]
  BY DEF SyncRead, Goto, ledger, dbvars, logs
<1>3. rq[q].kind = "sync"
  BY <1>1, <1>2 DEF StepsOf, Kinds
<1>4. l \in StepsOf(rq[q].kind) /\ l \in PcSet
  BY <1>3 DEF StepsOf, PcSet
<1>5. world[Asset(q)] # NoAsset =>
        got \in [status: {"ACTIF", "GELE"}, value: Amounts]
  BY <1>1 DEF TypeOK, FinancialAsset
<1>6. got \in [status: {"ACTIF", "GELE"}, value: Amounts] => got \in SyncRow
  BY DEF SyncRow
<1> HIDE DEF got
<1>7. /\ pc'[q] = l
      /\ world[Asset(q)] # NoAsset => loaded'[q] = got
      /\ \A p \in Reqs : p # q => loaded'[p] = loaded[p]
  BY <1>1, <1>2 DEF TypeOK
<1>8. TypeOK'
  BY <1>1, <1>2, <1>4, <1>5, <1>6 DEF TypeOK
<1>9. RowHeld(q)' /\ Landed(q)'
  BY <1>2, <1>3, <1>5, <1>7 DEF RowHeld, Landed, Pending
<1> HIDE DEF l
<1>10. Moves(q, l) /\ NoPhantomRows'
  BY <1>1, <1>2, <1>4, <1>7, StoresKept DEF Moves
<1>11. QED
  BY <1>8, <1>9, <1>10, BaseStep

(* The columns the synchronisation selects.                                *)
Selected(q) == [status |-> Differs(db[Asset(q)].status, loaded[q].status),
                value |-> Differs(db[Asset(q)].value, loaded[q].value)]

LEMMA SyncSelectBase ==
  ASSUME BaseInv, NEW q \in Reqs, SyncSelect(q)
  PROVE  BaseInv'
<1> DEFINE stop == \/ db[Asset(q)] = NoRow
                   \/ Selected(q) = [status |-> Empty, value |-> Empty]
           l == IF stop THEN "done" ELSE "update"
           new == IF stop THEN NoRow ELSE Selected(q)
<1>1. /\ TypeOK /\ NoPhantomRows /\ rq[q].kind \in Kinds /\ Asset(q) \in Assets
      /\ pc[q] \in StepsOf(rq[q].kind) /\ RowHeld(q)
  BY BaseParts
<1>2. /\ pc' = [pc EXCEPT ![q] = l] /\ rq' = rq /\ db' = db /\ rows' = rows
      /\ world' = world /\ used' = used /\ stray' = stray /\ pc[q] = "select"
      /\ gotTx' = gotTx /\ critical' = critical /\ disturbed' = disturbed
      /\ loaded' = [loaded EXCEPT ![q] = new]
  BY DEF SyncSelect, Selected, Goto, ledger, dbvars, logs
<1>3. rq[q].kind = "sync"
  BY <1>1, <1>2 DEF StepsOf, Kinds
<1>4. l \in StepsOf(rq[q].kind) /\ l \in PcSet
  BY <1>3 DEF StepsOf, PcSet
<1>5. Selected(q) \in SyncRow
  <2>1. loaded[q].status \in {"ACTIF", "GELE"} /\ loaded[q].value \in Amounts
    BY <1>1, <1>2 DEF RowHeld
  <2>2. QED
    BY <2>1 DEF Selected, Differs, SyncRow
<1>6. /\ pc'[q] = l /\ loaded'[q] = new
      /\ \A p \in Reqs : p # q => loaded'[p] = loaded[p]
  BY <1>1, <1>2 DEF TypeOK
<1>7. RowHeld(q)' /\ Landed(q)'
  BY <1>2, <1>3, <1>5, <1>6 DEF RowHeld, Landed, Pending, Asset
<1>8. new \in SyncRow \cup {NoRow}
  BY <1>5
<1> HIDE DEF new, l
<1>9. TypeOK'
  BY <1>1, <1>2, <1>4, <1>8 DEF TypeOK
<1>10. Moves(q, l) /\ NoPhantomRows'
  BY <1>1, <1>2, <1>4, <1>6, StoresKept DEF Moves
<1>11. QED
  BY <1>7, <1>9, <1>10, BaseStep

(* A step of the ledger keeps what the rows of PostgreSQL say.             *)
LEMMA ExecuteKeeps ==
  ASSUME BaseInv, NEW tx \in TxIds, NEW c \in SagaCall, Execute(tx, c),
         db' = db, rows' = rows
  PROVE  /\ NoPhantomRows' /\ Grown(world, world')
         /\ \A id \in Assets : db[id] # NoRow => db'[id] # NoRow
<1>1. TypeOK /\ NoPhantomRows
  BY DEF BaseInv
<1>2. Grown(world, world')
  BY <1>1, ExecuteGrows
<1>3. QED
  BY <1>1, <1>2, PhantomsKept

LEMMA SubmitReturnsBase ==
  ASSUME BaseInv, NEW q \in Reqs, NEW tx \in TxIds, SubmitReturns(q, tx)
  PROVE  BaseInv'
<1> DEFINE c == Submitted(rq[q])
<1>1. /\ TypeOK /\ NoPhantomRows /\ rq[q].kind \in Kinds /\ Asset(q) \in Assets
      /\ pc[q] \in StepsOf(rq[q].kind) /\ RowHeld(q) /\ rq[q] \in Request
  BY BaseParts
<1>2. PICK p \in Payloads :
        /\ gotTx' = [gotTx EXCEPT ![q] = IF p = "full" THEN tx ELSE Empty]
        /\ pc' = [pc EXCEPT ![q] = IF p = "none" THEN "noPayload"
                      ELSE IF rq[q].kind = "transfer" THEN "commit" ELSE "load"]
  BY DEF SubmitReturns, Goto
<1> DEFINE l == IF p = "none" THEN "noPayload"
                ELSE IF rq[q].kind = "transfer" THEN "commit" ELSE "load"
           g == IF p = "full" THEN tx ELSE Empty
<1>3. /\ rq' = rq /\ db' = db /\ rows' = rows /\ pc[q] = "submit"
      /\ loaded' = loaded /\ critical' = critical /\ Execute(tx, c)
      /\ disturbed' = disturbed
  BY DEF SubmitReturns, dbvars, logs
<1>4. rq[q].kind \in {"tokenize", "transfer", "freeze", "unfreeze"}
  BY <1>1, <1>3 DEF StepsOf, Kinds
<1>5. /\ c \in SagaCall /\ c.asset = Asset(q)
      /\ rq[q].kind = "tokenize" => /\ c.fn = "TokenizeAsset"
                                    /\ c.amount = rq[q].amount
      /\ rq[q].kind = "transfer" => c.fn = "TransferAsset" /\ c.to = rq[q].to
      /\ rq[q].kind = "freeze" => c.fn = "FreezeAsset"
      /\ rq[q].kind = "unfreeze" => c.fn = "UnfreezeAsset"
  BY <1>1, <1>4, SubmittedCall DEF Asset
<1> HIDE DEF c
<1>6. /\ world' \in [Assets -> FinancialAsset \cup {NoAsset}]
      /\ used' \subseteq TxIds /\ stray' = stray
      /\ world'[Asset(q)] # NoAsset
      /\ Wrote(world[Asset(q)], world'[Asset(q)], tx, c)
  BY <1>1, <1>3, <1>5, ExecuteGrows
<1>7. l \in StepsOf(rq[q].kind) /\ l \in PcSet /\ g \in TxIds \cup {Empty}
  BY <1>4 DEF StepsOf, PcSet
<1>8. /\ pc'[q] = l /\ gotTx'[q] = g
      /\ \A o \in Reqs : o # q => gotTx'[o] = gotTx[o]
  BY <1>1, <1>2 DEF TypeOK
<1>9. RowHeld(q)'
  BY <1>1, <1>3, <1>4, <1>8, SMTT(40) DEF RowHeld, Asset
<1>10. Landed(q)'
  <2>1. rq[q].kind = "tokenize" => world'[Asset(q)].nominalValue = rq[q].amount
    BY <1>5, <1>6 DEF Wrote
  <2>2. Appends(c.fn) = ActionOf(rq[q].kind)
    BY <1>4, <1>5 DEF Appends, ActionOf
  <2>3. \E i \in 1..Len(world'[Asset(q)].provenance) :
          /\ world'[Asset(q)].provenance[i].txID = tx
          /\ world'[Asset(q)].provenance[i].action = ActionOf(rq[q].kind)
          /\ rq[q].kind = "transfer" =>
               world'[Asset(q)].provenance[i].toOwner = rq[q].to
    BY <1>5, <1>6, <2>2 DEF Wrote
  <2>4. gotTx'[q] # Empty => gotTx'[q] = tx
    BY <1>8
  <2>5. QED
    BY <1>3, <1>6, <2>1, <2>3, <2>4 DEF Landed, Asset
<1> HIDE DEF l, g
<1>11. TypeOK'
  <2>1. disturbed' \in BOOLEAN
    BY <1>1, <1>3 DEF TypeOK
  <2>2. /\ pc' \in [Reqs -> PcSet]
        /\ gotTx' \in [Reqs -> TxIds \cup {Empty}]
    BY <1>1, <1>2, <1>7 DEF TypeOK, l, g
  <2>3. QED
    BY <1>1, <1>3, <1>6, <2>1, <2>2 DEF TypeOK
<1>12. /\ NoPhantomRows' /\ Grown(world, world')
       /\ \A id \in Assets : db[id] # NoRow => db'[id] # NoRow
  BY <1>3, <1>5, ExecuteKeeps
<1>13. Moves(q, l)
  BY <1>2, <1>3, <1>7, <1>8, <1>12 DEF Moves, l
<1>14. QED
  BY <1>9, <1>10, <1>11, <1>12, <1>13, BaseStep

LEMMA CompensateBase ==
  ASSUME BaseInv, NEW q \in Reqs, NEW tx \in TxIds, Compensate(q, tx)
  PROVE  BaseInv'
<1> DEFINE c == Compensation(rq[q])
<1>1. /\ TypeOK /\ NoPhantomRows /\ rq[q].kind \in Kinds
      /\ pc[q] \in StepsOf(rq[q].kind) /\ rq[q] \in Request
  BY BaseParts
<1>2. /\ rq' = rq /\ db' = db /\ rows' = rows /\ pc[q] = "compensate"
      /\ loaded' = loaded /\ critical' = critical /\ Execute(tx, c)
      /\ gotTx' = gotTx /\ disturbed' = disturbed
      /\ pc' = [pc EXCEPT ![q] = "failed"]
  BY DEF Compensate, dbvars, logs, Goto
<1>3. rq[q].kind \in {"transfer", "freeze", "unfreeze"}
  BY <1>1, <1>2 DEF StepsOf, Kinds
<1>4. c \in SagaCall
  BY <1>1, <1>3, CompensationCall
<1> HIDE DEF c
<1>5. /\ world' \in [Assets -> FinancialAsset \cup {NoAsset}]
      /\ used' \subseteq TxIds /\ stray' = stray
  BY <1>1, <1>2, <1>4, ExecuteGrows
<1>6. "failed" \in StepsOf(rq[q].kind) /\ "failed" \in PcSet
  BY <1>3 DEF StepsOf, PcSet
<1>7. pc'[q] = "failed"
  BY <1>1, <1>2 DEF TypeOK
<1>8. RowHeld(q)' /\ Landed(q)'
  BY <1>7 DEF RowHeld, Landed, Pending
<1>9. TypeOK'
  BY <1>1, <1>2, <1>5, <1>6 DEF TypeOK
<1>10. /\ NoPhantomRows' /\ Grown(world, world')
       /\ \A id \in Assets : db[id] # NoRow => db'[id] # NoRow
  BY <1>2, <1>4, ExecuteKeeps
<1>11. Moves(q, "failed")
  BY <1>2, <1>6, <1>10 DEF Moves
<1>12. QED
  BY <1>8, <1>9, <1>10, <1>11, BaseStep

LEMMA LateCommitBase ==
  ASSUME BaseInv, NEW tx \in TxIds, LateCommit(tx)
  PROVE  BaseInv'
<1>1. PICK c \in stray : Execute(tx, c)
  BY DEF LateCommit
<1>2. TypeOK /\ c \in SagaCall
  BY DEF BaseInv, TypeOK, SagaCall
<1>3. /\ rq' = rq /\ db' = db /\ rows' = rows /\ pc' = pc
      /\ loaded' = loaded /\ critical' = critical
      /\ gotTx' = gotTx /\ disturbed' = disturbed
  BY DEF LateCommit, dbvars, logs
<1>4. /\ world' \in [Assets -> FinancialAsset \cup {NoAsset}]
      /\ used' \subseteq TxIds /\ stray' = stray
  BY <1>1, <1>2, ExecuteGrows
<1>5. /\ NoPhantomRows' /\ Grown(world, world')
      /\ \A id \in Assets : db[id] # NoRow => db'[id] # NoRow
  BY <1>1, <1>2, <1>3, ExecuteKeeps
<1>6. TypeOK'
  BY <1>2, <1>3, <1>4 DEF TypeOK
<1>7. \A p \in Reqs : RowHeld(p)' /\ Landed(p)'
  BY <1>2, <1>3, <1>5, OthersKept DEF BaseInv
<1>8. QED
  BY <1>3, <1>5, <1>6, <1>7 DEF BaseInv

(* The UPDATE of a row, column by column.                                  *)
LEMMA UpdatedFields ==
  ASSUME NEW old \in Row, NEW cur \in Row, NEW new \in Row
  PROVE  LET u == Updated(old, cur, new) IN
         /\ u \in Row
         /\ u.status = IF new.status # old.status THEN new.status ELSE cur.status
         /\ u.owner = IF new.owner # old.owner THEN new.owner ELSE cur.owner
         /\ u.tx = IF new.tx # old.tx THEN new.tx ELSE cur.tx
         /\ u.nominal = cur.nominal
<1> DEFINE s == IF new.status # old.status THEN new.status ELSE cur.status
           o == IF new.owner # old.owner THEN new.owner ELSE cur.owner
           v == IF new.value # old.value THEN new.value ELSE cur.value
           t == IF new.tx # old.tx THEN new.tx ELSE cur.tx
<1>1. /\ s \in {"ACTIF", "GELE"} /\ o \in Users \cup {IssuerUser}
      /\ v \in Amounts /\ t \in TxIds \cup {Empty}
  BY DEF Row
<1>2. Updated(old, cur, new) =
        [cur EXCEPT !.status = s, !.owner = o, !.value = v, !.tx = t]
  BY DEF Updated
<1> HIDE DEF s, o, v, t
<1>3. LET u == [cur EXCEPT !.status = s, !.owner = o, !.value = v, !.tx = t]
      IN  u \in Row /\ u.status = s /\ u.owner = o /\ u.tx = t
          /\ u.nominal = cur.nominal
  BY <1>1 DEF Row
<1>4. QED
  BY <1>2, <1>3 DEF s, o, t

(* The values a transfer, a freeze or an unfreeze gives the row it holds.  *)
LEMMA NewRowFields ==
  ASSUME NEW q \in Reqs, rq[q] \in Request, loaded[q] \in Row,
         rq[q].kind \in {"transfer", "freeze", "unfreeze"},
         rq[q].kind = "transfer" => rq[q].to \in Users,
         gotTx[q] \in TxIds \cup {Empty}
  PROVE  /\ NewRow(q) \in Row /\ NewRow(q).tx = gotTx[q]
         /\ rq[q].kind = "transfer" => /\ NewRow(q).owner = rq[q].to
                                       /\ NewRow(q).status = loaded[q].status
         /\ rq[q].kind \in {"freeze", "unfreeze"} =>
              /\ NewRow(q).owner = loaded[q].owner
              /\ NewRow(q).status = Target(rq[q].kind)
<1>1. CASE rq[q].kind = "transfer"
  <2>1. rq[q] \in TransferRequest
    BY <1>1, KindsOf
  <2>2. rq[q].amount \in Amounts /\ rq[q].to \in Users
    BY <1>1, <2>1 DEF TransferRequest
  <2>3. NewRow(q) = [loaded[q] EXCEPT !.owner = rq[q].to,
                                      !.value = rq[q].amount, !.tx = gotTx[q]]
    BY <1>1 DEF NewRow
  <2>4. QED
    BY <1>1, <2>2, <2>3 DEF Row
<1>2. CASE rq[q].kind = "freeze"
  <2>1. NewRow(q) = [loaded[q] EXCEPT !.status = "GELE", !.tx = gotTx[q]]
    BY <1>2 DEF NewRow
  <2>2. QED
    BY <1>2, <2>1 DEF Row, Target
<1>3. CASE rq[q].kind = "unfreeze"
  <2>1. NewRow(q) = [loaded[q] EXCEPT !.status = "ACTIF", !.tx = gotTx[q]]
    BY <1>3 DEF NewRow
  <2>2. QED
    BY <1>3, <2>1 DEF Row, Target
<1>4. QED
  BY <1>1, <1>2, <1>3

(* What a commit to the row of one asset keeps.                            *)
LEMMA DbStep ==
  ASSUME TypeOK, NEW id \in Assets, NEW row \in Row,
         db' = [db EXCEPT ![id] = row]
  PROVE  /\ db' \in [Assets -> Row \cup {NoRow}]
         /\ db'[id] = row
         /\ \A a \in Assets : db[a] # NoRow => db'[a] # NoRow
         /\ \A a \in Assets : a # id => db'[a] = db[a]
BY SagaAssumption DEF TypeOK

LEMMA CommitTokenizeBase ==
  ASSUME BaseInv, NEW q \in Reqs, CommitTokenize(q)
  PROVE  BaseInv'
<1> DEFINE row == [status |-> "ACTIF", owner |-> IssuerUser,
                   value |-> rq[q].amount, nominal |-> rq[q].amount,
                   tx |-> gotTx[q]]
<1>1. /\ TypeOK /\ NoPhantomRows /\ rq[q].kind \in Kinds /\ Asset(q) \in Assets
      /\ Landed(q) /\ rq[q] \in Request
  BY BaseParts
<1>2. /\ rq' = rq /\ rows' = rows /\ pc[q] = "commit" /\ rq[q].kind = "tokenize"
      /\ world' = world /\ used' = used /\ stray' = stray
      /\ loaded' = loaded /\ gotTx' = gotTx
      /\ critical' = critical /\ disturbed' = disturbed
      /\ pc' = [pc EXCEPT ![q] = "done"]
      /\ db' = [db EXCEPT ![Asset(q)] = row]
  BY DEF CommitTokenize, ledger, logs, Goto
<1>3. row \in Row
  <2>1. rq[q] \in TokenizeRequest /\ gotTx[q] \in TxIds \cup {Empty}
    BY <1>1, <1>2, KindsOf DEF TypeOK
  <2>2. QED
    BY <2>1 DEF TokenizeRequest, Row
<1>4. AssetRowOK(world, Asset(q), row)
  <2>1. /\ world[Asset(q)] # NoAsset
        /\ world[Asset(q)].nominalValue = rq[q].amount
        /\ gotTx[q] # Empty =>
             \E i \in 1..Len(world[Asset(q)].provenance) :
               world[Asset(q)].provenance[i].txID = gotTx[q]
    BY <1>1, <1>2 DEF Landed, Pending
  <2>2. QED
    BY <2>1 DEF AssetRowOK
<1> HIDE DEF row
<1>5. /\ db' \in [Assets -> Row \cup {NoRow}] /\ db'[Asset(q)] = row
      /\ \A a \in Assets : db[a] # NoRow => db'[a] # NoRow
      /\ \A a \in Assets : a # Asset(q) => db'[a] = db[a]
  BY <1>1, <1>2, <1>3, DbStep
<1>6. Grown(world, world')
  BY <1>2, SameGrown
<1>7. NoPhantomRows'
  BY <1>1, <1>2, <1>4, <1>5, <1>6, PhantomsKept
<1>8. "done" \in StepsOf(rq[q].kind) /\ "done" \in PcSet
  BY <1>2 DEF StepsOf, PcSet
<1>9. pc'[q] = "done"
  BY <1>1, <1>2 DEF TypeOK
<1>10. RowHeld(q)' /\ Landed(q)'
  BY <1>9 DEF RowHeld, Landed, Pending
<1>11. TypeOK'
  BY <1>1, <1>2, <1>5, <1>8 DEF TypeOK
<1>12. Moves(q, "done")
  BY <1>2, <1>5, <1>6, <1>8 DEF Moves
<1>13. QED
  BY <1>7, <1>10, <1>11, <1>12, BaseStep

(* The row a commit leaves, other than that of tokenize.                   *)
Committed(q) ==
  IF rq[q].kind = "valuate"
  THEN [db[Asset(q)] EXCEPT !.value = rq[q].amount]
  ELSE Updated(loaded[q], db[Asset(q)], NewRow(q))

LEMMA CommittedRow ==
  ASSUME BaseInv, NEW q \in Reqs, pc[q] = "commit", rq[q].kind # "tokenize"
  PROVE  /\ rq[q].kind \in {"transfer", "freeze", "unfreeze", "valuate"}
         /\ db[Asset(q)] \in Row /\ loaded[q] \in Row
         /\ Committed(q) \in Row
         /\ Committed(q).nominal = db[Asset(q)].nominal
         /\ Committed(q).tx \in {db[Asset(q)].tx, gotTx[q]}
         /\ rq[q].kind = "valuate" => Committed(q).tx = db[Asset(q)].tx
<1>1. /\ TypeOK /\ RowHeld(q) /\ rq[q] \in Request /\ Asset(q) \in Assets
      /\ pc[q] \in StepsOf(rq[q].kind) /\ rq[q].kind \in Kinds
  BY BaseParts
<1>2. rq[q].kind \in {"transfer", "freeze", "unfreeze", "valuate"}
  BY <1>1 DEF StepsOf, Kinds
<1>3. db[Asset(q)] \in Row /\ loaded[q] \in Row
  BY <1>1, <1>2 DEF RowHeld, TypeOK
<1>4. CASE rq[q].kind = "valuate"
  <2>1. rq[q].amount \in Amounts
    BY <1>1, <1>4, KindsOf DEF ValuateRequest
  <2>2. Committed(q) = [db[Asset(q)] EXCEPT !.value = rq[q].amount]
    BY <1>4 DEF Committed
  <2>3. Committed(q) \in Row /\ Committed(q).nominal = db[Asset(q)].nominal
        /\ Committed(q).tx = db[Asset(q)].tx
    BY <1>3, <2>1, <2>2 DEF Row
  <2>4. QED
    BY <1>2, <1>3, <2>3
<1>5. CASE rq[q].kind # "valuate"
  <2>1. NewRow(q) \in Row /\ NewRow(q).tx = gotTx[q]
    BY <1>1, <1>2, <1>3, <1>5, NewRowFields DEF TypeOK, RowHeld
  <2>2. Committed(q) = Updated(loaded[q], db[Asset(q)], NewRow(q))
    BY <1>5 DEF Committed
  <2>3. QED
    BY <1>2, <1>3, <1>5, <2>1, <2>2, UpdatedFields
<1>6. QED
  BY <1>4, <1>5

(* The row of transactions a commit inserts is one of the ledger's.        *)
LEMMA InsertedRow ==
  ASSUME BaseInv, NEW q \in Reqs, pc[q] = "commit", rq[q].kind # "tokenize",
         ~CommitMustFail(q), NEW t \in Inserted(q)
  PROVE  t \in TxRow /\ TxRowOK(world, t)
<1>1. /\ TypeOK /\ RowHeld(q) /\ rq[q] \in Request /\ Asset(q) \in Assets
      /\ Landed(q) /\ gotTx[q] \in TxIds \cup {Empty}
  BY BaseParts DEF TypeOK
<1>2. /\ rq[q].kind \in {"transfer", "freeze", "unfreeze", "valuate"}
      /\ loaded[q] \in Row
  BY CommittedRow
<1>3. rq[q].kind # "valuate"
  BY DEF Inserted
<1>4. gotTx[q] \in TxIds /\ gotTx[q] # Empty
  BY <1>1, <1>2, <1>3, ClientAssumption DEF CommitMustFail
<1>5. /\ world[Asset(q)] # NoAsset
      /\ \E i \in 1..Len(world[Asset(q)].provenance) :
           /\ world[Asset(q)].provenance[i].txID = gotTx[q]
           /\ world[Asset(q)].provenance[i].action = ActionOf(rq[q].kind)
           /\ rq[q].kind = "transfer" =>
                world[Asset(q)].provenance[i].toOwner = rq[q].to
  BY <1>1, <1>2, <1>3, <1>4 DEF Landed, Pending
<1>6. CASE rq[q].kind = "transfer"
  <2>1. t = [tx |-> gotTx[q], type |-> "TRANSFERT", asset |-> rq[q].asset,
             to |-> rq[q].to, amount |-> rq[q].amount]
    BY <1>6 DEF Inserted
  <2>2. rq[q].amount \in Amounts /\ rq[q].to \in Users
    BY <1>1, <1>6, KindsOf DEF TransferRequest, RowHeld
  <2>3. t \in TxRow
    BY <1>1, <1>4, <2>1, <2>2 DEF TxRow, Asset
  <2>4. /\ t.asset = Asset(q) /\ t.tx = gotTx[q] /\ t.to = rq[q].to
        /\ t.type = "TRANSFERT"
    BY <2>1 DEF Asset
  <2>5. LedgerAction[t.type] = ActionOf(rq[q].kind)
    BY <1>6, <2>4 DEF LedgerAction, ActionOf
  <2>6. QED
    BY <1>5, <1>6, <2>3, <2>4, <2>5 DEF TxRowOK
<1>7. CASE rq[q].kind \in {"freeze", "unfreeze"}
  <2>1. t = [tx |-> gotTx[q], asset |-> rq[q].asset, to |-> Empty,
             type |-> IF rq[q].kind = "freeze" THEN "GEL" ELSE "DEGEL",
             amount |-> loaded[q].nominal]
    BY <1>7 DEF Inserted
  <2>2. loaded[q].nominal \in Amounts
    BY <1>2 DEF Row
  <2>3. t \in TxRow
    BY <1>1, <1>4, <2>1, <2>2 DEF TxRow, Asset
  <2>4. /\ t.asset = Asset(q) /\ t.tx = gotTx[q]
        /\ t.type = IF rq[q].kind = "freeze" THEN "GEL" ELSE "DEGEL"
    BY <2>1 DEF Asset
  <2>5. LedgerAction[t.type] = ActionOf(rq[q].kind) /\ t.type # "TRANSFERT"
    BY <1>7, <2>4 DEF LedgerAction, ActionOf
  <2>6. QED
    BY <1>5, <2>3, <2>4, <2>5 DEF TxRowOK
<1>8. QED
  BY <1>2, <1>3, <1>6, <1>7

LEMMA CommitUpdateBase ==
  ASSUME BaseInv, NEW q \in Reqs, CommitUpdate(q)
  PROVE  BaseInv'
<1>1. /\ TypeOK /\ NoPhantomRows /\ rq[q].kind \in Kinds /\ Asset(q) \in Assets
      /\ Landed(q) /\ RowHeld(q)
  BY BaseParts
<1>2. /\ rq' = rq /\ rows' = rows \cup Inserted(q)
      /\ pc[q] = "commit" /\ rq[q].kind # "tokenize" /\ ~CommitMustFail(q)
      /\ world' = world /\ used' = used /\ stray' = stray
      /\ loaded' = loaded /\ gotTx' = gotTx
      /\ critical' = critical /\ disturbed' = disturbed
      /\ pc' = [pc EXCEPT ![q] = "done"]
  BY DEF CommitUpdate, ledger, logs, Goto
<1>3. db' = [db EXCEPT ![Asset(q)] = Committed(q)]
  BY <1>1 DEF CommitUpdate, Committed, TypeOK
<1>4. /\ rq[q].kind \in {"transfer", "freeze", "unfreeze", "valuate"}
      /\ db[Asset(q)] \in Row /\ Committed(q) \in Row
      /\ Committed(q).nominal = db[Asset(q)].nominal
      /\ Committed(q).tx \in {db[Asset(q)].tx, gotTx[q]}
      /\ rq[q].kind = "valuate" => Committed(q).tx = db[Asset(q)].tx
  BY <1>2, CommittedRow
<1>5. /\ db' \in [Assets -> Row \cup {NoRow}] /\ db'[Asset(q)] = Committed(q)
      /\ \A a \in Assets : db[a] # NoRow => db'[a] # NoRow
      /\ \A a \in Assets : a # Asset(q) => db'[a] = db[a]
  BY <1>1, <1>3, <1>4, DbStep
<1>6. AssetRowOK(world, Asset(q), Committed(q))
  <2>1. AssetRowOK(world, Asset(q), db[Asset(q)])
    BY <1>1, <1>4, NoPhantomParts, SagaAssumption
  <2>2. rq[q].kind # "valuate" /\ gotTx[q] # Empty =>
          \E i \in 1..Len(world[Asset(q)].provenance) :
            world[Asset(q)].provenance[i].txID = gotTx[q]
    BY <1>1, <1>2, <1>4 DEF Landed, Pending
  <2>3. QED
    BY <1>4, <2>1, <2>2 DEF AssetRowOK
<1>7. \A t \in Inserted(q) : t \in TxRow /\ TxRowOK(world, t)
  BY <1>2, InsertedRow
<1>8. Grown(world, world')
  BY <1>2, SameGrown
<1>9. NoPhantomRows'
  BY <1>1, <1>2, <1>5, <1>6, <1>7, <1>8, PhantomsKept
<1>10. "done" \in StepsOf(rq[q].kind) /\ "done" \in PcSet
  BY <1>4 DEF StepsOf, PcSet
<1>11. pc'[q] = "done"
  BY <1>1, <1>2 DEF TypeOK
<1>12. RowHeld(q)' /\ Landed(q)'
  BY <1>11 DEF RowHeld, Landed, Pending
<1>13. TypeOK'
  <2>1. rows' \subseteq TxRow
    BY <1>1, <1>2, <1>7 DEF TypeOK
  <2>2. QED
    BY <1>1, <1>2, <1>5, <1>10, <2>1 DEF TypeOK
<1>14. Moves(q, "done")
  BY <1>2, <1>5, <1>8, <1>10 DEF Moves
<1>15. QED
  BY <1>9, <1>12, <1>13, <1>14, BaseStep

(* The row the synchronisation leaves.                                     *)
Synced(q) ==
  [db[Asset(q)] EXCEPT
     !.status = IF loaded[q].status # Empty THEN loaded[q].status ELSE @,
     !.value  = IF loaded[q].value # Empty THEN loaded[q].value ELSE @]

LEMMA SyncedRow ==
  ASSUME BaseInv, NEW q \in Reqs, pc[q] = "update"
  PROVE  /\ db[Asset(q)] \in Row /\ Synced(q) \in Row
         /\ Synced(q).nominal = db[Asset(q)].nominal
         /\ Synced(q).tx = db[Asset(q)].tx
         /\ Synced(q).owner = db[Asset(q)].owner
         /\ Synced(q).status = IF loaded[q].status # Empty
                               THEN loaded[q].status ELSE db[Asset(q)].status
<1> DEFINE s == IF loaded[q].status # Empty THEN loaded[q].status
                ELSE db[Asset(q)].status
           v == IF loaded[q].value # Empty THEN loaded[q].value
                ELSE db[Asset(q)].value
<1>1. TypeOK /\ RowHeld(q) /\ Asset(q) \in Assets
  BY BaseParts
<1>2. db[Asset(q)] \in Row
  BY <1>1 DEF RowHeld, TypeOK
<1>3. loaded[q] \in SyncRow
  BY <1>1 DEF RowHeld
<1>4. s \in {"ACTIF", "GELE"} /\ v \in Amounts
  BY <1>2, <1>3 DEF Row, SyncRow
<1>5. Synced(q) = [db[Asset(q)] EXCEPT !.status = s, !.value = v]
  BY DEF Synced
<1> HIDE DEF s, v
<1>6. /\ Synced(q) \in Row /\ Synced(q).nominal = db[Asset(q)].nominal
      /\ Synced(q).tx = db[Asset(q)].tx /\ Synced(q).status = s
      /\ Synced(q).owner = db[Asset(q)].owner
  BY <1>2, <1>4, <1>5 DEF Row
<1>7. QED
  BY <1>2, <1>6 DEF s

LEMMA SyncUpdateBase ==
  ASSUME BaseInv, NEW q \in Reqs, SyncUpdate(q)
  PROVE  BaseInv'
<1>1. /\ TypeOK /\ NoPhantomRows /\ rq[q].kind \in Kinds /\ Asset(q) \in Assets
      /\ pc[q] \in StepsOf(rq[q].kind)
  BY BaseParts
<1>2. /\ rq' = rq /\ rows' = rows /\ pc[q] = "update"
      /\ world' = world /\ used' = used /\ stray' = stray
      /\ loaded' = loaded /\ gotTx' = gotTx
      /\ critical' = critical /\ disturbed' = disturbed
      /\ pc' = [pc EXCEPT ![q] = "done"]
  BY DEF SyncUpdate, ledger, logs, Goto
<1>3. db' = [db EXCEPT ![Asset(q)] = Synced(q)]
  BY DEF SyncUpdate, Synced
<1>4. /\ db[Asset(q)] \in Row /\ Synced(q) \in Row
      /\ Synced(q).nominal = db[Asset(q)].nominal
      /\ Synced(q).tx = db[Asset(q)].tx
  BY <1>2, SyncedRow
<1>5. /\ db' \in [Assets -> Row \cup {NoRow}] /\ db'[Asset(q)] = Synced(q)
      /\ \A a \in Assets : db[a] # NoRow => db'[a] # NoRow
      /\ \A a \in Assets : a # Asset(q) => db'[a] = db[a]
  BY <1>1, <1>3, <1>4, DbStep
<1>6. AssetRowOK(world, Asset(q), Synced(q))
  <2>1. AssetRowOK(world, Asset(q), db[Asset(q)])
    BY <1>1, <1>4, NoPhantomParts, SagaAssumption
  <2>2. QED
    BY <1>4, <2>1 DEF AssetRowOK
<1>7. Grown(world, world')
  BY <1>2, SameGrown
<1>8. NoPhantomRows'
  BY <1>1, <1>2, <1>5, <1>6, <1>7, PhantomsKept
<1>9. "done" \in StepsOf(rq[q].kind) /\ "done" \in PcSet
  BY <1>1 DEF StepsOf, PcSet, Kinds
<1>10. pc'[q] = "done"
  BY <1>1, <1>2 DEF TypeOK
<1>11. RowHeld(q)' /\ Landed(q)'
  BY <1>10 DEF RowHeld, Landed, Pending
<1>12. TypeOK'
  BY <1>1, <1>2, <1>5, <1>9 DEF TypeOK
<1>13. Moves(q, "done")
  BY <1>2, <1>5, <1>7, <1>9 DEF Moves
<1>14. QED
  BY <1>8, <1>11, <1>12, <1>13, BaseStep

LEMMA BaseInit ==
  ASSUME Init
  PROVE  BaseInv
<1>1. TypeOK
  BY DEF Init, TypeOK, PcSet
<1>2. \A q \in Reqs : rq[q].kind \in Kinds
  BY <1>1, ReqTypes
<1>3. \A q \in Reqs : pc[q] = "idle"
  BY DEF Init
<1>4. \A q \in Reqs : pc[q] \in StepsOf(rq[q].kind)
  BY <1>2, <1>3 DEF StepsOf, Kinds
<1>5. \A q \in Reqs : RowHeld(q) /\ Landed(q)
  BY <1>3 DEF RowHeld, Landed, Pending
<1>6. NoPhantomRows
  BY DEF Init, NoPhantomRows
<1>7. QED
  BY <1>1, <1>4, <1>5, <1>6 DEF BaseInv

LEMMA BaseNext ==
  ASSUME BaseInv, [Next]_vars
  PROVE  BaseInv'
<1>1. CASE UNCHANGED vars
  <2>1. /\ world' = world /\ used' = used /\ stray' = stray /\ db' = db
        /\ rows' = rows /\ pc' = pc /\ rq' = rq /\ loaded' = loaded
        /\ gotTx' = gotTx /\ critical' = critical /\ disturbed' = disturbed
    BY <1>1 DEF vars, ledger, dbvars, logs
  <2>2. TypeOK' /\ NoPhantomRows'
    BY <2>1 DEF BaseInv, TypeOK, NoPhantomRows
  <2>3. \A q \in Reqs : RowHeld(q)' /\ Landed(q)'
    BY <2>1, SameGrown, OthersKept DEF BaseInv
  <2>4. QED
    BY <2>1, <2>2, <2>3 DEF BaseInv
<1>2. ASSUME NEW q \in Reqs, Start(q) \/ Load(q) \/ Check(q)
      PROVE  BaseInv'
  BY <1>2, StartBase, LoadBase, CheckBase
<1>3. ASSUME NEW q \in Reqs, NEW tx \in TxIds,
             SubmitReturns(q, tx) \/ Compensate(q, tx)
      PROVE  BaseInv'
  BY <1>3, SubmitReturnsBase, CompensateBase
<1>4. ASSUME NEW q \in Reqs,
             \/ SubmitFails(q) \/ AttemptStrays(q)
             \/ CommitFails(q) \/ CompensationFails(q)
      PROVE  BaseInv'
  BY <1>4, SubmitFailsBase, TimeoutBase, CommitFailsBase,
     CompensationFailsBase
<1>5. ASSUME NEW q \in Reqs, CommitTokenize(q) \/ CommitUpdate(q)
      PROVE  BaseInv'
  BY <1>5, CommitTokenizeBase, CommitUpdateBase
<1>6. ASSUME NEW q \in Reqs, SyncRead(q) \/ SyncSelect(q) \/ SyncUpdate(q)
      PROVE  BaseInv'
  BY <1>6, SyncReadBase, SyncSelectBase, SyncUpdateBase
<1>7. ASSUME NEW tx \in TxIds, LateCommit(tx)
      PROVE  BaseInv'
  BY <1>7, LateCommitBase
<1>8. QED
  BY <1>1, <1>2, <1>3, <1>4, <1>5, <1>6, <1>7 DEF Next

(* Both stores and the requests' local state keep their types, whatever    *)
(* the requests and however they interleave, fail or time out.             *)
THEOREM SagaTypeCorrect == Spec => []TypeOK
<1>1. Init => BaseInv
  BY BaseInit
<1>2. BaseInv /\ [Next]_vars => BaseInv'
  BY BaseNext
<1>3. BaseInv => TypeOK
  BY DEF BaseInv
<1>4. QED
  BY <1>1, <1>2, <1>3, PTL DEF Spec

(* PostgreSQL never runs ahead of the ledger: every row of transactions is *)
(* the image of a record of its asset's trail, and every row of assets     *)
(* describes an asset of the ledger, whatever fails, is lost or overlaps.  *)
THEOREM NothingPhantom == Spec => []NoPhantomRows
<1>1. Init => BaseInv
  BY BaseInit
<1>2. BaseInv /\ [Next]_vars => BaseInv'
  BY BaseNext
<1>3. BaseInv => NoPhantomRows
  BY DEF BaseInv
<1>4. QED
  BY <1>1, <1>2, <1>3, PTL DEF Spec

-----------------------------------------------------------------------------
(* Preservation of InTurn, while nothing disturbs the requests.            *)

(* Request q moves to l and touches no asset but its own.                  *)
Alone(q, l) ==
  /\ q \in Reqs /\ pc' = [pc EXCEPT ![q] = l] /\ rq' = rq /\ stray' = stray
  /\ critical \subseteq critical'
  /\ \A id \in Assets : id # Asset(q) => world'[id] = world[id]
                                         /\ db'[id] = db[id]

LEMMA ExcusesKept ==
  ASSUME TypeOK, NEW q \in Reqs, Active(q), NEW l, Alone(q, l), NEW id
  PROVE  /\ MissingExcused(id) => MissingExcused(id)'
         /\ StatusExcused(id) => StatusExcused(id)'
         /\ OwnerExcused(id) => OwnerExcused(id)'
<1>1. \A p \in Reqs : /\ pc[p] = "failed" => pc'[p] = "failed"
                      /\ pc[p] = "noPayload" => pc'[p] = "noPayload"
  BY DEF Alone, Active, TypeOK, Ended
<1>2. /\ rq' = rq /\ \A p : p \in critical => p \in critical'
  BY DEF Alone
<1>3. MissingExcused(id) => MissingExcused(id)'
  <2> SUFFICES ASSUME NEW p \in Reqs, rq[p].kind = "tokenize", rq[p].asset = id,
                      pc[p] \in {"failed", "noPayload"}
               PROVE  MissingExcused(id)'
    BY DEF MissingExcused
  <2>1. pc'[p] \in {"failed", "noPayload"}
    BY <1>1
  <2>2. rq'[p] = rq[p]
    BY <1>2
  <2>3. QED
    BY <2>1, <2>2 DEF MissingExcused
<1>4. ASSUME NEW kinds PROVE Excuse(kinds, id) => Excuse(kinds, id)'
  BY <1>1, <1>2 DEF Excuse
<1>5. QED
  BY <1>3, <1>4 DEF StatusExcused, OwnerExcused

(* Of the requests in turn only q can be the excuse for a difference.      *)
LEMMA OnlyExcuse ==
  ASSUME InTurn, NEW q \in Reqs, Active(q), NEW id \in Assets
  PROVE  /\ world[id] # NoAsset /\ db[id] = NoRow =>
              \/ MissingExcused(id)
              \/ Pending(q) /\ rq[q].kind = "tokenize" /\ rq[q].asset = id
         /\ id \in Recorded /\ ~SameStatus(id) =>
              \/ StatusExcused(id)
              \/ /\ Pending(q) /\ rq[q].asset = id
                 /\ rq[q].kind \in {"freeze", "unfreeze"}
         /\ id \in Recorded /\ ~SameOwner(id) =>
              \/ OwnerExcused(id)
              \/ Pending(q) /\ rq[q].kind = "transfer" /\ rq[q].asset = id
<1>1. \A p \in Reqs : Pending(p) => p = q
  BY DEF InTurn, Pending, Active, Ended
<1>2. AssetOK(id)
  BY DEF InTurn
<1> HIDE DEF InTurn
<1>3. QED
  BY <1>1, <1>2 DEF AssetOK

LEMMA InTurnStep ==
  ASSUME TypeOK, InTurn, NEW q \in Reqs, Active(q), NEW l, Alone(q, l),
         StageOK(q)', NEW a, a = Asset(q), AssetOK(a)'
  PROVE  InTurn'
<1>1. \A p \in Reqs : p # q => ~Active(p) /\ ~Active(p)'
  BY DEF InTurn, Alone, Active, TypeOK, Ended
<1>2. ASSUME NEW p \in Reqs, p # q PROVE StageOK(p)'
  <2>1. pc'[p] \in Ended
    BY <1>1, <1>2 DEF Active, Ended
  <2>2. QED
    BY <2>1 DEF StageOK, Pending, Ended
<1>3. ASSUME NEW id \in Assets, id # a PROVE AssetOK(id)'
  <2>1. world'[id] = world[id] /\ db'[id] = db[id] /\ rq[q].asset # id
    BY <1>3 DEF Alone, Asset
  <2>2. /\ world[id] # NoAsset /\ db[id] = NoRow => MissingExcused(id)
        /\ id \in Recorded /\ ~SameStatus(id) => StatusExcused(id)
        /\ id \in Recorded /\ ~SameOwner(id) => OwnerExcused(id)
    BY <2>1, OnlyExcuse
  <2>3. /\ MissingExcused(id) => MissingExcused(id)'
        /\ StatusExcused(id) => StatusExcused(id)'
        /\ OwnerExcused(id) => OwnerExcused(id)'
    BY ExcusesKept
  <2>4. /\ id \in Recorded' <=> id \in Recorded
        /\ SameStatus(id)' <=> SameStatus(id)
        /\ SameOwner(id)' <=> SameOwner(id)
    BY <2>1 DEF Recorded, SameStatus, SameOwner
  <2>5. QED
    BY <2>1, <2>2, <2>3, <2>4 DEF AssetOK
<1>4. stray' = {}
  BY DEF InTurn, Alone
<1>5. QED
  BY <1>1, <1>2, <1>3, <1>4 DEF InTurn

(* A step that changes neither store of the request's asset and does not   *)
(* end a pending request.                                                  *)
LEMMA AssetKept ==
  ASSUME TypeOK, InTurn, NEW q \in Reqs, Active(q), NEW l, Alone(q, l),
         NEW id \in Assets, world'[id] = world[id], db'[id] = db[id],
         Pending(q) => Pending(q)'
  PROVE  AssetOK(id)'
<1>1. /\ world[id] # NoAsset /\ db[id] = NoRow =>
              \/ MissingExcused(id)
              \/ Pending(q) /\ rq[q].kind = "tokenize" /\ rq[q].asset = id
      /\ id \in Recorded /\ ~SameStatus(id) =>
           \/ StatusExcused(id)
           \/ /\ Pending(q) /\ rq[q].asset = id
              /\ rq[q].kind \in {"freeze", "unfreeze"}
      /\ id \in Recorded /\ ~SameOwner(id) =>
           \/ OwnerExcused(id)
           \/ Pending(q) /\ rq[q].kind = "transfer" /\ rq[q].asset = id
  BY OnlyExcuse
<1>2. /\ MissingExcused(id) => MissingExcused(id)'
      /\ StatusExcused(id) => StatusExcused(id)'
      /\ OwnerExcused(id) => OwnerExcused(id)'
  BY ExcusesKept
<1>3. /\ id \in Recorded' <=> id \in Recorded
      /\ SameStatus(id)' <=> SameStatus(id)
      /\ SameOwner(id)' <=> SameOwner(id)
  BY DEF Recorded, SameStatus, SameOwner
<1>4. rq' = rq
  BY DEF Alone
<1>5. QED
  BY <1>1, <1>2, <1>3, <1>4 DEF AssetOK

(* A request that has ended is in no stage.                                *)
LEMMA EndedStage ==
  ASSUME NEW q \in Reqs, pc'[q] \in {"done", "failed", "noPayload"}
  PROVE  StageOK(q)'
BY DEF StageOK, Pending

LEMMA StartInTurn ==
  ASSUME BaseInv, InTurn, NEW q \in Reqs, Start(q), ~disturbed'
  PROVE  InTurn'
<1>1. /\ TypeOK /\ rq[q].kind \in Kinds
  BY BaseParts
<1>2. /\ pc' = [pc EXCEPT ![q] = FirstStep(rq[q].kind)] /\ pc[q] = "idle"
      /\ rq' = rq /\ db' = db /\ world' = world /\ stray' = stray
      /\ loaded' = loaded /\ critical' = critical
  BY DEF Start, Goto, ledger, dbvars
<1>3. \A p \in Reqs : pc[p] \in Ended
  BY DEF Start, Quiet, Ended
<1>4. \A p \in Reqs : p # q => pc'[p] = pc[p]
  BY <1>1, <1>2 DEF TypeOK
<1>5. /\ rq[q].kind \in {"tokenize", "freeze", "unfreeze"} => pc'[q] = "submit"
      /\ rq[q].kind \in {"transfer", "valuate"} => pc'[q] = "load"
      /\ rq[q].kind = "sync" => pc'[q] = "read"
  BY <1>1, <1>2 DEF FirstStep, Kinds, TypeOK
<1>6. \A p \in Reqs : ~Pending(p) /\ ~Pending(p)'
  BY <1>2, <1>3, <1>4, <1>5 DEF Pending, Ended
<1>7. ASSUME NEW p \in Reqs PROVE StageOK(p)'
  BY <1>1, <1>2, <1>3, <1>4, <1>5, <1>6 DEF StageOK, Kinds, Ended
<1>8. ASSUME NEW id \in Assets PROVE AssetOK(id)'
  <2>1. MissingExcused(id) => MissingExcused(id)'
    BY <1>2, <1>4 DEF MissingExcused
  <2>2. AssetOK(id)
    BY DEF InTurn
  <2>3. QED
    BY <1>2, <1>6, <2>1, <2>2
    DEF AssetOK, Recorded, SameStatus, SameOwner, StatusExcused, OwnerExcused, Excuse
<1>9. \A p, r \in Reqs : Active(p)' /\ Active(r)' => p = r
  BY <1>3, <1>4 DEF Active, Ended
<1>10. stray' = {}
  BY <1>2 DEF InTurn
<1>11. QED
  BY <1>7, <1>8, <1>9, <1>10 DEF InTurn

LEMMA LoadInTurn ==
  ASSUME BaseInv, InTurn, NEW q \in Reqs, Load(q)
  PROVE  InTurn'
<1> DEFINE l == IF LoadFails(q) THEN "failed"
                ELSE IF rq[q].kind = "transfer" THEN "check" ELSE "commit"
<1>1. /\ TypeOK /\ rq[q].kind \in Kinds /\ Asset(q) \in Assets
      /\ pc[q] \in StepsOf(rq[q].kind)
  BY BaseParts
<1>2. /\ pc' = [pc EXCEPT ![q] = l] /\ rq' = rq /\ db' = db
      /\ world' = world /\ stray' = stray /\ critical' = critical
      /\ pc[q] = "load"
      /\ IF LoadFails(q) THEN loaded' = loaded
         ELSE loaded' = [loaded EXCEPT ![q] = db[Asset(q)]]
  BY DEF Load, Goto, ledger, dbvars, logs
<1>3. pc'[q] = l /\ (~LoadFails(q) => loaded'[q] = db[Asset(q)])
  BY <1>1, <1>2 DEF TypeOK
<1>4. Active(q) /\ Alone(q, l)
  BY <1>2 DEF Active, Alone, Ended
<1>5. PICK id \in Assets : id = Asset(q)
  BY <1>1
<1>6. StageOK(q)
  BY DEF InTurn
<1>7. StageOK(q)'
  <2>1. CASE LoadFails(q)
    BY <1>3, <2>1, EndedStage
  <2>2. CASE ~LoadFails(q)
    <3>1. Pending(q)' => Pending(q)
      BY <1>2, <1>3, <2>2 DEF Pending
    <3>2. pc'[q] \in {"check", "commit"} /\ loaded'[q] = db[Asset(q)]
      BY <1>3, <2>2
    <3>3. StatusExcused(Asset(q))' <=> StatusExcused(Asset(q))
      BY <1>2 DEF StatusExcused, Excuse, Asset
    <3>4. QED
      BY <1>2, <1>6, <3>1, <3>2, <3>3 DEF StageOK, Asset
  <2>3. QED
    BY <2>1, <2>2
<1>8. AssetOK(id)'
  <2>1. CASE Pending(q) => Pending(q)'
    BY <1>1, <1>2, <1>4, <2>1, AssetKept
  <2>2. CASE Pending(q) /\ ~Pending(q)'
    <3>1. LoadFails(q) /\ pc'[q] = "failed"
      BY <1>2, <1>3, <2>2 DEF Pending
    <3>2. CASE rq[q].kind = "tokenize"
      <4>1. MissingExcused(id)'
        BY <1>2, <1>5, <3>1, <3>2 DEF MissingExcused, Asset
      <4>2. /\ id \in Recorded /\ ~SameStatus(id) => StatusExcused(id)
            /\ id \in Recorded /\ ~SameOwner(id) => OwnerExcused(id)
        BY <1>4, <3>2, OnlyExcuse
      <4>3. QED
        BY <1>2, <4>1, <4>2
        DEF AssetOK, Recorded, SameStatus, SameOwner, StatusExcused, OwnerExcused, Excuse
    <3>3. CASE rq[q].kind # "tokenize"
      <4>1. db[id] = NoRow
        <5>1. rq[q].kind # "transfer"
          BY <1>2, <2>2 DEF Pending
        <5>2. QED
          BY <1>5, <3>1, <3>3, <5>1 DEF LoadFails
      <4>2. world[id] # NoAsset /\ db[id] = NoRow => MissingExcused(id)
        BY <1>4, <3>3, OnlyExcuse
      <4>3. MissingExcused(id) => MissingExcused(id)'
        BY <1>1, <1>4, ExcusesKept
      <4>4. QED
        BY <1>2, <4>1, <4>2, <4>3 DEF AssetOK, Recorded
    <3>4. QED
      BY <3>2, <3>3
  <2>3. QED
    BY <2>1, <2>2
<1> HIDE DEF l
<1>9. QED
  BY <1>1, <1>4, <1>5, <1>7, <1>8, InTurnStep

LEMMA CheckInTurn ==
  ASSUME BaseInv, InTurn, NEW q \in Reqs, Check(q)
  PROVE  InTurn'
<1>1. /\ TypeOK /\ Asset(q) \in Assets /\ pc[q] \in StepsOf(rq[q].kind)
      /\ rq[q].kind \in Kinds
  BY BaseParts
<1>2. PICK l \in {"failed", "submit"} : pc' = [pc EXCEPT ![q] = l]
  BY DEF Check, Goto
<1>3. /\ rq' = rq /\ db' = db /\ world' = world /\ stray' = stray
      /\ loaded' = loaded /\ critical' = critical /\ pc[q] = "check"
  BY DEF Check, ledger, dbvars, logs
<1>4. rq[q].kind = "transfer"
  BY <1>1, <1>3 DEF StepsOf, Kinds
<1>5. pc'[q] = l
  BY <1>1, <1>2 DEF TypeOK
<1>6. Active(q) /\ Alone(q, l) /\ ~Pending(q)
  BY <1>2, <1>3, <1>4 DEF Active, Alone, Pending, Ended
<1>7. StageOK(q)'
  <2>1. loaded[q] = db[Asset(q)]
    BY <1>3, <1>4 DEF InTurn, StageOK
  <2>2. QED
    BY <1>3, <1>4, <1>5, <2>1 DEF StageOK, Pending, Asset
<1>8. PICK id \in Assets : id = Asset(q)
  BY <1>1
<1>9. AssetOK(id)'
  BY <1>1, <1>3, <1>6, AssetKept
<1>10. QED
  BY <1>1, <1>6, <1>7, <1>8, <1>9, InTurnStep

LEMMA SubmitFailsInTurn ==
  ASSUME BaseInv, InTurn, NEW q \in Reqs, SubmitFails(q)
  PROVE  InTurn'
<1>1. TypeOK /\ Asset(q) \in Assets
  BY BaseParts
<1>2. /\ rq' = rq /\ db' = db /\ world' = world /\ stray' = stray
      /\ critical' = critical /\ pc[q] = "submit"
      /\ pc' = [pc EXCEPT ![q] = "failed"]
  BY DEF SubmitFails, Goto, ledger, dbvars, logs
<1>3. pc'[q] = "failed"
  BY <1>1, <1>2 DEF TypeOK
<1>4. Active(q) /\ Alone(q, "failed") /\ ~Pending(q)
  BY <1>2 DEF Active, Alone, Pending, Ended
<1>5. StageOK(q)'
  BY <1>3, EndedStage
<1>6. PICK id \in Assets : id = Asset(q)
  BY <1>1
<1>7. AssetOK(id)'
  BY <1>1, <1>2, <1>4, AssetKept
<1>8. QED
  BY <1>1, <1>4, <1>5, <1>6, <1>7, InTurnStep

LEMMA CommitFailsInTurn ==
  ASSUME BaseInv, InTurn, NEW q \in Reqs, CommitFails(q)
  PROVE  InTurn'
<1> DEFINE l == IF rq[q].kind \in {"transfer", "freeze", "unfreeze"}
                THEN "compensate" ELSE "failed"
<1>1. /\ TypeOK /\ Asset(q) \in Assets /\ pc[q] \in StepsOf(rq[q].kind)
      /\ rq[q].kind \in Kinds
  BY BaseParts
<1>2. /\ pc' = [pc EXCEPT ![q] = l] /\ rq' = rq /\ db' = db
      /\ world' = world /\ stray' = stray /\ critical' = critical
      /\ loaded' = loaded /\ pc[q] \in {"commit", "update"}
  BY DEF CommitFails, Goto, ledger, dbvars, logs
<1>3. pc'[q] = l
  BY <1>1, <1>2 DEF TypeOK
<1>4. Active(q) /\ Alone(q, l)
  BY <1>2 DEF Active, Alone, Ended
<1>5. pc[q] = "update" => rq[q].kind = "sync"
  BY <1>1 DEF StepsOf, Kinds
<1>6. PICK id \in Assets : id = Asset(q)
  BY <1>1
<1>7. StageOK(q) /\ (StatusExcused(Asset(q)) => StatusExcused(Asset(q))')
  <2>1. StatusExcused(id) => StatusExcused(id)'
    BY <1>1, <1>4, ExcusesKept
  <2>2. Asset(q)' = Asset(q)
    BY <1>2 DEF Asset
  <2>3. StatusExcused(Asset(q))' <=> StatusExcused(id)'
    BY <1>6, <2>2 DEF StatusExcused, Excuse
  <2>4. QED
    BY <1>6, <2>1, <2>3 DEF InTurn
<1>8. StageOK(q)'
  <2>1. CASE rq[q].kind \in {"transfer", "freeze", "unfreeze"}
    <3>1. pc[q] = "commit" /\ pc'[q] = "compensate"
      BY <1>2, <1>3, <1>5, <2>1
    <3>2. Pending(q)
      BY <2>1, <3>1 DEF Pending
    <3>3. QED
      BY <1>2, <1>7, <2>1, <3>1, <3>2 DEF StageOK, Asset
  <2>2. CASE rq[q].kind \notin {"transfer", "freeze", "unfreeze"}
    BY <1>3, <2>2, EndedStage
  <2>3. QED
    BY <2>1, <2>2
<1>9. AssetOK(id)'
  <2>1. CASE rq[q].kind # "tokenize"
    <3>1. Pending(q) => Pending(q)'
      BY <1>2, <1>3, <1>5, <2>1 DEF Pending
    <3>2. QED
      BY <1>1, <1>2, <1>4, <3>1, AssetKept
  <2>2. CASE rq[q].kind = "tokenize"
    <3>1. MissingExcused(id)'
      BY <1>2, <1>3, <1>6, <2>2 DEF MissingExcused, Asset
    <3>2. /\ id \in Recorded /\ ~SameStatus(id) => StatusExcused(id)
          /\ id \in Recorded /\ ~SameOwner(id) => OwnerExcused(id)
      BY <1>4, <2>2, OnlyExcuse
    <3>3. QED
      BY <1>2, <3>1, <3>2
      DEF AssetOK, Recorded, SameStatus, SameOwner, StatusExcused, OwnerExcused, Excuse
  <2>3. QED
    BY <2>1, <2>2
<1> HIDE DEF l
<1>10. QED
  BY <1>1, <1>4, <1>6, <1>8, <1>9, InTurnStep

LEMMA CompensationFailsInTurn ==
  ASSUME BaseInv, InTurn, NEW q \in Reqs, CompensationFails(q)
  PROVE  InTurn'
<1>1. /\ TypeOK /\ Asset(q) \in Assets /\ pc[q] \in StepsOf(rq[q].kind)
      /\ rq[q].kind \in Kinds
  BY BaseParts
<1>2. /\ pc' = [pc EXCEPT ![q] = "failed"] /\ rq' = rq /\ db' = db
      /\ world' = world /\ stray' = stray /\ critical' = critical \cup {q}
      /\ pc[q] = "compensate"
  BY DEF CompensationFails, Goto, ledger, dbvars
<1>3. pc'[q] = "failed"
  BY <1>1, <1>2 DEF TypeOK
<1>4. Active(q) /\ Alone(q, "failed")
  BY <1>2 DEF Active, Alone, Ended
<1>5. PICK id \in Assets : id = Asset(q)
  BY <1>1
<1>6. StageOK(q)'
  BY <1>3, EndedStage
<1>7. rq[q].kind \in {"transfer", "freeze", "unfreeze"}
  BY <1>1, <1>2 DEF StepsOf, Kinds
<1>8. AssetOK(id)'
  <2>1. /\ world[id] # NoAsset /\ db[id] = NoRow => MissingExcused(id)
        /\ id \in Recorded /\ ~SameStatus(id) =>
             StatusExcused(id) \/ rq[q].kind \in {"freeze", "unfreeze"}
        /\ id \in Recorded /\ ~SameOwner(id) =>
             OwnerExcused(id) \/ rq[q].kind = "transfer"
    BY <1>4, <1>7, OnlyExcuse
  <2>2. /\ MissingExcused(id) => MissingExcused(id)'
        /\ StatusExcused(id) => StatusExcused(id)'
        /\ OwnerExcused(id) => OwnerExcused(id)'
    BY <1>1, <1>4, ExcusesKept
  <2>3. /\ rq[q].kind \in {"freeze", "unfreeze"} => StatusExcused(id)'
        /\ rq[q].kind = "transfer" => OwnerExcused(id)'
    BY <1>2, <1>5 DEF StatusExcused, OwnerExcused, Excuse, Asset
  <2>4. /\ id \in Recorded' <=> id \in Recorded
        /\ SameStatus(id)' <=> SameStatus(id)
        /\ SameOwner(id)' <=> SameOwner(id)
    BY <1>2 DEF Recorded, SameStatus, SameOwner
  <2>5. QED
    BY <1>2, <2>1, <2>2, <2>3, <2>4 DEF AssetOK
<1>9. QED
  BY <1>1, <1>4, <1>5, <1>6, <1>8, InTurnStep

LEMMA SyncReadInTurn ==
  ASSUME BaseInv, InTurn, NEW q \in Reqs, SyncRead(q)
  PROVE  InTurn'
<1> DEFINE got == [status |-> world[Asset(q)].status,
                   value |-> world[Asset(q)].currentValue]
           l == IF world[Asset(q)] = NoAsset THEN "failed" ELSE "select"
<1>1. /\ TypeOK /\ rq[q].kind \in Kinds /\ Asset(q) \in Assets
      /\ pc[q] \in StepsOf(rq[q].kind)
  BY BaseParts
<1>2. /\ pc' = [pc EXCEPT ![q] = l] /\ rq' = rq /\ db' = db
      /\ world' = world /\ stray' = stray /\ pc[q] = "read"
      /\ critical' = critical
      /\ IF world[Asset(q)] = NoAsset THEN loaded' = loaded
         ELSE loaded' = [loaded EXCEPT ![q] = got]
  BY DEF SyncRead, Goto, ledger, dbvars, logs
<1>3. rq[q].kind = "sync"
  BY <1>1, <1>2 DEF StepsOf, Kinds
<1>4. /\ pc'[q] = l
      /\ world[Asset(q)] # NoAsset => loaded'[q].status = world[Asset(q)].status
  BY <1>1, <1>2 DEF TypeOK
<1>5. Active(q) /\ Alone(q, l) /\ ~Pending(q)
  BY <1>2 DEF Active, Alone, Pending, Ended
<1>6. StageOK(q)'
  BY <1>2, <1>3, <1>4 DEF StageOK, Pending, Asset
<1>7. PICK id \in Assets : id = Asset(q)
  BY <1>1
<1> HIDE DEF l
<1>8. AssetOK(id)'
  BY <1>1, <1>2, <1>5, AssetKept
<1>9. QED
  BY <1>1, <1>5, <1>6, <1>7, <1>8, InTurnStep

LEMMA SyncSelectInTurn ==
  ASSUME BaseInv, InTurn, NEW q \in Reqs, SyncSelect(q)
  PROVE  InTurn'
<1> DEFINE stop == \/ db[Asset(q)] = NoRow
                   \/ Selected(q) = [status |-> Empty, value |-> Empty]
           l == IF stop THEN "done" ELSE "update"
           new == IF stop THEN NoRow ELSE Selected(q)
<1>1. /\ TypeOK /\ rq[q].kind \in Kinds /\ Asset(q) \in Assets
      /\ pc[q] \in StepsOf(rq[q].kind)
  BY BaseParts
<1>2. /\ pc' = [pc EXCEPT ![q] = l] /\ rq' = rq /\ db' = db
      /\ world' = world /\ stray' = stray /\ pc[q] = "select"
      /\ critical' = critical /\ loaded' = [loaded EXCEPT ![q] = new]
  BY DEF SyncSelect, Selected, Goto, ledger, dbvars, logs
<1>3. rq[q].kind = "sync"
  BY <1>1, <1>2 DEF StepsOf, Kinds
<1>4. pc'[q] = l /\ loaded'[q] = new
  BY <1>1, <1>2 DEF TypeOK
<1>5. Active(q) /\ Alone(q, l) /\ ~Pending(q)
  BY <1>2, <1>3 DEF Active, Alone, Pending, Ended
<1>6. StageOK(q)'
  <2>1. /\ world[Asset(q)] # NoAsset
        /\ loaded[q].status = world[Asset(q)].status
    BY <1>2 DEF InTurn, StageOK
  <2>2. Selected(q).status \in {Empty, loaded[q].status}
    BY DEF Selected, Differs
  <2>3. QED
    BY <1>2, <1>3, <1>4, <2>1, <2>2 DEF StageOK, Pending, Asset
<1>7. PICK id \in Assets : id = Asset(q)
  BY <1>1
<1> HIDE DEF l, new
<1>8. AssetOK(id)'
  BY <1>1, <1>2, <1>5, AssetKept
<1>9. QED
  BY <1>1, <1>5, <1>6, <1>7, <1>8, InTurnStep

LEMMA SyncUpdateInTurn ==
  ASSUME BaseInv, InTurn, NEW q \in Reqs, SyncUpdate(q)
  PROVE  InTurn'
<1>1. /\ TypeOK /\ rq[q].kind \in Kinds /\ Asset(q) \in Assets
      /\ pc[q] \in StepsOf(rq[q].kind)
  BY BaseParts
<1>2. /\ rq' = rq /\ pc[q] = "update" /\ world' = world /\ stray' = stray
      /\ critical' = critical /\ pc' = [pc EXCEPT ![q] = "done"]
  BY DEF SyncUpdate, ledger, logs, Goto
<1>3. db' = [db EXCEPT ![Asset(q)] = Synced(q)]
  BY DEF SyncUpdate, Synced
<1>4. /\ db[Asset(q)] \in Row /\ Synced(q) \in Row
      /\ Synced(q).owner = db[Asset(q)].owner
      /\ Synced(q).status = IF loaded[q].status # Empty
                            THEN loaded[q].status ELSE db[Asset(q)].status
  BY <1>2, SyncedRow
<1>5. /\ db'[Asset(q)] = Synced(q)
      /\ \A a \in Assets : a # Asset(q) => db'[a] = db[a]
  BY <1>1, <1>3, <1>4, DbStep
<1>6. pc'[q] = "done" /\ rq[q].kind = "sync"
  BY <1>1, <1>2 DEF TypeOK, StepsOf, Kinds
<1>7. Active(q) /\ Alone(q, "done") /\ ~Pending(q)
  BY <1>2, <1>5, <1>6 DEF Active, Alone, Pending, Ended
<1>8. StageOK(q)'
  BY <1>6, EndedStage
<1>9. PICK id \in Assets : id = Asset(q)
  BY <1>1
<1>10. AssetOK(id)'
  <2>1. /\ id \in Recorded /\ ~SameStatus(id) => StatusExcused(id)
        /\ id \in Recorded /\ ~SameOwner(id) => OwnerExcused(id)
    BY <1>7, OnlyExcuse
  <2>2. /\ StatusExcused(id) => StatusExcused(id)'
        /\ OwnerExcused(id) => OwnerExcused(id)'
    BY <1>1, <1>7, ExcusesKept
  <2>3. loaded[q].status \in {Empty, world[id].status} /\ world[id] # NoAsset
    BY <1>2, <1>9 DEF InTurn, StageOK
  <2>4. db[id] # NoRow /\ db'[id] # NoRow
    BY <1>4, <1>5, <1>9, SagaAssumption
  <2>5. SameStatus(id)' \/ (SameStatus(id)' <=> SameStatus(id))
    BY <1>2, <1>4, <1>5, <1>9, <2>3 DEF SameStatus
  <2>6. SameOwner(id)' <=> SameOwner(id)
    BY <1>2, <1>4, <1>5, <1>9 DEF SameOwner
  <2>7. QED
    BY <1>2, <2>1, <2>2, <2>3, <2>4, <2>5, <2>6 DEF AssetOK, Recorded
<1>11. QED
  BY <1>1, <1>7, <1>8, <1>9, <1>10, InTurnStep

LEMMA CommitTokenizeInTurn ==
  ASSUME BaseInv, InTurn, NEW q \in Reqs, CommitTokenize(q)
  PROVE  InTurn'
<1> DEFINE row == [status |-> "ACTIF", owner |-> IssuerUser,
                   value |-> rq[q].amount, nominal |-> rq[q].amount,
                   tx |-> gotTx[q]]
<1>1. /\ TypeOK /\ Asset(q) \in Assets /\ rq[q] \in Request
  BY BaseParts
<1>2. /\ rq' = rq /\ pc[q] = "commit" /\ rq[q].kind = "tokenize"
      /\ world' = world /\ stray' = stray /\ critical' = critical
      /\ pc' = [pc EXCEPT ![q] = "done"]
      /\ db' = [db EXCEPT ![Asset(q)] = row]
  BY DEF CommitTokenize, ledger, logs, Goto
<1>3. row \in Row /\ row.status = "ACTIF" /\ row.owner = IssuerUser
  <2>1. rq[q] \in TokenizeRequest /\ gotTx[q] \in TxIds \cup {Empty}
    BY <1>1, <1>2, KindsOf DEF TypeOK
  <2>2. QED
    BY <2>1 DEF TokenizeRequest, Row
<1> HIDE DEF row
<1>4. /\ db'[Asset(q)] = row
      /\ \A a \in Assets : a # Asset(q) => db'[a] = db[a]
  BY <1>1, <1>2, <1>3, DbStep
<1>5. pc'[q] = "done"
  BY <1>1, <1>2 DEF TypeOK
<1>6. Active(q) /\ Alone(q, "done") /\ Pending(q)
  BY <1>2, <1>4 DEF Active, Alone, Pending, Ended
<1>7. StageOK(q)'
  BY <1>5, EndedStage
<1>8. PICK id \in Assets : id = Asset(q)
  BY <1>1
<1>9. AssetOK(id)'
  <2>1. world[id].status = "ACTIF" /\ world[id].currentOwner \in Clients
    BY <1>2, <1>6, <1>8 DEF InTurn, StageOK
  <2>2. db'[id] # NoRow
    BY <1>3, <1>4, <1>8, SagaAssumption
  <2>3. SameStatus(id)' /\ SameOwner(id)'
    BY <1>2, <1>3, <1>4, <1>8, <2>1 DEF SameStatus, SameOwner
  <2>4. QED
    BY <2>2, <2>3 DEF AssetOK
<1>10. QED
  BY <1>1, <1>6, <1>7, <1>8, <1>9, InTurnStep

(* The columns that matter to the agreement, when the session's copy of    *)
(* the row is still current.                                               *)
LEMMA CommittedColumns ==
  ASSUME BaseInv, NEW q \in Reqs, pc[q] = "commit", rq[q].kind # "tokenize",
         rq[q].kind # "valuate" => loaded[q] = db[Asset(q)]
  PROVE  /\ rq[q].kind = "valuate" =>
              /\ Committed(q).status = db[Asset(q)].status
              /\ Committed(q).owner = db[Asset(q)].owner
         /\ rq[q].kind = "transfer" =>
              /\ Committed(q).status = db[Asset(q)].status
              /\ Committed(q).owner = rq[q].to /\ rq[q].to \in Users
         /\ rq[q].kind \in {"freeze", "unfreeze"} =>
              /\ Committed(q).status = Target(rq[q].kind)
              /\ Committed(q).owner = db[Asset(q)].owner
<1>1. /\ TypeOK /\ RowHeld(q) /\ rq[q] \in Request /\ Asset(q) \in Assets
  BY BaseParts
<1>2. /\ rq[q].kind \in {"transfer", "freeze", "unfreeze", "valuate"}
      /\ db[Asset(q)] \in Row /\ loaded[q] \in Row
  BY CommittedRow
<1>3. CASE rq[q].kind = "valuate"
  <2>1. Committed(q) = [db[Asset(q)] EXCEPT !.value = rq[q].amount]
    BY <1>3 DEF Committed
  <2>2. QED
    BY <1>2, <1>3, <2>1 DEF Row
<1>4. CASE rq[q].kind # "valuate"
  <2>1. rq[q].kind = "transfer" => rq[q].to \in Users
    BY <1>1 DEF RowHeld
  <2>2. /\ NewRow(q) \in Row
        /\ rq[q].kind = "transfer" => /\ NewRow(q).owner = rq[q].to
                                      /\ NewRow(q).status = loaded[q].status
        /\ rq[q].kind \in {"freeze", "unfreeze"} =>
             /\ NewRow(q).owner = loaded[q].owner
             /\ NewRow(q).status = Target(rq[q].kind)
    BY <1>1, <1>2, <1>4, <2>1, NewRowFields DEF TypeOK
  <2>3. Committed(q) = Updated(loaded[q], db[Asset(q)], NewRow(q))
    BY <1>4 DEF Committed
  <2>4. /\ Committed(q).status = NewRow(q).status
        /\ Committed(q).owner = NewRow(q).owner
    BY <1>2, <1>4, <2>2, <2>3, UpdatedFields
  <2>5. QED
    BY <1>2, <1>4, <2>1, <2>2, <2>4
<1>5. QED
  BY <1>3, <1>4

LEMMA CommitUpdateInTurn ==
  ASSUME BaseInv, InTurn, NEW q \in Reqs, CommitUpdate(q)
  PROVE  InTurn'
<1>1. TypeOK /\ Asset(q) \in Assets
  BY BaseParts
<1>2. /\ rq' = rq /\ pc[q] = "commit" /\ rq[q].kind # "tokenize"
      /\ world' = world /\ stray' = stray /\ critical' = critical
      /\ pc' = [pc EXCEPT ![q] = "done"]
  BY DEF CommitUpdate, ledger, logs, Goto
<1>3. db' = [db EXCEPT ![Asset(q)] = Committed(q)]
  BY <1>1 DEF CommitUpdate, Committed, TypeOK
<1>4. /\ rq[q].kind \in {"transfer", "freeze", "unfreeze", "valuate"}
      /\ db[Asset(q)] \in Row /\ Committed(q) \in Row
  BY <1>2, CommittedRow
<1>5. /\ db'[Asset(q)] = Committed(q)
      /\ \A a \in Assets : a # Asset(q) => db'[a] = db[a]
  BY <1>1, <1>3, <1>4, DbStep
<1>6. pc'[q] = "done"
  BY <1>1, <1>2 DEF TypeOK
<1>7. /\ Active(q) /\ Alone(q, "done")
      /\ rq[q].kind # "valuate" => Pending(q)
  BY <1>2, <1>4, <1>5 DEF Active, Alone, Pending, Ended
<1>8. StageOK(q)'
  BY <1>6, EndedStage
<1>9. PICK id \in Assets : id = Asset(q)
  BY <1>1
<1>10. /\ rq[q].kind # "valuate" => loaded[q] = db[id]
       /\ rq[q].kind = "transfer" => world[id].currentOwner = rq[q].to
       /\ rq[q].kind \in {"freeze", "unfreeze"} =>
            world[id].status = Target(rq[q].kind)
  BY <1>2, <1>4, <1>7, <1>9 DEF InTurn, StageOK
<1>11. /\ rq[q].kind = "valuate" =>
            db'[id].status = db[id].status /\ db'[id].owner = db[id].owner
       /\ rq[q].kind = "transfer" =>
            /\ db'[id].status = db[id].status
            /\ db'[id].owner = rq[q].to /\ rq[q].to \in Users
       /\ rq[q].kind \in {"freeze", "unfreeze"} =>
            /\ db'[id].status = Target(rq[q].kind)
            /\ db'[id].owner = db[id].owner
  BY <1>2, <1>5, <1>9, <1>10, CommittedColumns
<1>12. AssetOK(id)'
  <2>1. /\ id \in Recorded /\ ~SameStatus(id) =>
             StatusExcused(id) \/ rq[q].kind \in {"freeze", "unfreeze"}
        /\ id \in Recorded /\ ~SameOwner(id) =>
             OwnerExcused(id) \/ rq[q].kind = "transfer"
    BY <1>7, OnlyExcuse
  <2>2. /\ StatusExcused(id) => StatusExcused(id)'
        /\ OwnerExcused(id) => OwnerExcused(id)'
    BY <1>1, <1>7, ExcusesKept
  <2>3. db[id] # NoRow /\ db'[id] # NoRow
    BY <1>4, <1>5, <1>9, SagaAssumption
  <2>4. IF rq[q].kind \in {"freeze", "unfreeze"} THEN SameStatus(id)'
        ELSE SameStatus(id)' <=> SameStatus(id)
    BY <1>2, <1>4, <1>10, <1>11 DEF SameStatus
  <2>5. IF rq[q].kind = "transfer" THEN SameOwner(id)'
        ELSE SameOwner(id)' <=> SameOwner(id)
    BY <1>2, <1>4, <1>10, <1>11, SagaAssumption DEF SameOwner
  <2>6. QED
    BY <1>2, <2>1, <2>2, <2>3, <2>4, <2>5 DEF AssetOK, Recorded
<1>13. QED
  BY <1>1, <1>7, <1>8, <1>9, <1>12, InTurnStep

LEMMA SubmitReturnsInTurn ==
  ASSUME BaseInv, InTurn, NEW q \in Reqs, NEW tx \in TxIds,
         SubmitReturns(q, tx)
  PROVE  InTurn'
<1>0. PICK p \in Payloads :
        pc' = [pc EXCEPT ![q] = IF p = "none" THEN "noPayload"
                 ELSE IF rq[q].kind = "transfer" THEN "commit" ELSE "load"]
  BY DEF SubmitReturns, Goto
<1> DEFINE c == Submitted(rq[q])
           l == IF p = "none" THEN "noPayload"
                ELSE IF rq[q].kind = "transfer" THEN "commit" ELSE "load"
<1>1. /\ TypeOK /\ NoPhantomRows /\ rq[q].kind \in Kinds /\ Asset(q) \in Assets
      /\ pc[q] \in StepsOf(rq[q].kind) /\ RowHeld(q) /\ rq[q] \in Request
  BY BaseParts
<1>2. /\ rq' = rq /\ db' = db /\ pc[q] = "submit" /\ loaded' = loaded
      /\ critical' = critical /\ Execute(tx, c)
      /\ pc' = [pc EXCEPT ![q] = l]
  BY <1>0 DEF SubmitReturns, dbvars, logs
<1>3. rq[q].kind \in {"tokenize", "transfer", "freeze", "unfreeze"}
  BY <1>1, <1>2 DEF StepsOf, Kinds
<1>4. PICK id \in Assets : id = Asset(q)
  BY <1>1
<1>5. /\ c \in SagaCall /\ c.asset = id
      /\ rq[q].kind = "tokenize" => /\ c.fn = "TokenizeAsset"
                                    /\ c.client \in Clients
      /\ rq[q].kind = "transfer" => c.fn = "TransferAsset" /\ c.to = rq[q].to
      /\ rq[q].kind = "freeze" => c.fn = "FreezeAsset"
      /\ rq[q].kind = "unfreeze" => c.fn = "UnfreezeAsset"
  BY <1>1, <1>3, <1>4, SubmittedCall DEF Asset
<1> HIDE DEF c
<1>6. /\ stray' = stray /\ world'[id] # NoAsset
      /\ Wrote(world[id], world'[id], tx, c)
      /\ \A a \in Assets : a # id => world'[a] = world[a]
  BY <1>1, <1>2, <1>5, ExecuteGrows
<1>7. /\ rq[q].kind = "tokenize" =>
           /\ world[id] = NoAsset /\ world'[id].status = "ACTIF"
           /\ world'[id].currentOwner \in Clients
      /\ rq[q].kind = "transfer" =>
           /\ world[id] # NoAsset /\ world'[id].status = world[id].status
           /\ world'[id].currentOwner = rq[q].to
      /\ rq[q].kind \in {"freeze", "unfreeze"} =>
           /\ world[id] # NoAsset /\ world[id].status = Former(rq[q].kind)
           /\ world'[id].status = Target(rq[q].kind)
           /\ world'[id].currentOwner = world[id].currentOwner
  BY <1>5, <1>6 DEF Wrote, Former, Target
<1>8. pc'[q] = l
  BY <1>1, <1>2 DEF TypeOK
<1>9. /\ Active(q) /\ Alone(q, l) /\ ~Pending(q)
      /\ Pending(q)' \/ pc'[q] = "noPayload"
  BY <1>2, <1>3, <1>4, <1>6, <1>8 DEF Active, Alone, Pending, Ended
<1>10. /\ world[id] # NoAsset /\ db[id] = NoRow => MissingExcused(id)
       /\ id \in Recorded /\ ~SameStatus(id) => StatusExcused(id)
       /\ id \in Recorded /\ ~SameOwner(id) => OwnerExcused(id)
  BY <1>9, OnlyExcuse
<1>11. /\ MissingExcused(id) => MissingExcused(id)'
       /\ StatusExcused(id) => StatusExcused(id)'
       /\ OwnerExcused(id) => OwnerExcused(id)'
  BY <1>1, <1>9, ExcusesKept
<1>12. rq[q].kind = "tokenize" => db[id] = NoRow
  BY <1>1, <1>7 DEF NoPhantomRows
<1>13. StageOK(q)'
  <2>1. rq[q].kind = "transfer" => loaded[q] = db[id]
    BY <1>2, <1>4 DEF InTurn, StageOK
  <2>2. rq[q].kind \in {"freeze", "unfreeze"} /\ db[id] # NoRow =>
          db[id].status = Former(rq[q].kind) \/ StatusExcused(id)'
    BY <1>7, <1>10, <1>11 DEF Recorded, SameStatus
  <2>3. Asset(q)' = id /\ StatusExcused(Asset(q))' = StatusExcused(id)'
    BY <1>2, <1>4 DEF Asset, StatusExcused
  <2>4. CASE pc'[q] = "noPayload"
    BY <2>4, EndedStage
  <2>5. CASE pc'[q] # "noPayload"
    <3>1. pc'[q] \in {"commit", "load"} /\ rq'[q] = rq[q] /\ loaded'[q] = loaded[q]
          /\ db'[id] = db[id] /\ (pc'[q] = "commit" => rq[q].kind = "transfer")
      BY <1>2, <1>8, <2>5
    <3>2. QED
      BY <1>3, <1>7, <1>12, <2>1, <2>2, <2>3, <3>1 DEF StageOK
  <2>6. QED
    BY <2>4, <2>5
<1>14. AssetOK(id)'
  <2>1. rq'[q] = rq[q] /\ rq[q].asset = id /\ db'[id] = db[id]
    BY <1>2, <1>4 DEF Asset
  <2> DEFINE Going(kinds) == \E x \in Reqs : /\ Pending(x)' /\ rq'[x].asset = id
                                            /\ rq'[x].kind \in kinds
  <2>2. /\ rq[q].kind = "tokenize" => MissingExcused(id)' \/ Going({"tokenize"})
        /\ rq[q].kind \in {"freeze", "unfreeze"} =>
             StatusExcused(id)' \/ Going({"freeze", "unfreeze"})
        /\ rq[q].kind = "transfer" => OwnerExcused(id)' \/ Going({"transfer"})
    <3>1. CASE Pending(q)'
      BY <2>1, <3>1
    <3>2. CASE pc'[q] = "noPayload"
      BY <2>1, <3>2 DEF MissingExcused, StatusExcused, OwnerExcused, Excuse
    <3>3. QED
      BY <1>9, <3>1, <3>2
  <2> HIDE DEF Going
  <2>3. world'[id] # NoAsset /\ db'[id] = NoRow =>
          MissingExcused(id)' \/ Going({"tokenize"})
    BY <1>3, <1>7, <1>10, <1>11, <2>1, <2>2
  <2>4. id \in Recorded' /\ ~SameStatus(id)' =>
          StatusExcused(id)' \/ Going({"freeze", "unfreeze"})
    BY <1>3, <1>7, <1>10, <1>11, <1>12, <2>1, <2>2 DEF Recorded, SameStatus
  <2>5. id \in Recorded' /\ ~SameOwner(id)' =>
          OwnerExcused(id)' \/ Going({"transfer"})
    BY <1>3, <1>7, <1>10, <1>11, <1>12, <2>1, <2>2 DEF Recorded, SameOwner
  <2>6. QED
    BY <2>3, <2>4, <2>5 DEF AssetOK, Going
<1> HIDE DEF l
<1>15. QED
  BY <1>1, <1>4, <1>9, <1>13, <1>14, InTurnStep

(* Only the compensation of a freeze is ever accepted.                     *)
LEMMA CompensateInTurn ==
  ASSUME BaseInv, InTurn, NEW q \in Reqs, NEW tx \in TxIds, Compensate(q, tx)
  PROVE  InTurn'
<1> DEFINE c == Compensation(rq[q])
<1>1. /\ TypeOK /\ rq[q].kind \in Kinds /\ Asset(q) \in Assets
      /\ pc[q] \in StepsOf(rq[q].kind) /\ rq[q] \in Request
  BY BaseParts
<1>2. /\ rq' = rq /\ db' = db /\ pc[q] = "compensate" /\ critical' = critical
      /\ Execute(tx, c) /\ pc' = [pc EXCEPT ![q] = "failed"]
  BY DEF Compensate, dbvars, logs, Goto
<1>3. rq[q].kind \in {"transfer", "freeze", "unfreeze"}
  BY <1>1, <1>2 DEF StepsOf, Kinds
<1>4. PICK id \in Assets : id = Asset(q)
  BY <1>1
<1>5. /\ c \in SagaCall /\ c.asset = id
      /\ rq[q].kind = "transfer" => c.fn = "TransferAsset" /\ c.amount = 0
      /\ rq[q].kind = "freeze" => c.fn = "UnfreezeAsset"
      /\ rq[q].kind = "unfreeze" => c.fn = "FreezeAsset" /\ c.ref \notin ValidRefs
  BY <1>1, <1>3, <1>4, CompensationCall DEF Asset
<1> HIDE DEF c
<1>6. rq[q].kind = "freeze" /\ c.fn = "UnfreezeAsset"
  BY <1>2, <1>3, <1>5, AcceptedIsCall DEF Execute
<1>7. /\ stray' = stray /\ world'[id] # NoAsset
      /\ Wrote(world[id], world'[id], tx, c)
      /\ \A a \in Assets : a # id => world'[a] = world[a]
  BY <1>1, <1>2, <1>5, ExecuteGrows
<1>8. /\ world[id] # NoAsset /\ world'[id].status = "ACTIF"
      /\ world'[id].currentOwner = world[id].currentOwner
  BY <1>6, <1>7 DEF Wrote
<1>9. pc'[q] = "failed"
  BY <1>1, <1>2 DEF TypeOK
<1>10. Active(q) /\ Alone(q, "failed") /\ Pending(q)
  BY <1>2, <1>4, <1>6, <1>7 DEF Active, Alone, Pending, Ended
<1>11. StageOK(q)'
  BY <1>9, EndedStage
<1>12. AssetOK(id)'
  <2>1. /\ world[id] # NoAsset /\ db[id] = NoRow => MissingExcused(id)
        /\ id \in Recorded /\ ~SameOwner(id) => OwnerExcused(id)
    BY <1>6, <1>10, OnlyExcuse
  <2>2. db[id] # NoRow => db[id].status = "ACTIF" \/ StatusExcused(id)
    BY <1>4, <1>6, <1>10 DEF InTurn, StageOK, Former
  <2>3. /\ MissingExcused(id) => MissingExcused(id)'
        /\ StatusExcused(id) => StatusExcused(id)'
        /\ OwnerExcused(id) => OwnerExcused(id)'
    BY <1>1, <1>10, ExcusesKept
  <2>4. db'[id] = db[id]
    BY <1>2
  <2>5. id \in Recorded' => id \in Recorded
    BY <1>8, <2>4 DEF Recorded
  <2>6. SameOwner(id)' <=> SameOwner(id)
    BY <1>8, <2>4 DEF SameOwner
  <2>7. id \in Recorded' => SameStatus(id)' \/ StatusExcused(id)'
    BY <1>8, <2>2, <2>3, <2>4 DEF SameStatus, Recorded
  <2>8. QED
    BY <1>8, <2>1, <2>3, <2>4, <2>5, <2>6, <2>7 DEF AssetOK
<1>13. QED
  BY <1>1, <1>4, <1>10, <1>11, <1>12, InTurnStep

LEMMA InTurnNext ==
  ASSUME BaseInv, [Next]_vars, ~disturbed', ~disturbed => InTurn
  PROVE  InTurn'
<1>1. CASE UNCHANGED vars
  <2>1. /\ world' = world /\ stray' = stray /\ db' = db
        /\ pc' = pc /\ rq' = rq /\ loaded' = loaded
        /\ critical' = critical /\ disturbed' = disturbed
    BY <1>1 DEF vars, ledger, dbvars, logs
  <2>2. InTurn
    BY <2>1
  <2>3. \A q \in Reqs : /\ Pending(q)' = Pending(q) /\ Active(q)' = Active(q)
                        /\ Asset(q)' = Asset(q)
    BY <2>1 DEF Pending, Active, Asset, Ended
  <2>4. \A id : /\ MissingExcused(id)' = MissingExcused(id)
                /\ StatusExcused(id)' = StatusExcused(id)
                /\ OwnerExcused(id)' = OwnerExcused(id)
                /\ SameStatus(id)' = SameStatus(id)
                /\ SameOwner(id)' = SameOwner(id)
    BY <2>1 DEF MissingExcused, StatusExcused, OwnerExcused, Excuse, SameStatus, SameOwner
  <2>5. \A q \in Reqs : StageOK(q)'
    BY <2>1, <2>2, <2>3, <2>4 DEF InTurn, StageOK, StatusExcused
  <2>6. \A id \in Assets : AssetOK(id)'
    BY <2>1, <2>2, <2>3, <2>4 DEF InTurn, AssetOK, Recorded
  <2>7. QED
    BY <2>1, <2>2, <2>3, <2>5, <2>6 DEF InTurn
<1>2. ASSUME NEW q \in Reqs, Start(q) PROVE InTurn'
  BY <1>2, StartInTurn DEF Start
<1>3. ASSUME NEW q \in Reqs, Load(q) \/ Check(q) PROVE InTurn'
  BY <1>3, LoadInTurn, CheckInTurn DEF Load, Check, logs
<1>4. ASSUME NEW q \in Reqs, NEW tx \in TxIds, SubmitReturns(q, tx)
      PROVE  InTurn'
  BY <1>4, SubmitReturnsInTurn DEF SubmitReturns, logs
<1>5. ASSUME NEW q \in Reqs, NEW tx \in TxIds, Compensate(q, tx)
      PROVE  InTurn'
  BY <1>5, CompensateInTurn DEF Compensate, logs
<1>6. ASSUME NEW q \in Reqs, AttemptStrays(q) PROVE InTurn'
  BY <1>6 DEF AttemptStrays
<1>7. ASSUME NEW q \in Reqs, SubmitFails(q) \/ CommitFails(q) \/ CompensationFails(q)
      PROVE  InTurn'
  BY <1>7, SubmitFailsInTurn, CommitFailsInTurn, CompensationFailsInTurn
  DEF SubmitFails, CommitFails, CompensationFails, logs
<1>8. ASSUME NEW q \in Reqs, CommitTokenize(q) \/ CommitUpdate(q)
      PROVE  InTurn'
  BY <1>8, CommitTokenizeInTurn, CommitUpdateInTurn
  DEF CommitTokenize, CommitUpdate, logs
<1>9. ASSUME NEW q \in Reqs, SyncRead(q) \/ SyncSelect(q) \/ SyncUpdate(q)
      PROVE  InTurn'
  BY <1>9, SyncReadInTurn, SyncSelectInTurn, SyncUpdateInTurn
  DEF SyncRead, SyncSelect, SyncUpdate, logs
<1>10. ASSUME NEW tx \in TxIds, LateCommit(tx) PROVE InTurn'
  BY <1>10 DEF LateCommit, InTurn, logs
<1>11. QED
  BY <1>1, <1>2, <1>3, <1>4, <1>5, <1>6, <1>7, <1>8, <1>9, <1>10 DEF Next

LEMMA InTurnInit ==
  ASSUME Init
  PROVE  InTurn
<1>1. \A q \in Reqs : pc[q] = "idle"
  BY DEF Init
<1>2. \A q \in Reqs : StageOK(q) /\ ~Active(q)
  BY <1>1 DEF StageOK, Active, Pending, Ended
<1>3. \A id \in Assets : AssetOK(id)
  BY DEF Init, AssetOK, Recorded
<1>4. QED
  BY <1>2, <1>3 DEF Init, InTurn

(* The saga keeps what it can: when requests run one after the other and   *)
(* no attempt goes astray, a difference between PostgreSQL and the ledger  *)
(* that is left once they have ended was logged as a failed compensation,  *)
(* or comes from a failed tokenisation, or from a submission that          *)
(* committed without a payload and ended in an unlogged ValueError.        *)
THEOREM DivergenceExplained == Spec => []DivergenceIsExplained
<1>1. Init => IInv
  BY BaseInit, InTurnInit DEF IInv
<1>2. IInv /\ [Next]_vars => IInv'
  BY BaseNext, InTurnNext DEF IInv
<1>3. IInv => DivergenceIsExplained
  <2>1. SUFFICES ASSUME InTurn, Quiet PROVE DivergenceIsExplained
    BY DEF IInv, DivergenceIsExplained
  <2>2. \A q \in Reqs : ~Pending(q)
    BY <2>1 DEF Quiet, Pending, Ended
  <2>3. \A id \in Assets : AssetOK(id)
    BY <2>1 DEF InTurn
  <2>4. \A id \in Recorded : id \in Assets
    BY DEF Recorded
  <2>5. QED
    BY <2>2, <2>3, <2>4
    DEF AssetOK, DivergenceIsExplained, MissingExcused, StatusExcused, OwnerExcused, Excuse
<1>4. QED
  BY <1>1, <1>2, <1>3, PTL DEF Spec
=============================================================================
