--------------------------- MODULE ChaincodeProofs ---------------------------
(***************************************************************************)
(* Facts about the handlers as operators, for every value of the           *)
(* constants: what a handler writes is well typed, which fields it         *)
(* changes, and that it reads and writes the record of one asset only.     *)
(* AssetContractProofs, FabricLedgerProofs and AssetSagaProofs rest on     *)
(* them.                                                                   *)
(***************************************************************************)
EXTENDS Chaincode, TLAPS

USE DEF ActionName

(* The record a handler appends is well typed.                             *)
LEMMA RecordType ==
  ASSUME NEW tx \in TxIds, NEW c, c.client \in Clients, c.text \in Texts,
         NEW action \in ActionName,
         NEW from \in Owners \cup Clients \cup {Empty},
         NEW to \in Owners \cup Clients \cup {Empty},
         NEW amount \in Amounts \cup {0}
  PROVE  Record(tx, c, action, from, to, amount) \in ProvenanceRecord
BY ClientAssumption DEF Record, ProvenanceRecord

LEMMA TokenizeType ==
  ASSUME NEW tx \in TxIds, NEW c \in TokenizeCall
  PROVE  TokenizeWrite(tx, c) \in FinancialAsset
<1>1. Record(tx, c, "TOKENISE", Empty, c.client, c.amount) \in ProvenanceRecord
  BY RecordType DEF TokenizeCall
<1>2. QED
  BY <1>1, ClientAssumption DEF TokenizeWrite, TokenizeCall, FinancialAsset

LEMMA TransferType ==
  ASSUME NEW tx \in TxIds, NEW c \in TransferCall, NEW a \in FinancialAsset
  PROVE  TransferWrite(a, tx, c) \in FinancialAsset
<1> DEFINE r == Record(tx, c, "TRANSFERE", a.currentOwner, c.to, c.amount)
           q == Append(a.provenance, r)
           n == a.totalTransfers + 1
<1>1. r \in ProvenanceRecord
  BY RecordType DEF TransferCall, FinancialAsset
<1>2. q \in Seq(ProvenanceRecord) /\ n \in Nat
  BY <1>1 DEF FinancialAsset
<1>3. TransferWrite(a, tx, c) =
        [a EXCEPT !.currentOwner = c.to, !.currentValue = c.amount,
                  !.totalTransfers = n, !.provenance = q]
  BY DEF TransferWrite
<1> HIDE DEF q, n
<1>4. QED
  BY <1>2, <1>3 DEF TransferCall, FinancialAsset

LEMMA FreezeType ==
  ASSUME NEW tx \in TxIds, NEW c \in FreezeCall, NEW a \in FinancialAsset,
         c.ref \in ValidRefs
  PROVE  FreezeWrite(a, tx, c) \in FinancialAsset
<1> DEFINE r == Record(tx, c, "GELE", Empty, Empty, 0)
           q == Append(a.provenance, r)
<1>1. r \in ProvenanceRecord
  BY RecordType DEF FreezeCall
<1>2. q \in Seq(ProvenanceRecord)
  BY <1>1 DEF FinancialAsset
<1>3. FreezeWrite(a, tx, c) =
        [a EXCEPT !.status = "GELE", !.frozenBy = c.client, !.frozenAt = tx,
                  !.frozenReason = c.text, !.regulatoryRef = c.ref,
                  !.provenance = q]
  BY DEF FreezeWrite
<1> HIDE DEF q
<1>4. QED
  BY <1>2, <1>3 DEF FreezeCall, FinancialAsset

LEMMA UnfreezeType ==
  ASSUME NEW tx \in TxIds, NEW c \in UnfreezeCall, NEW a \in FinancialAsset
  PROVE  UnfreezeWrite(a, tx, c) \in FinancialAsset
<1> DEFINE r == Record(tx, c, "DEGELE", Empty, Empty, 0)
           q == Append(a.provenance, r)
<1>1. r \in ProvenanceRecord
  BY RecordType DEF UnfreezeCall
<1>2. q \in Seq(ProvenanceRecord)
  BY <1>1 DEF FinancialAsset
<1>3. UnfreezeWrite(a, tx, c) =
        [a EXCEPT !.status = "ACTIF", !.frozenBy = Empty, !.frozenAt = Empty,
                  !.frozenReason = Empty, !.regulatoryRef = Empty,
                  !.provenance = q]
  BY DEF UnfreezeWrite
<1> HIDE DEF q
<1>4. QED
  BY <1>2, <1>3 DEF UnfreezeCall, FinancialAsset

-----------------------------------------------------------------------------
(* Trail q is trail p with the record r appended.                          *)
Extended(p, q, r) ==
  /\ Len(p) \in Nat
  /\ Len(q) = Len(p) + 1
  /\ \A i \in 1..Len(p) : q[i] = p[i]
  /\ q[Len(p) + 1] = r

LEMMA AppendExtends ==
  ASSUME NEW S, NEW p \in Seq(S), NEW r \in S
  PROVE  Extended(p, Append(p, r), r)
BY DEF Extended

(* The fields of the record each handler writes, in the form the trail     *)
(* lemmas use.                                                             *)
LEMMA TokenizeFields ==
  ASSUME NEW tx \in TxIds, NEW c \in TokenizeCall
  PROVE  LET b == TokenizeWrite(tx, c)
             r == Record(tx, c, "TOKENISE", Empty, c.client, c.amount)
         IN  /\ b.provenance = <<r>> /\ b.totalTransfers = 0
             /\ b.issuerMSP = MspOf[c.client]
             /\ b.currentOwner = r.toOwner /\ b.currentValue = r.amount
             /\ b.status = "ACTIF" /\ b.frozenBy = Empty
             /\ b.frozenAt = Empty /\ b.frozenReason = Empty
             /\ b.regulatoryRef = Empty
BY DEF TokenizeWrite, Record

LEMMA TransferFields ==
  ASSUME NEW tx \in TxIds, NEW c \in TransferCall, NEW a \in FinancialAsset
  PROVE  LET b == TransferWrite(a, tx, c)
             r == Record(tx, c, "TRANSFERE", a.currentOwner, c.to, c.amount)
         IN  /\ b.provenance = Append(a.provenance, r)
             /\ Extended(a.provenance, b.provenance, r)
             /\ b.totalTransfers = a.totalTransfers + 1
             /\ b.issuerMSP = a.issuerMSP /\ b.nominalValue = a.nominalValue
             /\ b.currentOwner = r.toOwner /\ b.currentValue = r.amount
             /\ b.status = a.status /\ b.frozenBy = a.frozenBy
             /\ b.frozenAt = a.frozenAt /\ b.frozenReason = a.frozenReason
             /\ b.regulatoryRef = a.regulatoryRef
<1> DEFINE r == Record(tx, c, "TRANSFERE", a.currentOwner, c.to, c.amount)
<1>1. r \in ProvenanceRecord
  BY RecordType DEF TransferCall, FinancialAsset
<1>2. Extended(a.provenance, Append(a.provenance, r), r)
  BY <1>1, AppendExtends DEF FinancialAsset
<1>3. r.toOwner = c.to /\ r.amount = c.amount
  BY DEF Record
<1> HIDE DEF r
<1>4. QED
  BY <1>2, <1>3 DEF TransferWrite, FinancialAsset, r

LEMMA FreezeFields ==
  ASSUME NEW tx \in TxIds, NEW c \in FreezeCall, NEW a \in FinancialAsset
  PROVE  LET b == FreezeWrite(a, tx, c)
             r == Record(tx, c, "GELE", Empty, Empty, 0)
         IN  /\ Extended(a.provenance, b.provenance, r)
             /\ b.totalTransfers = a.totalTransfers
             /\ b.issuerMSP = a.issuerMSP /\ b.nominalValue = a.nominalValue
             /\ b.currentOwner = a.currentOwner
             /\ b.currentValue = a.currentValue
             /\ b.status = "GELE" /\ b.frozenBy = r.actorDN
             /\ b.frozenAt = r.txID /\ b.frozenReason = r.justification
             /\ b.regulatoryRef = c.ref
<1> DEFINE r == Record(tx, c, "GELE", Empty, Empty, 0)
<1>1. r \in ProvenanceRecord
  BY RecordType DEF FreezeCall
<1>2. Extended(a.provenance, Append(a.provenance, r), r)
  BY <1>1, AppendExtends DEF FinancialAsset
<1>3. r.actorDN = c.client /\ r.txID = tx /\ r.justification = c.text
  BY DEF Record
<1> HIDE DEF r
<1>4. QED
  BY <1>2, <1>3 DEF FreezeWrite, FinancialAsset, r

LEMMA UnfreezeFields ==
  ASSUME NEW tx \in TxIds, NEW c \in UnfreezeCall, NEW a \in FinancialAsset
  PROVE  LET b == UnfreezeWrite(a, tx, c)
             r == Record(tx, c, "DEGELE", Empty, Empty, 0)
         IN  /\ Extended(a.provenance, b.provenance, r)
             /\ b.totalTransfers = a.totalTransfers
             /\ b.issuerMSP = a.issuerMSP /\ b.nominalValue = a.nominalValue
             /\ b.currentOwner = a.currentOwner
             /\ b.currentValue = a.currentValue
             /\ b.status = "ACTIF" /\ b.frozenBy = Empty
             /\ b.frozenAt = Empty /\ b.frozenReason = Empty
             /\ b.regulatoryRef = Empty
<1> DEFINE r == Record(tx, c, "DEGELE", Empty, Empty, 0)
<1>1. r \in ProvenanceRecord
  BY RecordType DEF UnfreezeCall
<1>2. Extended(a.provenance, Append(a.provenance, r), r)
  BY <1>1, AppendExtends DEF FinancialAsset
<1> HIDE DEF r
<1>3. QED
  BY <1>2 DEF UnfreezeWrite, FinancialAsset, r

(* The MSP written into a record is the one verifyRole accepted.           *)
LEMMA Roles ==
  ASSUME NEW c, NEW tx, NEW action, NEW from, NEW to, NEW amount
  PROVE  LET r == Record(tx, c, action, from, to, amount) IN
         /\ r.action = action /\ r.fromOwner = from /\ r.toOwner = to
         /\ r.amount = amount /\ r.txID = tx /\ r.actorMSP = MspOf[c.client]
BY DEF Record

-----------------------------------------------------------------------------
(* What a call that returned no error was: the handler's guard.            *)
LEMMA Accepted ==
  ASSUME NEW w, NEW c \in Call, Answer(w, c) = "ok"
  PROVE  /\ c.asset \in Assets /\ verifyRole(c.client, c.fn)
         /\ \/ c \in TokenizeCall /\ w[c.asset] = NoAsset
            \/ /\ c \in TransferCall /\ w[c.asset] # NoAsset
               /\ RequireActiveAsset(w[c.asset])
            \/ /\ c \in FreezeCall /\ w[c.asset] # NoAsset
               /\ c.ref \in ValidRefs /\ w[c.asset].status # "GELE"
            \/ /\ c \in UnfreezeCall /\ w[c.asset] # NoAsset
               /\ RequireFrozenAsset(w[c.asset])
<1>1. CASE c \in TokenizeCall
  BY <1>1 DEF Answer, TokenizeAnswer, TokenizeCall, assetExists
<1>2. CASE c \in TransferCall
  BY <1>2 DEF Answer, TransferAnswer, TransferCall, assetExists
<1>3. CASE c \in FreezeCall
  BY <1>3 DEF Answer, FreezeAnswer, FreezeCall, assetExists
<1>4. CASE c \in UnfreezeCall
  BY <1>4 DEF Answer, UnfreezeAnswer, UnfreezeCall, assetExists
<1>5. QED
  BY <1>1, <1>2, <1>3, <1>4 DEF Call

LEMMA EventType ==
  ASSUME NEW c \in Call
  PROVE  Event(c) \in EventNames
<1>1. c.fn \in {"TokenizeAsset", "TransferAsset", "FreezeAsset",
                "UnfreezeAsset"}
  BY DEF Call, TokenizeCall, TransferCall, FreezeCall, UnfreezeCall
<1>2. SetEvents(c) \in {<<"AssetCreated">>, <<"AssetTransferred">>,
        <<"AssetFrozen">>, <<"AssetUnfrozen">>,
        <<"MiCAThresholdExceeded", "AssetTransferred">>}
  BY <1>1 DEF SetEvents
<1>3. QED
  BY <1>2, SMTT(40) DEF Event, EventNames

-----------------------------------------------------------------------------
(* A handler looks at the record of its own asset and at no other.         *)
LEMMA HandlerIsLocal ==
  ASSUME NEW v, NEW w, NEW tx, NEW c, v[c.asset] = w[c.asset]
  PROVE  Answer(v, c) = Answer(w, c) /\ Write(v, tx, c) = Write(w, tx, c)
BY DEF Answer, TokenizeAnswer, TransferAnswer, FreezeAnswer, UnfreezeAnswer,
       assetExists, Write

(* An accepted call writes a well-typed record, with one more entry in its *)
(* trail than the record it read.                                          *)
LEMMA WriteType ==
  ASSUME NEW w \in [Assets -> FinancialAsset \cup {NoAsset}],
         NEW tx \in TxIds, NEW c \in Call, Answer(w, c) = "ok"
  PROVE  /\ Write(w, tx, c) \in FinancialAsset
         /\ Len(Write(w, tx, c).provenance) =
              IF w[c.asset] = NoAsset THEN 1
              ELSE Len(w[c.asset].provenance) + 1
<1>1. c.asset \in Assets
  BY Accepted
<1>2. CASE c \in TokenizeCall /\ w[c.asset] = NoAsset
  <2>1. Write(w, tx, c) = TokenizeWrite(tx, c)
    BY <1>2 DEF Write, TokenizeCall
  <2>2. TokenizeWrite(tx, c) \in FinancialAsset
    BY <1>2, TokenizeType
  <2>3. Len(TokenizeWrite(tx, c).provenance) = 1
    <3> DEFINE r == Record(tx, c, "TOKENISE", Empty, c.client, c.amount)
    <3>1. TokenizeWrite(tx, c).provenance = <<r>>
      BY <1>2, TokenizeFields
    <3> HIDE DEF r
    <3>2. QED
      BY <3>1
  <2>4. QED
    BY <1>2, <2>1, <2>2, <2>3
<1>3. CASE c \in TransferCall /\ w[c.asset] # NoAsset
  <2>1. Write(w, tx, c) = TransferWrite(w[c.asset], tx, c)
    BY <1>3 DEF Write, TransferCall
  <2>2. QED
    BY <1>1, <1>3, <2>1, TransferType, TransferFields DEF Extended
<1>4. CASE c \in FreezeCall /\ w[c.asset] # NoAsset /\ c.ref \in ValidRefs
  <2>1. Write(w, tx, c) = FreezeWrite(w[c.asset], tx, c)
    BY <1>4 DEF Write, FreezeCall
  <2>2. QED
    BY <1>1, <1>4, <2>1, FreezeType, FreezeFields DEF Extended
<1>5. CASE c \in UnfreezeCall /\ w[c.asset] # NoAsset
  <2>1. Write(w, tx, c) = UnfreezeWrite(w[c.asset], tx, c)
    BY <1>5 DEF Write, UnfreezeCall
  <2>2. QED
    BY <1>1, <1>5, <2>1, UnfreezeType, UnfreezeFields DEF Extended
<1>6. QED
  BY <1>2, <1>3, <1>4, <1>5, Accepted
=============================================================================
