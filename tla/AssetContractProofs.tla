------------------------- MODULE AssetContractProofs -------------------------
(***************************************************************************)
(* Proofs about AssetContract, for every set of assets, clients, amounts,  *)
(* references and transaction identifiers.                                 *)
(*                                                                         *)
(* The argument is one lemma per handler: the record it writes is well     *)
(* typed and keeps the two trail predicates, given that the record it read *)
(* had them.  The invariants of the specification follow because a step    *)
(* replaces exactly one record of the world state.  The report tasks of    *)
(* AuditReport only read it: a trail read earlier is a prefix of every     *)
(* trail read later.                                                       *)
(***************************************************************************)
EXTENDS AuditReport, ChaincodeProofs, FiniteSetTheorems, TLAPS

-----------------------------------------------------------------------------
(* Appending a transfer from the current owner keeps the chain of custody: *)
(* whichever ownership record precedes the new one was the last of the old *)
(* trail, and the old asset agreed with it.                                *)
LEMMA CustodyAppendTransfer ==
  ASSUME NEW a, NEW b, NEW r, CustodyOf(a),
         Extended(a.provenance, b.provenance, r),
         r.action = "TRANSFERE", r.fromOwner = a.currentOwner,
         b.currentOwner = r.toOwner, b.currentValue = r.amount
  PROVE  CustodyOf(b)
<1> DEFINE p == a.provenance
           q == b.provenance
           n == Len(p)
<1>1. n \in Nat /\ n > 0 /\ Len(q) = n + 1 /\ q[n + 1] = r
      /\ \A i \in 1..n : q[i] = p[i]
  BY DEF Extended, CustodyOf
<1>2. p[1].action = "TOKENISE" /\ \A i \in 2..n : p[i].action # "TOKENISE"
  BY DEF CustodyOf
<1>3. \A i, j \in 1..n :
        (/\ i < j /\ Ownership(p[i]) /\ Ownership(p[j])
         /\ \A k \in 1..n : i < k /\ k < j => ~Ownership(p[k]))
        => p[j].fromOwner = p[i].toOwner
  BY DEF CustodyOf
<1>4. \A i \in 1..n : LastOwnership(p, i) => a.currentOwner = p[i].toOwner
  BY DEF CustodyOf
<1> HIDE DEF p, q, n
<1>5. q[1].action = "TOKENISE" /\ \A i \in 2..(n+1) : q[i].action # "TOKENISE"
  BY <1>1, <1>2
<1>6. ASSUME NEW i \in 1..(n+1), NEW j \in 1..(n+1),
             i < j, Ownership(q[i]), Ownership(q[j]),
             \A k \in 1..(n+1) : i < k /\ k < j => ~Ownership(q[k])
      PROVE  q[j].fromOwner = q[i].toOwner
  <2>1. CASE j \in 1..n
    BY <1>1, <1>3, <1>6, <2>1
  <2>2. CASE j = n + 1
    <3>1. i \in 1..n /\ Ownership(p[i])
      BY <1>1, <1>6, <2>2
    <3>2. LastOwnership(p, i)
      BY <1>1, <1>6, <2>2, <3>1 DEF LastOwnership, n
    <3>3. QED
      BY <1>1, <1>4, <2>2, <3>1, <3>2
  <2>3. QED
    BY <1>1, <2>1, <2>2
<1>7. ASSUME NEW i \in 1..(n+1), LastOwnership(q, i)
      PROVE  i = n + 1
  BY <1>1, <1>7 DEF LastOwnership, Ownership
<1>8. QED
  BY <1>1, <1>5, <1>6, <1>7 DEF CustodyOf, q

(* Appending a freeze or unfreeze record keeps it too: the ownership       *)
(* records are those of the old trail.                                     *)
LEMMA CustodyAppendFreezing ==
  ASSUME NEW a, NEW b, NEW r, CustodyOf(a),
         Extended(a.provenance, b.provenance, r),
         r.action \in {"GELE", "DEGELE"},
         b.currentOwner = a.currentOwner, b.currentValue = a.currentValue
  PROVE  CustodyOf(b)
<1> DEFINE p == a.provenance
           q == b.provenance
           n == Len(p)
<1>1. n \in Nat /\ n > 0 /\ Len(q) = n + 1 /\ ~Ownership(q[n + 1])
      /\ q[n + 1].action # "TOKENISE" /\ \A i \in 1..n : q[i] = p[i]
  BY DEF Extended, CustodyOf, Ownership
<1>2. p[1].action = "TOKENISE" /\ \A i \in 2..n : p[i].action # "TOKENISE"
  BY DEF CustodyOf
<1>3. \A i, j \in 1..n :
        (/\ i < j /\ Ownership(p[i]) /\ Ownership(p[j])
         /\ \A k \in 1..n : i < k /\ k < j => ~Ownership(p[k]))
        => p[j].fromOwner = p[i].toOwner
  BY DEF CustodyOf
<1>4. \A i \in 1..n : LastOwnership(p, i) =>
        a.currentOwner = p[i].toOwner /\ a.currentValue = p[i].amount
  BY DEF CustodyOf
<1> HIDE DEF p, q, n
<1>5. q[1].action = "TOKENISE" /\ \A i \in 2..(n+1) : q[i].action # "TOKENISE"
  BY <1>1, <1>2
<1>6. ASSUME NEW i \in 1..(n+1), NEW j \in 1..(n+1),
             i < j, Ownership(q[i]), Ownership(q[j]),
             \A k \in 1..(n+1) : i < k /\ k < j => ~Ownership(q[k])
      PROVE  q[j].fromOwner = q[i].toOwner
  <2>1. i \in 1..n /\ j \in 1..n
    BY <1>1, <1>6
  <2>2. QED
    BY <1>1, <1>3, <1>6, <2>1
<1>7. ASSUME NEW i \in 1..(n+1), LastOwnership(q, i)
      PROVE  i \in 1..n /\ LastOwnership(p, i)
  BY <1>1, <1>7 DEF LastOwnership, n
<1>8. QED
  BY <1>1, <1>4, <1>5, <1>6, <1>7 DEF CustodyOf, q

-----------------------------------------------------------------------------
(* Freeze discipline, handler by handler.  Alternation needs to know which *)
(* record was the last freeze, and the status of the old asset says it.    *)
LEMMA TransferKeepsDiscipline ==
  ASSUME NEW a, NEW b, NEW r, FreezeDisciplineOf(a),
         Extended(a.provenance, b.provenance, r),
         r.action = "TRANSFERE", a.status = "ACTIF", b.status = a.status,
         b.frozenBy = a.frozenBy, b.frozenAt = a.frozenAt,
         b.frozenReason = a.frozenReason, b.regulatoryRef = a.regulatoryRef
  PROVE  FreezeDisciplineOf(b)
<1> DEFINE p == a.provenance
           q == b.provenance
           n == Len(p)
<1>1. n \in Nat /\ Len(q) = n + 1 /\ q[n + 1] = r
      /\ \A i \in 1..n : q[i] = p[i]
  BY DEF Extended
<1>2. \A i, j \in 1..n :
        (/\ i < j /\ Freezing(p[j]) /\ Freezing(p[i])
         /\ \A k \in 1..n : i < k /\ k < j => ~Freezing(p[k]))
        => p[i].action # p[j].action
  BY DEF FreezeDisciplineOf
<1>3. \A i, j \in 1..n :
        (/\ i < j /\ p[i].action = "GELE" /\ p[j].action = "TRANSFERE")
        => \E k \in 1..n : i < k /\ k < j /\ p[k].action = "DEGELE"
  BY DEF FreezeDisciplineOf
<1>4. /\ a.frozenBy = Empty /\ a.frozenAt = Empty
      /\ a.frozenReason = Empty /\ a.regulatoryRef = Empty
  BY DEF FreezeDisciplineOf
<1>5. \/ \A i \in 1..n : ~Freezing(p[i])
      \/ \E i \in 1..n : LastFreezing(p, i) /\ p[i].action = "DEGELE"
  BY DEF FreezeDisciplineOf
<1> HIDE DEF p, q, n
<1>6. ~Freezing(q[n + 1])
  BY <1>1 DEF Freezing
<1>7. ASSUME NEW i \in 1..(n+1), NEW j \in 1..(n+1),
             i < j, Freezing(q[i]), Freezing(q[j]),
             \A k \in 1..(n+1) : i < k /\ k < j => ~Freezing(q[k])
      PROVE  q[i].action # q[j].action
  <2>1. i \in 1..n /\ j \in 1..n
    BY <1>1, <1>6, <1>7
  <2>2. QED
    BY <1>1, <1>2, <1>7, <2>1
<1>8. ASSUME NEW i \in 1..(n+1), NEW j \in 1..(n+1),
             i < j, q[i].action = "GELE", q[j].action = "TRANSFERE"
      PROVE  \E k \in 1..(n+1) : i < k /\ k < j /\ q[k].action = "DEGELE"
  <2>0. i \in 1..n
    BY <1>1, <1>8
  <2>1. CASE j \in 1..n
    <3>1. PICK k \in 1..n : i < k /\ k < j /\ p[k].action = "DEGELE"
      BY <1>1, <1>3, <1>8, <2>0, <2>1
    <3>2. QED
      BY <1>1, <3>1
  <2>2. CASE j = n + 1
    <3>1. Freezing(p[i]) /\ p[i].action = "GELE"
      BY <1>1, <1>8, <2>0 DEF Freezing
    <3>2. PICK k \in 1..n : LastFreezing(p, k) /\ p[k].action = "DEGELE"
      BY <1>5, <2>0, <3>1
    <3>3. i <= k /\ i # k
      BY <2>0, <3>1, <3>2 DEF LastFreezing, n
    <3>4. QED
      BY <1>1, <2>0, <2>2, <3>2, <3>3
  <2>3. QED
    BY <1>1, <2>1, <2>2
<1>9. \/ \A i \in 1..(n+1) : ~Freezing(q[i])
      \/ \E i \in 1..(n+1) : LastFreezing(q, i) /\ q[i].action = "DEGELE"
  <2>1. CASE \A i \in 1..n : ~Freezing(p[i])
    BY <1>1, <1>6, <2>1
  <2>2. ASSUME NEW i \in 1..n, LastFreezing(p, i), p[i].action = "DEGELE"
        PROVE  LastFreezing(q, i) /\ q[i].action = "DEGELE"
    BY <1>1, <1>6, <2>2 DEF LastFreezing, n
  <2>3. QED
    BY <1>1, <1>5, <2>1, <2>2
<1>10. b.status = "ACTIF" /\ b.status # "GELE"
  OBVIOUS
<1>11. QED
  BY <1>1, <1>4, <1>7, <1>8, <1>9, <1>10 DEF FreezeDisciplineOf, q

LEMMA FreezeKeepsDiscipline ==
  ASSUME NEW a, NEW b, NEW r, FreezeDisciplineOf(a),
         Extended(a.provenance, b.provenance, r),
         r.action = "GELE", a.status = "ACTIF", b.status = "GELE",
         b.frozenBy = r.actorDN, b.frozenAt = r.txID,
         b.frozenReason = r.justification, b.regulatoryRef \in ValidRefs
  PROVE  FreezeDisciplineOf(b)
<1> DEFINE p == a.provenance
           q == b.provenance
           n == Len(p)
<1>1. n \in Nat /\ Len(q) = n + 1 /\ q[n + 1] = r
      /\ \A i \in 1..n : q[i] = p[i]
  BY DEF Extended
<1>2. \A i, j \in 1..n :
        (/\ i < j /\ Freezing(p[j]) /\ Freezing(p[i])
         /\ \A k \in 1..n : i < k /\ k < j => ~Freezing(p[k]))
        => p[i].action # p[j].action
  BY DEF FreezeDisciplineOf
<1>3. \A i, j \in 1..n :
        (/\ i < j /\ p[i].action = "GELE" /\ p[j].action = "TRANSFERE")
        => \E k \in 1..n : i < k /\ k < j /\ p[k].action = "DEGELE"
  BY DEF FreezeDisciplineOf
<1>4. \/ \A i \in 1..n : ~Freezing(p[i])
      \/ \E i \in 1..n : LastFreezing(p, i) /\ p[i].action = "DEGELE"
  BY DEF FreezeDisciplineOf
<1> HIDE DEF p, q, n
<1>5. ASSUME NEW i \in 1..(n+1), NEW j \in 1..(n+1),
             i < j, Freezing(q[i]), Freezing(q[j]),
             \A k \in 1..(n+1) : i < k /\ k < j => ~Freezing(q[k])
      PROVE  q[i].action # q[j].action
  <2>1. CASE j \in 1..n
    BY <1>1, <1>2, <1>5, <2>1
  <2>2. CASE j = n + 1
    <3>1. i \in 1..n /\ Freezing(p[i])
      BY <1>1, <1>5, <2>2
    <3>2. PICK k \in 1..n : LastFreezing(p, k) /\ p[k].action = "DEGELE"
      BY <1>4, <3>1
    <3>3. k = i
      <4>1. i <= k /\ Freezing(p[k])
        BY <3>1, <3>2 DEF LastFreezing, n
      <4>2. ~(i < k)
        BY <1>1, <1>5, <2>2, <4>1
      <4>3. QED
        BY <1>1, <3>1, <4>1, <4>2
    <3>4. QED
      BY <1>1, <2>2, <3>1, <3>2, <3>3
  <2>3. QED
    BY <1>1, <2>1, <2>2
<1>6. ASSUME NEW i \in 1..(n+1), NEW j \in 1..(n+1),
             i < j, q[i].action = "GELE", q[j].action = "TRANSFERE"
      PROVE  \E k \in 1..(n+1) : i < k /\ k < j /\ q[k].action = "DEGELE"
  <2>1. i \in 1..n /\ j \in 1..n
    BY <1>1, <1>6
  <2>2. PICK k \in 1..n : i < k /\ k < j /\ p[k].action = "DEGELE"
    BY <1>1, <1>3, <1>6, <2>1
  <2>3. QED
    BY <1>1, <2>2
<1>7. LastFreezing(q, n + 1) /\ n + 1 \in 1..(n + 1)
  BY <1>1 DEF LastFreezing, Freezing
<1>8. \E i \in 1..Len(q) :
        /\ LastFreezing(q, i) /\ q[i].action = "GELE"
        /\ b.frozenBy = q[i].actorDN /\ b.frozenAt = q[i].txID
        /\ b.frozenReason = q[i].justification
        /\ b.regulatoryRef \in ValidRefs
  BY <1>1, <1>7
<1>9. b.status # "ACTIF"
  OBVIOUS
<1>10. QED
  BY <1>1, <1>5, <1>6, <1>8, <1>9 DEF FreezeDisciplineOf, q

LEMMA UnfreezeKeepsDiscipline ==
  ASSUME NEW a, NEW b, NEW r, FreezeDisciplineOf(a),
         Extended(a.provenance, b.provenance, r),
         r.action = "DEGELE", a.status = "GELE", b.status = "ACTIF",
         b.frozenBy = Empty, b.frozenAt = Empty,
         b.frozenReason = Empty, b.regulatoryRef = Empty
  PROVE  FreezeDisciplineOf(b)
<1> DEFINE p == a.provenance
           q == b.provenance
           n == Len(p)
<1>1. n \in Nat /\ Len(q) = n + 1 /\ q[n + 1] = r
      /\ \A i \in 1..n : q[i] = p[i]
  BY DEF Extended
<1>2. \A i, j \in 1..n :
        (/\ i < j /\ Freezing(p[j]) /\ Freezing(p[i])
         /\ \A k \in 1..n : i < k /\ k < j => ~Freezing(p[k]))
        => p[i].action # p[j].action
  BY DEF FreezeDisciplineOf
<1>3. \A i, j \in 1..n :
        (/\ i < j /\ p[i].action = "GELE" /\ p[j].action = "TRANSFERE")
        => \E k \in 1..n : i < k /\ k < j /\ p[k].action = "DEGELE"
  BY DEF FreezeDisciplineOf
<1>4. PICK l \in 1..n : LastFreezing(p, l) /\ p[l].action = "GELE"
  BY DEF FreezeDisciplineOf
<1> HIDE DEF p, q, n
<1>5. ASSUME NEW i \in 1..(n+1), NEW j \in 1..(n+1),
             i < j, Freezing(q[i]), Freezing(q[j]),
             \A k \in 1..(n+1) : i < k /\ k < j => ~Freezing(q[k])
      PROVE  q[i].action # q[j].action
  <2>1. CASE j \in 1..n
    BY <1>1, <1>2, <1>5, <2>1
  <2>2. CASE j = n + 1
    <3>1. i \in 1..n /\ Freezing(p[i])
      BY <1>1, <1>5, <2>2
    <3>2. i <= l /\ Freezing(p[l])
      BY <1>4, <3>1 DEF LastFreezing, n
    <3>3. ~(i < l)
      BY <1>1, <1>5, <2>2, <3>2
    <3>4. i = l
      BY <1>1, <3>1, <3>2, <3>3
    <3>5. QED
      BY <1>1, <1>4, <2>2, <3>1, <3>4
  <2>3. QED
    BY <1>1, <2>1, <2>2
<1>6. ASSUME NEW i \in 1..(n+1), NEW j \in 1..(n+1),
             i < j, q[i].action = "GELE", q[j].action = "TRANSFERE"
      PROVE  \E k \in 1..(n+1) : i < k /\ k < j /\ q[k].action = "DEGELE"
  <2>1. i \in 1..n /\ j \in 1..n
    BY <1>1, <1>6
  <2>2. PICK k \in 1..n : i < k /\ k < j /\ p[k].action = "DEGELE"
    BY <1>1, <1>3, <1>6, <2>1
  <2>3. QED
    BY <1>1, <2>2
<1>7. n + 1 \in 1..(n + 1) /\ LastFreezing(q, n + 1)
      /\ q[n + 1].action = "DEGELE"
  BY <1>1 DEF LastFreezing, Freezing
<1>8. b.status # "GELE"
  OBVIOUS
<1>9. QED
  BY <1>1, <1>5, <1>6, <1>7, <1>8 DEF FreezeDisciplineOf, q

-----------------------------------------------------------------------------
(* Roles and counting.                                                     *)
LEMMA DutiesAppend ==
  ASSUME NEW a, NEW b, NEW r, DutiesOf(a),
         Extended(a.provenance, b.provenance, r), b.issuerMSP = a.issuerMSP,
         r.actorMSP = (IF Ownership(r) THEN "BANK01MSP" ELSE "REG01MSP")
  PROVE  DutiesOf(b)
BY SMTT(30) DEF DutiesOf, Extended

LEMMA CountAppend ==
  ASSUME NEW a, NEW b, NEW r, CountedOf(a),
         Extended(a.provenance, b.provenance, r),
         IF r.action = "TRANSFERE"
         THEN b.totalTransfers = a.totalTransfers + 1
         ELSE b.totalTransfers = a.totalTransfers
  PROVE  CountedOf(b)
<1> DEFINE n == Len(a.provenance)
           T == TransfersOf(a.provenance)
<1>1. n \in Nat /\ T \subseteq 1..n
  BY DEF TransfersOf, Extended
<1>2. IsFiniteSet(T)
  <2>1. IsFiniteSet(1..n)
    BY <1>1, FS_Interval
  <2>2. QED
    BY <1>1, <2>1, FS_Subset
<1>3. n + 1 \notin T
  BY <1>1
<1>4. CASE r.action = "TRANSFERE"
  <2>1. TransfersOf(b.provenance) = T \cup {n + 1}
    BY <1>4 DEF TransfersOf, Extended
  <2>2. Cardinality(T \cup {n + 1}) = Cardinality(T) + 1
    BY <1>2, <1>3, FS_AddElement
  <2>3. QED
    BY <1>4, <2>1, <2>2 DEF CountedOf
<1>5. CASE r.action # "TRANSFERE"
  <2>1. TransfersOf(b.provenance) = T
    BY <1>5 DEF TransfersOf, Extended
  <2>2. QED
    BY <1>5, <2>1 DEF CountedOf
<1>6. QED
  BY <1>4, <1>5

-----------------------------------------------------------------------------
(* Everything the invariants say about one asset.                          *)
AssetOK(a) ==
  CustodyOf(a) /\ FreezeDisciplineOf(a) /\ DutiesOf(a) /\ CountedOf(a)

LEMMA TokenizeKeeps ==
  ASSUME NEW tx \in TxIds, NEW c \in TokenizeCall, verifyRole(c.client, c.fn)
  PROVE  AssetOK(TokenizeWrite(tx, c))
<1> DEFINE b == TokenizeWrite(tx, c)
           r == Record(tx, c, "TOKENISE", Empty, c.client, c.amount)
<1>1. MspOf[c.client] = "BANK01MSP"
  BY DEF verifyRole, authorisedMSPs, TokenizeCall
<1>2. /\ b.provenance = <<r>> /\ b.totalTransfers = 0
      /\ b.issuerMSP = MspOf[c.client]
      /\ b.currentOwner = r.toOwner /\ b.currentValue = r.amount
      /\ b.status = "ACTIF" /\ b.frozenBy = Empty
      /\ b.frozenAt = Empty /\ b.frozenReason = Empty
      /\ b.regulatoryRef = Empty
  BY TokenizeFields
<1>3. r.action = "TOKENISE" /\ r.actorMSP = MspOf[c.client]
  BY Roles
<1> HIDE DEF b, r
<1>4. Len(b.provenance) = 1 /\ b.provenance[1] = r
  BY <1>2
<1>5. CustodyOf(b)
  BY <1>2, <1>3, <1>4 DEF CustodyOf
<1>6. FreezeDisciplineOf(b)
  BY <1>2, <1>3, <1>4 DEF FreezeDisciplineOf, Freezing
<1>7. DutiesOf(b)
  BY <1>1, <1>2, <1>3, <1>4 DEF DutiesOf, Ownership
<1>8. CountedOf(b)
  <2>1. TransfersOf(b.provenance) = {}
    BY <1>3, <1>4 DEF TransfersOf
  <2>2. QED
    BY <1>2, <2>1, FS_EmptySet DEF CountedOf
<1>9. QED
  BY <1>5, <1>6, <1>7, <1>8 DEF AssetOK, b

LEMMA TransferKeeps ==
  ASSUME NEW tx \in TxIds, NEW c \in TransferCall, NEW a \in FinancialAsset,
         AssetOK(a), verifyRole(c.client, c.fn), RequireActiveAsset(a)
  PROVE  AssetOK(TransferWrite(a, tx, c))
<1> DEFINE b == TransferWrite(a, tx, c)
           r == Record(tx, c, "TRANSFERE", a.currentOwner, c.to, c.amount)
<1>1. MspOf[c.client] = "BANK01MSP"
  BY DEF verifyRole, authorisedMSPs, TransferCall
<1>2. /\ Extended(a.provenance, b.provenance, r)
      /\ b.totalTransfers = a.totalTransfers + 1
      /\ b.issuerMSP = a.issuerMSP
      /\ b.currentOwner = r.toOwner /\ b.currentValue = r.amount
      /\ b.status = a.status /\ b.frozenBy = a.frozenBy
      /\ b.frozenAt = a.frozenAt /\ b.frozenReason = a.frozenReason
      /\ b.regulatoryRef = a.regulatoryRef
  BY TransferFields
<1>3. /\ r.action = "TRANSFERE" /\ r.fromOwner = a.currentOwner
      /\ r.actorMSP = MspOf[c.client]
  BY Roles
<1> HIDE DEF b, r
<1>4. CustodyOf(b)
  BY <1>2, <1>3, CustodyAppendTransfer DEF AssetOK
<1>5. FreezeDisciplineOf(b)
  BY <1>2, <1>3, TransferKeepsDiscipline DEF AssetOK, RequireActiveAsset
<1>6. DutiesOf(b)
  BY <1>1, <1>2, <1>3, DutiesAppend DEF AssetOK, Ownership
<1>7. CountedOf(b)
  BY <1>2, <1>3, CountAppend DEF AssetOK
<1>8. QED
  BY <1>4, <1>5, <1>6, <1>7 DEF AssetOK, b

LEMMA FreezeKeeps ==
  ASSUME NEW tx \in TxIds, NEW c \in FreezeCall, NEW a \in FinancialAsset,
         AssetOK(a), verifyRole(c.client, c.fn), c.ref \in ValidRefs,
         a.status # "GELE"
  PROVE  AssetOK(FreezeWrite(a, tx, c))
<1> DEFINE b == FreezeWrite(a, tx, c)
           r == Record(tx, c, "GELE", Empty, Empty, 0)
<1>1. MspOf[c.client] = "REG01MSP" /\ a.status = "ACTIF"
  BY DEF verifyRole, authorisedMSPs, FreezeCall, FinancialAsset
<1>2. /\ Extended(a.provenance, b.provenance, r)
      /\ b.totalTransfers = a.totalTransfers
      /\ b.issuerMSP = a.issuerMSP
      /\ b.currentOwner = a.currentOwner /\ b.currentValue = a.currentValue
      /\ b.status = "GELE" /\ b.frozenBy = r.actorDN
      /\ b.frozenAt = r.txID /\ b.frozenReason = r.justification
      /\ b.regulatoryRef = c.ref
  BY FreezeFields
<1>3. r.action = "GELE" /\ r.actorMSP = MspOf[c.client]
  BY Roles
<1> HIDE DEF b, r
<1>4. CustodyOf(b)
  BY <1>2, <1>3, CustodyAppendFreezing DEF AssetOK
<1>5. FreezeDisciplineOf(b)
  BY <1>1, <1>2, <1>3, FreezeKeepsDiscipline DEF AssetOK
<1>6. DutiesOf(b)
  BY <1>1, <1>2, <1>3, DutiesAppend DEF AssetOK, Ownership
<1>7. CountedOf(b)
  BY <1>2, <1>3, CountAppend DEF AssetOK
<1>8. QED
  BY <1>4, <1>5, <1>6, <1>7 DEF AssetOK, b

LEMMA UnfreezeKeeps ==
  ASSUME NEW tx \in TxIds, NEW c \in UnfreezeCall, NEW a \in FinancialAsset,
         AssetOK(a), verifyRole(c.client, c.fn), RequireFrozenAsset(a)
  PROVE  AssetOK(UnfreezeWrite(a, tx, c))
<1> DEFINE b == UnfreezeWrite(a, tx, c)
           r == Record(tx, c, "DEGELE", Empty, Empty, 0)
<1>1. MspOf[c.client] = "REG01MSP" /\ a.status = "GELE"
  BY DEF verifyRole, authorisedMSPs, UnfreezeCall, RequireFrozenAsset
<1>2. /\ Extended(a.provenance, b.provenance, r)
      /\ b.totalTransfers = a.totalTransfers
      /\ b.issuerMSP = a.issuerMSP
      /\ b.currentOwner = a.currentOwner /\ b.currentValue = a.currentValue
      /\ b.status = "ACTIF" /\ b.frozenBy = Empty
      /\ b.frozenAt = Empty /\ b.frozenReason = Empty
      /\ b.regulatoryRef = Empty
  BY UnfreezeFields
<1>3. r.action = "DEGELE" /\ r.actorMSP = MspOf[c.client]
  BY Roles
<1> HIDE DEF b, r
<1>4. CustodyOf(b)
  BY <1>2, <1>3, CustodyAppendFreezing DEF AssetOK
<1>5. FreezeDisciplineOf(b)
  BY <1>1, <1>2, <1>3, UnfreezeKeepsDiscipline DEF AssetOK
<1>6. DutiesOf(b)
  BY <1>1, <1>2, <1>3, DutiesAppend DEF AssetOK, Ownership
<1>7. CountedOf(b)
  BY <1>2, <1>3, CountAppend DEF AssetOK
<1>8. QED
  BY <1>4, <1>5, <1>6, <1>7 DEF AssetOK, b

-----------------------------------------------------------------------------
(* The new record b of asset id is well typed and keeps the per-asset      *)
(* invariants; its trail is the old one with one record of transaction tx  *)
(* appended, or that record alone.                                         *)
Succeeds(w, id, tx, b, r) ==
  /\ b \in FinancialAsset /\ AssetOK(b) /\ r.txID = tx
  /\ w[id] = NoAsset => b.provenance = <<r>>
  /\ w[id] # NoAsset => /\ Extended(w[id].provenance, b.provenance, r)
                        /\ b.nominalValue = w[id].nominalValue
                        /\ b.issuerMSP = w[id].issuerMSP

LEMMA WriteSucceeds ==
  ASSUME NEW w \in [Assets -> FinancialAsset \cup {NoAsset}],
         NEW tx \in TxIds, NEW c \in Call, Answer(w, c) = "ok",
         \A id \in Assets : w[id] # NoAsset => AssetOK(w[id])
  PROVE  \E r : Succeeds(w, c.asset, tx, Write(w, tx, c), r)
<1>1. c.asset \in Assets /\ verifyRole(c.client, c.fn)
  BY Accepted
<1> DEFINE a == w[c.asset]
<1>2. CASE c \in TokenizeCall /\ a = NoAsset
  <2> DEFINE r == Record(tx, c, "TOKENISE", Empty, c.client, c.amount)
  <2>1. Write(w, tx, c) = TokenizeWrite(tx, c)
    BY <1>2 DEF Write, TokenizeCall
  <2>2. r.txID = tx
    BY Roles
  <2>3. TokenizeWrite(tx, c).provenance = <<r>>
    BY <1>2, TokenizeFields
  <2>4. TokenizeWrite(tx, c) \in FinancialAsset
    BY <1>2, TokenizeType
  <2>5. AssetOK(TokenizeWrite(tx, c))
    BY <1>1, <1>2, TokenizeKeeps
  <2> HIDE DEF r
  <2>6. QED
    BY <1>2, <2>1, <2>2, <2>3, <2>4, <2>5 DEF Succeeds
<1>3. CASE c \in TransferCall /\ a # NoAsset /\ RequireActiveAsset(a)
  <2> DEFINE r == Record(tx, c, "TRANSFERE", a.currentOwner, c.to, c.amount)
  <2>0. a \in FinancialAsset /\ AssetOK(a)
    BY <1>1, <1>3
  <2>1. Write(w, tx, c) = TransferWrite(a, tx, c)
    BY <1>3 DEF Write, TransferCall
  <2>2. r.txID = tx
    BY Roles
  <2>3. /\ Extended(a.provenance, TransferWrite(a, tx, c).provenance, r)
        /\ TransferWrite(a, tx, c).nominalValue = a.nominalValue
        /\ TransferWrite(a, tx, c).issuerMSP = a.issuerMSP
    BY <1>3, <2>0, TransferFields
  <2>4. TransferWrite(a, tx, c) \in FinancialAsset
    BY <1>3, <2>0, TransferType
  <2>5. AssetOK(TransferWrite(a, tx, c))
    BY <1>1, <1>3, <2>0, TransferKeeps
  <2> HIDE DEF r
  <2>6. QED
    BY <1>3, <2>1, <2>2, <2>3, <2>4, <2>5 DEF Succeeds
<1>4. CASE c \in FreezeCall /\ a # NoAsset /\ c.ref \in ValidRefs
           /\ a.status # "GELE"
  <2> DEFINE r == Record(tx, c, "GELE", Empty, Empty, 0)
  <2>0. a \in FinancialAsset /\ AssetOK(a)
    BY <1>1, <1>4
  <2>1. Write(w, tx, c) = FreezeWrite(a, tx, c)
    BY <1>4 DEF Write, FreezeCall
  <2>2. r.txID = tx
    BY Roles
  <2>3. /\ Extended(a.provenance, FreezeWrite(a, tx, c).provenance, r)
        /\ FreezeWrite(a, tx, c).nominalValue = a.nominalValue
        /\ FreezeWrite(a, tx, c).issuerMSP = a.issuerMSP
    BY <1>4, <2>0, FreezeFields
  <2>4. FreezeWrite(a, tx, c) \in FinancialAsset
    BY <1>4, <2>0, FreezeType
  <2>5. AssetOK(FreezeWrite(a, tx, c))
    BY <1>1, <1>4, <2>0, FreezeKeeps
  <2> HIDE DEF r
  <2>6. QED
    BY <1>4, <2>1, <2>2, <2>3, <2>4, <2>5 DEF Succeeds
<1>5. CASE c \in UnfreezeCall /\ a # NoAsset /\ RequireFrozenAsset(a)
  <2> DEFINE r == Record(tx, c, "DEGELE", Empty, Empty, 0)
  <2>0. a \in FinancialAsset /\ AssetOK(a)
    BY <1>1, <1>5
  <2>1. Write(w, tx, c) = UnfreezeWrite(a, tx, c)
    BY <1>5 DEF Write, UnfreezeCall
  <2>2. r.txID = tx
    BY Roles
  <2>3. /\ Extended(a.provenance, UnfreezeWrite(a, tx, c).provenance, r)
        /\ UnfreezeWrite(a, tx, c).nominalValue = a.nominalValue
        /\ UnfreezeWrite(a, tx, c).issuerMSP = a.issuerMSP
    BY <1>5, <2>0, UnfreezeFields
  <2>4. UnfreezeWrite(a, tx, c) \in FinancialAsset
    BY <1>5, <2>0, UnfreezeType
  <2>5. AssetOK(UnfreezeWrite(a, tx, c))
    BY <1>1, <1>5, <2>0, UnfreezeKeeps
  <2> HIDE DEF r
  <2>6. QED
    BY <1>5, <2>1, <2>2, <2>3, <2>4, <2>5 DEF Succeeds
<1>6. QED
  BY <1>2, <1>3, <1>4, <1>5, Accepted

-----------------------------------------------------------------------------
(* The inductive invariant: types and the per-asset predicates.            *)
AssetsOK == \A id \in Assets : world[id] # NoAsset => AssetOK(world[id])

IInv == TypeOK /\ AssetsOK

(* A step of the contract is one call that was accepted.                   *)
LEMMA StepIsCall ==
  ASSUME Next
  PROVE  \E tx \in TxIds, c \in Call : Apply(tx, c)
BY DEF Next, TokenizeAsset, TransferAsset, FreezeAsset, UnfreezeAsset, Call

LEMMA InitIInv == Init => IInv
BY DEF Init, IInv, TypeOK, AssetsOK

LEMMA ApplyIInv ==
  ASSUME IInv, NEW tx \in TxIds, NEW c \in Call, Apply(tx, c)
  PROVE  IInv'
<1>1. PICK r : Succeeds(world, c.asset, tx, Write(world, tx, c), r)
  BY WriteSucceeds DEF IInv, TypeOK, AssetsOK, Apply
<1> DEFINE b == Write(world, tx, c)
<1>2. b \in FinancialAsset /\ AssetOK(b)
  BY <1>1 DEF Succeeds
<1>3. c.asset \in Assets
  BY Accepted DEF Apply
<1>4. world' = [world EXCEPT ![c.asset] = b]
  BY DEF Apply
<1>5. events' \in [TxIds -> EventNames \cup {"none"}]
  BY EventType DEF Apply, IInv, TypeOK
<1> HIDE DEF b
<1>6. world' \in [Assets -> FinancialAsset \cup {NoAsset}]
  BY <1>2, <1>3, <1>4 DEF IInv, TypeOK
<1>7. AssetsOK'
  <2> SUFFICES ASSUME NEW id \in Assets, world'[id] # NoAsset
               PROVE  AssetOK(world'[id])
    BY DEF AssetsOK, AssetOK, CustodyOf, FreezeDisciplineOf, DutiesOf, CountedOf
  <2>1. CASE id = c.asset
    BY <1>2, <1>3, <1>4, <2>1 DEF IInv, TypeOK
  <2>2. CASE id # c.asset
    BY <1>3, <1>4, <2>2 DEF IInv, TypeOK, AssetsOK
  <2>3. QED
    BY <2>1, <2>2
<1>8. QED
  BY <1>5, <1>6, <1>7 DEF IInv, TypeOK

LEMMA StepIInv == IInv /\ [Next]_vars => IInv'
<1> SUFFICES ASSUME IInv, [Next]_vars
             PROVE  IInv'
  OBVIOUS
<1>1. CASE Next
  BY <1>1, StepIsCall, ApplyIInv
<1>2. CASE UNCHANGED vars
  BY <1>2 DEF vars, IInv, TypeOK, AssetsOK
<1>3. QED
  BY <1>1, <1>2

LEMMA IInvAlways == Spec => []IInv
BY InitIInv, StepIInv, PTL DEF Spec

(* Type correctness: every reachable world state maps assets to asset      *)
(* records, and every recorded event is one the chaincode emits.           *)
THEOREM TypeCorrect == Spec => []TypeOK
<1>1. IInv => TypeOK
  BY DEF IInv
<1>2. QED
  BY <1>1, IInvAlways, PTL

(* The chain of custody of every asset is unbroken, and the current owner  *)
(* and value are those of the last ownership record (TransferAsset).       *)
THEOREM CustodyChainHolds == Spec => []CustodyChain
<1>1. IInv => CustodyChain
  BY DEF IInv, AssetsOK, AssetOK, CustodyChain, Issued
<1>2. QED
  BY <1>1, IInvAlways, PTL

(* Freezes and unfreezes alternate, no transfer happens while an asset is  *)
(* frozen, and the freeze fields describe the freeze in force.             *)
THEOREM FreezeDisciplineHolds == Spec => []FreezeDiscipline
<1>1. IInv => FreezeDiscipline
  BY DEF IInv, AssetsOK, AssetOK, FreezeDiscipline, Issued
<1>2. QED
  BY <1>1, IInvAlways, PTL

(* The bank alone issues and transfers, the regulator alone freezes and    *)
(* unfreezes, as far back as the trail goes.                               *)
THEOREM SeparationOfDutiesHolds == Spec => []SeparationOfDuties
<1>1. IInv => SeparationOfDuties
  BY DEF IInv, AssetsOK, AssetOK, SeparationOfDuties, Issued
<1>2. QED
  BY <1>1, IInvAlways, PTL

(* totalTransfers is the number of transfers in the trail.                 *)
THEOREM TransfersCountedHolds == Spec => []TransfersCounted
<1>1. IInv => TransfersCounted
  BY DEF IInv, AssetsOK, AssetOK, TransfersCounted, Issued
<1>2. QED
  BY <1>1, IInvAlways, PTL

(* What one step keeps of the history.                                     *)
Kept == \A id \in Issued :
          /\ id \in Issued'
          /\ world'[id].nominalValue = world[id].nominalValue
          /\ world'[id].issuerMSP = world[id].issuerMSP
          /\ Len(Trail(id)) <= Len(Trail(id)')
          /\ \A i \in 1..Len(Trail(id)) : Trail(id)'[i] = Trail(id)[i]

LEMMA StepKeepsHistory == IInv /\ Next => Kept
<1> SUFFICES ASSUME IInv, Next, NEW id \in Issued
             PROVE  /\ id \in Issued'
                    /\ world'[id].nominalValue = world[id].nominalValue
                    /\ world'[id].issuerMSP = world[id].issuerMSP
                    /\ Len(Trail(id)) <= Len(Trail(id)')
                    /\ \A i \in 1..Len(Trail(id)) :
                         Trail(id)'[i] = Trail(id)[i]
  BY DEF Kept
<1>1. PICK tx \in TxIds, c \in Call : Apply(tx, c)
  BY StepIsCall
<1>2. PICK r : Succeeds(world, c.asset, tx, Write(world, tx, c), r)
  BY <1>1, WriteSucceeds DEF IInv, TypeOK, AssetsOK, Apply
<1>3. c.asset \in Assets
  BY <1>1, Accepted DEF Apply
<1> DEFINE b == Write(world, tx, c)
<1>4. world' = [world EXCEPT ![c.asset] = b]
  BY <1>1 DEF Apply
<1>5. b \in FinancialAsset
  BY <1>2 DEF Succeeds
<1>6. id \in Assets /\ world[id] # NoAsset
      /\ world[id] \in FinancialAsset
  BY DEF Issued, IInv, TypeOK
<1>7. CASE id = c.asset
  <2>1. /\ Extended(world[id].provenance, b.provenance, r)
        /\ b.nominalValue = world[id].nominalValue
        /\ b.issuerMSP = world[id].issuerMSP
    BY <1>2, <1>6, <1>7 DEF Succeeds
  <2> HIDE DEF b
  <2>2. world'[id] = b
    BY <1>3, <1>4, <1>7 DEF IInv, TypeOK
  <2>3. b # NoAsset
    BY <1>5, NoAssetAssumption
  <2>4. QED
    BY <1>6, <2>1, <2>2, <2>3 DEF Issued, Trail, Extended
<1>8. CASE id # c.asset
  <2> HIDE DEF b
  <2>1. world'[id] = world[id]
    BY <1>4, <1>6, <1>8 DEF IInv, TypeOK
  <2>2. Len(world[id].provenance) \in Nat
    BY <1>6 DEF FinancialAsset
  <2>3. QED
    BY <1>6, <2>1, <2>2 DEF Issued, Trail
<1>9. QED
  BY <1>7, <1>8

(* No step removes an asset, changes its nominal value or issuer, or       *)
(* rewrites a record of its trail.                                         *)
THEOREM HistoryIsImmutable == Spec => ImmutableHistory
<1>1. IInv /\ [Next]_vars => [Kept]_vars
  BY StepKeepsHistory
<1>2. QED
  BY <1>1, IInvAlways, PTL DEF Spec, ImmutableHistory, Kept

(* Logged(w, id, tx): transaction tx is in the trail of asset id.          *)
Logged(w, id, tx) ==
  w[id] # NoAsset /\ \E i \in 1..Len(w[id].provenance) :
                       w[id].provenance[i].txID = tx

(* The trails are a complete and duplicate-free log of the committed       *)
(* transactions: a transaction writes one record, into one trail, and      *)
(* nothing else writes a record.                                           *)
THEOREM TrailsAreTheLogHolds == Spec => []TrailsAreTheLog
<1>1. Init => TrailsAreTheLog
  BY DEF Init, TrailsAreTheLog, Issued
<1>2. IInv /\ IInv' /\ TrailsAreTheLog /\ [Next]_vars => TrailsAreTheLog'
  <2> SUFFICES ASSUME IInv, IInv', TrailsAreTheLog, [Next]_vars
               PROVE  TrailsAreTheLog'
    OBVIOUS
  <2>1. CASE UNCHANGED vars
    BY <2>1 DEF vars, TrailsAreTheLog, Issued, Trail
  <2>2. CASE Next
    <3>1. PICK tx \in TxIds, c \in Call : Apply(tx, c)
      BY <2>2, StepIsCall
    <3>2. PICK r : Succeeds(world, c.asset, tx, Write(world, tx, c), r)
      BY <3>1, WriteSucceeds DEF IInv, TypeOK, AssetsOK, Apply
    <3> DEFINE b == Write(world, tx, c)
               x == c.asset
               q == b.provenance
               n == Len(q)
    <3>3. /\ x \in Assets /\ b \in FinancialAsset
          /\ world' = [world EXCEPT ![x] = b]
          /\ events[tx] = "none" /\ events' = [events EXCEPT ![tx] = Event(c)]
      BY <3>1, <3>2, Accepted DEF Apply, Succeeds
    <3>4. r.txID = tx /\ Event(c) # "none"
      BY <3>2, EventType DEF Succeeds, EventNames
    <3>5. b # NoAsset
      BY <3>3, NoAssetAssumption
    <3>6. /\ n \in Nat /\ n >= 1 /\ q[n] = r
          /\ \A i \in 1..n : i # n =>
               /\ world[x] # NoAsset
               /\ i \in 1..Len(world[x].provenance)
               /\ q[i] = world[x].provenance[i]
          /\ world[x] # NoAsset => Len(world[x].provenance) = n - 1
      <4>1. CASE world[x] = NoAsset
        <5>1. q = <<r>>
          BY <3>2, <4>1 DEF Succeeds
        <5>2. QED
          BY <4>1, <5>1
      <4>2. CASE world[x] # NoAsset
        <5>1. Extended(world[x].provenance, q, r)
          BY <3>2, <4>2 DEF Succeeds
        <5> HIDE DEF q
        <5>2. QED
          BY <4>2, <5>1, SMTT(30) DEF Extended
      <4>3. QED
        BY <4>1, <4>2
    <3> HIDE DEF b, q, n, x
    <3>7. \A id \in Assets : world'[id] = IF id = x THEN b ELSE world[id]
      BY <3>3 DEF IInv, TypeOK
    <3>8. \A t \in TxIds : events'[t] = IF t = tx THEN Event(c) ELSE events[t]
      BY <3>3 DEF IInv, TypeOK
    <3>9. \A t \in TxIds : events[t] # "none" <=>
             \E id \in Assets : Logged(world, id, t)
      BY DEF TrailsAreTheLog, Logged, Issued, Trail
    <3>10. \A id \in Assets : ~Logged(world, id, tx)
      BY <3>3, <3>9
    <3>11. \A id \in Assets, t \in TxIds : Logged(world', id, t) <=>
             Logged(world, id, t) \/ (id = x /\ t = tx)
      <4> SUFFICES ASSUME NEW id \in Assets, NEW t \in TxIds
                   PROVE  Logged(world', id, t) <=>
                            Logged(world, id, t) \/ (id = x /\ t = tx)
        OBVIOUS
      <4>1. CASE id # x
        BY <3>7, <4>1 DEF Logged
      <4>2. CASE id = x
        BY <3>3, <3>4, <3>5, <3>6, <3>7, <4>2, SMTT(30) DEF Logged, q, n
      <4>3. QED
        BY <4>1, <4>2
    <3>12. \A t \in TxIds : events'[t] # "none" <=>
              \E id \in Assets : Logged(world', id, t)
      BY <3>3, <3>4, <3>8, <3>9, <3>11
    <3>13. ASSUME NEW id1 \in Assets, NEW id2 \in Assets,
                  world'[id1] # NoAsset, world'[id2] # NoAsset,
                  NEW i \in 1..Len(world'[id1].provenance),
                  NEW j \in 1..Len(world'[id2].provenance),
                  world'[id1].provenance[i].txID
                    = world'[id2].provenance[j].txID
           PROVE  id1 = id2 /\ i = j
      <4>0. \A y1, y2 \in Assets :
              world[y1] # NoAsset /\ world[y2] # NoAsset =>
              \A k \in 1..Len(world[y1].provenance),
                 l \in 1..Len(world[y2].provenance) :
                 world[y1].provenance[k].txID = world[y2].provenance[l].txID
                 => y1 = y2 /\ k = l
        BY DEF TrailsAreTheLog, Issued, Trail
      <4>1. (id1 = x /\ i = n) \/
            /\ world[id1] # NoAsset /\ i \in 1..Len(world[id1].provenance)
            /\ world'[id1].provenance[i] = world[id1].provenance[i]
        BY <3>6, <3>7, <3>13 DEF q, n
      <4>2. (id2 = x /\ j = n) \/
            /\ world[id2] # NoAsset /\ j \in 1..Len(world[id2].provenance)
            /\ world'[id2].provenance[j] = world[id2].provenance[j]
        BY <3>6, <3>7, <3>13 DEF q, n
      <4>3. id1 = x /\ i = n => world'[id1].provenance[i].txID = tx
        BY <3>4, <3>6, <3>7 DEF q, n
      <4>4. id2 = x /\ j = n => world'[id2].provenance[j].txID = tx
        BY <3>4, <3>6, <3>7 DEF q, n
      <4>5. CASE (id1 = x /\ i = n) /\ ~(id2 = x /\ j = n)
        <5>1. world[id2].provenance[j].txID = tx
          BY <3>13, <4>2, <4>3, <4>5
        <5>2. QED
          BY <3>10, <4>2, <4>5, <5>1 DEF Logged
      <4>6. CASE ~(id1 = x /\ i = n) /\ (id2 = x /\ j = n)
        <5>1. world[id1].provenance[i].txID = tx
          BY <3>13, <4>1, <4>4, <4>6
        <5>2. QED
          BY <3>10, <4>1, <4>6, <5>1 DEF Logged
      <4>7. CASE ~(id1 = x /\ i = n) /\ ~(id2 = x /\ j = n)
        <5>1. /\ world[id1] # NoAsset /\ i \in 1..Len(world[id1].provenance)
              /\ world[id2] # NoAsset /\ j \in 1..Len(world[id2].provenance)
          BY <4>1, <4>2, <4>7
        <5>2. world[id1].provenance[i].txID = world[id2].provenance[j].txID
          BY <3>13, <4>1, <4>2, <4>7
        <5>3. QED
          BY <4>0, <5>1, <5>2
      <4>8. QED
        BY <4>5, <4>6, <4>7
    <3>14. QED
      BY <3>12, <3>13 DEF TrailsAreTheLog, Issued, Trail, Logged
  <2>3. QED
    BY <2>1, <2>2
<1>3. QED
  BY <1>1, <1>2, IInvAlways, PTL DEF Spec


-----------------------------------------------------------------------------
(***************************************************************************)
(* The audit task over the moving ledger.                                  *)
(*                                                                         *)
(* JobOK: what a task has read so far are prefixes of the ledger's trail,  *)
(* the trail read first inside the state read later.  Prefixes stay        *)
(* prefixes because history is immutable; a trail read from the ledger     *)
(* passes the checker because of the chain of custody.                     *)
(***************************************************************************)
JobType ==
  [pc: {"none", "queued", "reading", "check", "draft", "pdf", "written", "SUCCESS", "FAILURE"},
   asset: Assets \cup {NoAsset}, by: Auditors \cup {NoFile},
   trail: Seq(ProvenanceRecord), state: FinancialAsset \cup {NoAsset},
   path: Paths \cup {NoFile}]

HasState == {"check", "draft", "pdf", "written"}
HasTrail == HasState \cup {"reading"}

JobOK(j) ==
  /\ job[j].pc \in HasTrail \cup {"queued"} => job[j].asset \in Assets /\ job[j].by \in Auditors
  /\ job[j].pc \in HasTrail =>
       /\ job[j].asset \in Issued /\ Check(job[j].trail)
       /\ IsPrefixOf(job[j].trail, Trail(job[j].asset))
  /\ job[j].pc \in HasState =>
       /\ job[j].state \in FinancialAsset
       /\ IsPrefixOf(job[j].trail, job[j].state.provenance)
       /\ IsPrefixOf(job[j].state.provenance, Trail(job[j].asset))
  /\ job[j].pc = "written" => job[j].path \in Paths /\ files[job[j].path] # NoFile

FileOK(p) ==
  files[p] # NoFile =>
    /\ files[p] \in Reports /\ files[p].valid = TRUE /\ files[p].asset \in Issued
    /\ IsPrefixOf(files[p].trail, files[p].state.provenance)
    /\ IsPrefixOf(files[p].state.provenance, Trail(files[p].asset))

AInv ==
  /\ IInv
  /\ job \in [Jobs -> JobType] /\ files \in [Paths -> Reports \cup {NoFile}]
  /\ second \in 0..MaxSecond
  /\ \A j \in Jobs : JobOK(j)
  /\ \A p \in Paths : FileOK(p)
  /\ \A row \in announced :
       row.path \in Paths /\ row.valid = TRUE /\ files[row.path] # NoFile

LEMMA PrefixTransitive ==
  ASSUME NEW S, NEW s \in Seq(S), NEW t \in Seq(S), NEW u \in Seq(S),
         IsPrefixOf(s, t), IsPrefixOf(t, u)
  PROVE  IsPrefixOf(s, u)
BY DEF IsPrefixOf

LEMMA PrefixReflexive ==
  ASSUME NEW S, NEW s \in Seq(S)
  PROVE  IsPrefixOf(s, s)
BY DEF IsPrefixOf

(* What the chaincode wrote, the checker accepts.                          *)
LEMMA TrailPassesCheck ==
  ASSUME NEW a \in FinancialAsset, AssetOK(a)
  PROVE  Check(a.provenance)
<1> DEFINE p == a.provenance
<1>1. p \in Seq(ProvenanceRecord) /\ Len(p) \in Nat
  BY DEF FinancialAsset
<1>2. Len(p) > 0 /\ p[1].action = "TOKENISE"
  BY DEF AssetOK, CustodyOf
<1> HIDE DEF p
<1>3. DOMAIN p = 1..Len(p)
  BY <1>1
<1>4. ASSUME NEW i \in 1..Len(p) PROVE p[i].action \in allowed_actions /\ 1 \in 1..i
  <2>1. p[i] \in ProvenanceRecord
    BY <1>1
  <2>2. QED
    BY <1>1, <2>1 DEF ProvenanceRecord, ActionName, allowed_actions
<1>5. QED
  BY <1>1, <1>2, <1>3, <1>4 DEF Check, CheckAllowing, p

LEMMA TrailFacts ==
  ASSUME AInv, NEW id \in Issued
  PROVE  /\ id \in Assets /\ world[id] \in FinancialAsset
         /\ Trail(id) \in Seq(ProvenanceRecord) /\ Check(Trail(id))
<1>1. id \in Assets /\ world[id] \in FinancialAsset /\ AssetOK(world[id])
  BY DEF AInv, IInv, TypeOK, AssetsOK, Issued
<1>2. QED
  BY <1>1, TrailPassesCheck DEF Trail, FinancialAsset

LEMMA WaitingType == Waiting \in JobType /\ Waiting.pc = "none"
BY DEF Waiting, JobType

LEMMA AInitInv == AInit => AInv
<1> SUFFICES ASSUME AInit PROVE AInv
  OBVIOUS
<1>1. IInv
  BY InitIInv DEF AInit
<1>2. QED
  BY <1>1, WaitingType, AuditAssumption DEF AInit, AInv, JobOK, FileOK, HasTrail, HasState

(* The ledger moves on under the tasks and the files.                      *)
LEMMA LedgerMoves ==
  ASSUME AInv, Next, UNCHANGED auditVars
  PROVE  AInv'
<1>1. IInv' /\ Kept
  BY StepIInv, StepKeepsHistory DEF AInv
<1>2. UNCHANGED <<job, files, announced, second>>
  BY DEF auditVars
<1>3. ASSUME NEW id \in Issued
      PROVE  /\ id \in Issued' /\ IsPrefixOf(Trail(id), world'[id].provenance)
             /\ Trail(id) \in Seq(ProvenanceRecord)
             /\ world'[id].provenance \in Seq(ProvenanceRecord)
  <2>1. id \in Issued' /\ IsPrefixOf(Trail(id), world'[id].provenance)
    BY <1>1, <1>3 DEF Kept, IsPrefixOf, Trail
  <2>2. world'[id].provenance \in Seq(ProvenanceRecord)
    BY <1>1, <2>1 DEF IInv, TypeOK, Issued, Trail, FinancialAsset
  <2>3. QED
    BY <1>3, <2>1, <2>2, TrailFacts
<1>4. ASSUME NEW id \in Issued, NEW s \in Seq(ProvenanceRecord), IsPrefixOf(s, Trail(id))
      PROVE  IsPrefixOf(s, world'[id].provenance)
  BY <1>3, <1>4, PrefixTransitive
<1>5. ASSUME NEW a \in FinancialAsset PROVE a.provenance \in Seq(ProvenanceRecord)
  BY DEF FinancialAsset
<1>6. ASSUME NEW j \in Jobs PROVE JobOK(j)'
  <2>1. JobOK(j) /\ job[j] \in JobType /\ job[j].trail \in Seq(ProvenanceRecord)
    BY DEF AInv, JobType
  <2>2. job[j].pc \in HasTrail =>
          /\ job[j].asset \in Issued' /\ IsPrefixOf(job[j].trail, world'[job[j].asset].provenance)
    BY <1>3, <1>4, <2>1 DEF JobOK
  <2>3. job[j].pc \in HasState =>
          IsPrefixOf(job[j].state.provenance, world'[job[j].asset].provenance)
    BY <1>4, <1>5, <2>1 DEF JobOK, HasTrail
  <2>4. QED
    BY <1>2, <2>1, <2>2, <2>3 DEF JobOK, Trail
<1>7. ASSUME NEW p \in Paths PROVE FileOK(p)'
  <2>1. FileOK(p)
    BY DEF AInv
  <2>2. files[p] # NoFile =>
          /\ files[p].asset \in Issued'
          /\ IsPrefixOf(files[p].state.provenance, world'[files[p].asset].provenance)
    BY <1>3, <1>4, <1>5, <2>1 DEF FileOK, Reports
  <2>3. QED
    BY <1>2, <2>1, <2>2 DEF FileOK, Trail
<1>8. QED
  BY <1>1, <1>2, <1>6, <1>7 DEF AInv

(* A task moves: it replaces its own record, and adds no file that was not *)
(* shown to be consistent.                                                 *)
LEMMA JobMoves ==
  ASSUME AInv, UNCHANGED vars, NEW j \in Jobs, NEW r \in JobType,
         job' = [job EXCEPT ![j] = r], JobOK(j)',
         files' \in [Paths -> Reports \cup {NoFile}], second' \in 0..MaxSecond,
         \A p \in Paths : FileOK(p)' /\ (files[p] # NoFile => files'[p] # NoFile),
         \A row \in announced' :
           row.path \in Paths /\ row.valid = TRUE /\ files[row.path] # NoFile
  PROVE  AInv'
<1>1. IInv'
  BY StepIInv DEF AInv
<1>2. ASSUME NEW i \in Jobs PROVE JobOK(i)'
  <2>1. CASE i # j
    <3>1. job'[i] = job[i] /\ JobOK(i) /\ world' = world
      BY <2>1 DEF AInv, vars
    <3>2. QED
      BY <3>1 DEF JobOK, Issued, Trail
  <2>2. QED
    BY <2>1
<1>3. QED
  BY <1>1, <1>2 DEF AInv


(* A task that only moves on within what it has read.                      *)
LEMMA QuietJob ==
  ASSUME AInv, UNCHANGED <<vars, files, announced, second>>, NEW j \in Jobs,
         NEW r \in JobType, job' = [job EXCEPT ![j] = r], JobOK(j)'
  PROVE  AInv'
<1>1. world' = world
  BY DEF vars
<1>2. \A p \in Paths : FileOK(p)'
  BY <1>1 DEF AInv, FileOK, Issued, Trail
<1>3. QED
  BY <1>2, JobMoves DEF AInv

LEMMA RequestAInv ==
  ASSUME AInv, NEW j \in Jobs, NEW a \in Assets, NEW by \in Auditors, Request(j, a, by)
  PROVE  AInv'
<1> DEFINE r == [Waiting EXCEPT !.pc = "queued", !.asset = a, !.by = by]
<1>1. r \in JobType /\ r.pc = "queued" /\ r.asset = a /\ r.by = by
  BY WaitingType DEF JobType
<1>2. job' = [job EXCEPT ![j] = r] /\ UNCHANGED <<vars, files, announced, second>>
  BY DEF Request
<1> HIDE DEF r
<1>3. JobOK(j)'
  BY <1>1, <1>2 DEF AInv, JobOK, HasTrail, HasState
<1>4. QED
  BY <1>1, <1>2, <1>3, QuietJob

(* A successful read leaves the record it was read into well typed.        *)
LEMMA ReadLedgerAInv ==
  ASSUME AInv, NEW j \in Jobs, ReadLedger(j)
  PROVE  AInv'
<1> DEFINE o == job[j]
           id == o.asset
<1>1. /\ o \in JobType /\ JobOK(j) /\ id \in Issued /\ id \in Assets
      /\ world[id] \in FinancialAsset /\ Trail(id) \in Seq(ProvenanceRecord)
      /\ Check(Trail(id)) /\ UNCHANGED <<vars, files, announced, second>> /\ world' = world
  BY TrailFacts DEF AInv, ReadLedger, ReadTrail, ReadState, vars
<1>2. CASE ReadTrail(j, "queued", "reading")
  <2> DEFINE r == [o EXCEPT !.trail = Trail(id), !.pc = "reading"]
  <2>1. job' = [job EXCEPT ![j] = r] /\ o.pc = "queued"
    BY <1>2 DEF ReadTrail, At
  <2> HIDE DEF o
  <2>2. /\ r \in JobType /\ r.pc = "reading" /\ r.trail = Trail(id) /\ r.asset = id
        /\ r.by = o.by
    BY <1>1 DEF JobType
  <2>3. o.by \in Auditors
    BY <1>1, <2>1 DEF JobOK, o
  <2> HIDE DEF r, id
  <2>4. job'[j] = r
    BY <2>1 DEF AInv
  <2>5. IsPrefixOf(Trail(id), Trail(id))
    BY <1>1, PrefixReflexive
  <2>6. JobOK(j)'
    BY <1>1, <2>2, <2>3, <2>4, <2>5 DEF JobOK, HasTrail, HasState, Issued, Trail
  <2>7. QED
    BY <1>1, <2>1, <2>2, <2>6, QuietJob
<1>3. CASE ReadState(j, "reading", "check")
  <2> DEFINE r == [o EXCEPT !.state = world[id], !.pc = "check"]
  <2>1. job' = [job EXCEPT ![j] = r] /\ o.pc = "reading"
    BY <1>3 DEF ReadState, At
  <2>2. o.by \in Auditors /\ IsPrefixOf(o.trail, Trail(id)) /\ Check(o.trail)
    BY <1>1, <2>1 DEF JobOK, HasTrail
  <2> HIDE DEF o
  <2>3. /\ r \in JobType /\ r.pc = "check" /\ r.trail = o.trail /\ r.asset = id
        /\ r.by = o.by /\ r.state = world[id]
    BY <1>1 DEF JobType
  <2> HIDE DEF r, id
  <2>4. job'[j] = r
    BY <2>1 DEF AInv
  <2>5. IsPrefixOf(Trail(id), Trail(id))
    BY <1>1, PrefixReflexive
  <2>6. JobOK(j)'
    BY <1>1, <2>2, <2>3, <2>4, <2>5 DEF JobOK, HasTrail, HasState, Issued, Trail
  <2>7. QED
    BY <1>1, <2>1, <2>3, <2>6, QuietJob
<1>4. QED
  BY <1>2, <1>3 DEF ReadLedger

LEMMA CompileAInv ==
  ASSUME AInv, NEW j \in Jobs, Compile(j)
  PROVE  AInv'
<1>1. PICK s \in {"draft", "pdf"} : GotoJob(j, s) /\ job[j].pc \in {"check", "draft"}
  BY DEF Compile, At
<1> DEFINE o == job[j]
           r == [o EXCEPT !.pc = s]
<1>2. /\ job' = [job EXCEPT ![j] = r] /\ o \in JobType /\ JobOK(j)
      /\ UNCHANGED <<vars, files, announced, second>> /\ world' = world
  BY <1>1 DEF GotoJob, AInv, Compile, vars
<1> HIDE DEF o
<1>3. /\ r \in JobType /\ r.pc = s /\ r.asset = o.asset /\ r.by = o.by /\ r.trail = o.trail
      /\ r.state = o.state
  BY <1>2 DEF JobType
<1> HIDE DEF r
<1>4. job'[j] = r
  BY <1>2 DEF AInv
<1>5. JobOK(j)'
  BY <1>1, <1>2, <1>3, <1>4 DEF JobOK, HasTrail, HasState, Issued, Trail, o
<1>6. QED
  BY <1>2, <1>3, <1>5, QuietJob

(* The record of a task that ended says nothing of the ledger.             *)
LEMMA EndsShape ==
  ASSUME AInv, NEW j \in Jobs, NEW s \in {"SUCCESS", "FAILURE"}, Ends(j, s)
  PROVE  \E r \in JobType : job' = [job EXCEPT ![j] = r] /\ r.pc = s
<1> DEFINE r == [Waiting EXCEPT !.pc = s, !.path = job[j].path]
<1>1. job[j].path \in Paths \cup {NoFile}
  BY DEF AInv, JobType
<1>2. r \in JobType /\ r.pc = s
  BY <1>1, WaitingType DEF JobType
<1>3. job' = [job EXCEPT ![j] = r]
  BY DEF Ends
<1> HIDE DEF r
<1>4. QED
  BY <1>2, <1>3

LEMMA FailsAInv ==
  ASSUME AInv, NEW j \in Jobs, Fails(j)
  PROVE  AInv'
<1>1. PICK r \in JobType : job' = [job EXCEPT ![j] = r] /\ r.pc = "FAILURE"
  BY EndsShape DEF Fails
<1>2. JobOK(j)'
  BY <1>1 DEF AInv, JobOK, HasTrail, HasState
<1>3. QED
  BY <1>1, <1>2, QuietJob DEF Fails

LEMMA AnnounceAInv ==
  ASSUME AInv, NEW j \in Jobs, Announce(j)
  PROVE  AInv'
<1>1. PICK r \in JobType : job' = [job EXCEPT ![j] = r] /\ r.pc = "SUCCESS"
  BY EndsShape DEF Announce
<1>2. JobOK(j)'
  BY <1>1 DEF AInv, JobOK, HasTrail, HasState
<1>3. job[j].path \in Paths /\ files[job[j].path] # NoFile /\ Check(job[j].trail)
  BY DEF AInv, JobOK, Announce, At, HasTrail, HasState
<1>4. Check(job[j].trail) = TRUE
  BY <1>3 DEF Check, CheckAllowing
<1>5. announced' = announced \cup {[path |-> job[j].path, valid |-> TRUE]}
  BY <1>4 DEF Announce
<1>6. \A row \in announced' : row.path \in Paths /\ row.valid = TRUE /\ files[row.path] # NoFile
  BY <1>3, <1>5 DEF AInv
<1>7. UNCHANGED <<vars, files, second>> /\ world' = world
  BY DEF Announce, vars
<1>8. \A p \in Paths : FileOK(p)'
  BY <1>7 DEF AInv, FileOK, Issued, Trail
<1>9. QED
  BY <1>1, <1>2, <1>6, <1>7, <1>8, JobMoves DEF AInv

LEMMA WriteFileAInv ==
  ASSUME AInv, NEW j \in Jobs, WriteFile(j)
  PROVE  AInv'
<1> DEFINE o == job[j]
           q == <<o.asset, second>>
           f == Report(o.asset, o.by, o.trail, o.state, TRUE)
           r == [o EXCEPT !.pc = "written", !.path = q]
<1>1. /\ o \in JobType /\ JobOK(j) /\ o.pc = "pdf" /\ second \in 0..MaxSecond
      /\ o.asset \in Assets /\ o.by \in Auditors /\ o.asset \in Issued /\ Check(o.trail)
      /\ o.state \in FinancialAsset /\ IsPrefixOf(o.trail, o.state.provenance)
      /\ IsPrefixOf(o.state.provenance, Trail(o.asset)) /\ o.trail \in Seq(ProvenanceRecord)
      /\ IsPrefixOf(o.trail, Trail(o.asset))
  BY DEF AInv, WriteFile, At, JobOK, HasTrail, HasState, JobType
<1>2. Check(o.trail) = TRUE
  BY <1>1 DEF Check, CheckAllowing
<1>3. /\ files' = [files EXCEPT ![q] = f] /\ job' = [job EXCEPT ![j] = r]
      /\ UNCHANGED <<vars, announced, second>> /\ world' = world
  BY <1>2 DEF WriteFile, vars
<1> HIDE DEF o
<1>4. q \in Paths
  BY <1>1 DEF Paths
<1> HIDE DEF q
<1>5. /\ f \in Reports /\ f.valid = TRUE /\ f.asset = o.asset /\ f.trail = o.trail
      /\ f.state = o.state
  BY <1>1 DEF Report, Reports
<1>6. f # NoFile
  BY <1>5, AuditAssumption
<1>7. /\ r \in JobType /\ r.pc = "written" /\ r.path = q /\ r.asset = o.asset /\ r.by = o.by
      /\ r.trail = o.trail /\ r.state = o.state
  BY <1>1, <1>4 DEF JobType
<1> HIDE DEF f, r
<1>8. /\ files' \in [Paths -> Reports \cup {NoFile}] /\ files'[q] = f
      /\ \A p \in Paths \ {q} : files'[p] = files[p]
      /\ job'[j] = r
  BY <1>3, <1>4, <1>5 DEF AInv
<1>9. JobOK(j)'
  BY <1>1, <1>3, <1>4, <1>6, <1>7, <1>8 DEF JobOK, HasTrail, HasState, Issued, Trail
<1>10. ASSUME NEW p \in Paths PROVE FileOK(p)' /\ (files[p] # NoFile => files'[p] # NoFile)
  <2>1. CASE p = q
    BY <1>1, <1>3, <1>5, <1>6, <1>8, <2>1 DEF FileOK, Issued, Trail
  <2>2. CASE p # q
    BY <1>3, <1>8, <2>2 DEF AInv, FileOK, Issued, Trail
  <2>3. QED
    BY <2>1, <2>2
<1>11. QED
  BY <1>3, <1>7, <1>8, <1>9, <1>10, JobMoves DEF AInv

LEMMA StillAInv ==
  ASSUME AInv, Tick \/ UNCHANGED allVars
  PROVE  AInv'
<1>1. UNCHANGED <<vars, job, files, announced>> /\ second' \in 0..MaxSecond
  BY AuditAssumption DEF AInv, Tick, allVars, auditVars
<1>2. IInv' /\ world' = world
  BY <1>1, StepIInv DEF AInv, vars
<1>3. QED
  BY <1>1, <1>2 DEF AInv, JobOK, FileOK, Issued, Trail

LEMMA AStep == AInv /\ [ANext]_allVars => AInv' /\ [Next]_vars
<1> SUFFICES ASSUME AInv, [ANext]_allVars PROVE AInv' /\ [Next]_vars
  OBVIOUS
<1>1. ASSUME NEW j \in Jobs,
             \/ \E a \in Assets, by \in Auditors : Request(j, a, by)
             \/ ReadLedger(j) \/ Compile(j) \/ WriteFile(j) \/ Announce(j) \/ Fails(j)
      PROVE  AInv' /\ UNCHANGED vars
  <2>1. AInv'
    BY <1>1, RequestAInv, ReadLedgerAInv, CompileAInv, WriteFileAInv, AnnounceAInv, FailsAInv, SMTT(40)
  <2>2. UNCHANGED vars
    BY <1>1 DEF Request, ReadLedger, ReadTrail, ReadState, Compile, WriteFile, Announce, Fails
  <2>3. QED
    BY <2>1, <2>2
<1>2. CASE Next /\ UNCHANGED auditVars
  BY <1>2, LedgerMoves
<1>3. CASE Tick \/ UNCHANGED allVars
  BY <1>3, StillAInv DEF Tick, allVars
<1>4. QED
  BY <1>1, <1>2, <1>3 DEF ANext

LEMMA AInvAlways == ASpec => []AInv
BY AInitInv, AStep, PTL DEF ASpec

(* The audit pipeline reads the ledger and never writes it, so everything  *)
(* proved of the contract holds while reports are made.                    *)
THEOREM AuditOnlyReads == ASpec => Spec
<1>1. AInit => Init
  BY DEF AInit
<1>2. QED
  BY <1>1, AInvAlways, AStep, PTL DEF ASpec, Spec

(* _do_generate_audit: whatever commits between the task's two reads and   *)
(* whichever report overwrites another, a file shows a trail inside its    *)
(* state's, inside the ledger's.                                           *)
THEOREM ReportsConsistent == ASpec => []ReportsAreConsistent
<1>1. AInv => ReportsAreConsistent
  BY DEF AInv, FileOK, ReportsAreConsistent
<1>2. QED
  BY <1>1, AInvAlways, PTL

(* IntegrityChecker.check: no trail the chaincode can write is reported as *)
(* altered, and an announced path holds a file of that verdict.            *)
THEOREM NoFalseAlarms == ASpec => []NoFalseAlarm
<1>1. AInv => NoFalseAlarm
  BY DEF AInv, FileOK, NoFalseAlarm
<1>2. QED
  BY <1>1, AInvAlways, PTL
=============================================================================
