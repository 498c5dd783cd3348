------------------------- MODULE FabricLedgerProofs --------------------------
(***************************************************************************)
(* Endorse-then-validate implements the atomic contract, for any number of *)
(* assets, clients and concurrent transactions.                            *)
(*                                                                         *)
(* The invariant that carries the refinement is EndorsedIsFresh: a         *)
(* transaction that still passes validation was simulated on the present   *)
(* record of its asset, so its stored write is what the handler would      *)
(* write now.  It is inductive with the types because a commit increments  *)
(* the version of the key it writes and a handler looks at one key only.   *)
(* The client's calls, retries and circuit follow on top of it.            *)
(***************************************************************************)
EXTENDS FabricClient, ChaincodeProofs, FiniteSetTheorems, TLAPS

LIInv == LTypeOK /\ EndorsedIsFresh

LEMMA AnswerType ==
  ASSUME NEW w, NEW c \in Call
  PROVE  Answer(w, c) \in Answers
BY DEF Answer, TokenizeAnswer, TransferAnswer, FreezeAnswer, UnfreezeAnswer,
       Answers, Call, TokenizeCall, TransferCall, FreezeCall, UnfreezeCall

LEMMA CallAsset == \A c \in Call : c.asset \in Assets
BY DEF Call, TokenizeCall, TransferCall, FreezeCall, UnfreezeCall

(* The shape of a transaction, by its stage.                               *)
LEMMA TxnShape ==
  ASSUME NEW t \in Txn
  PROVE  /\ t.st \in {"free", "refused", "endorsed", "valid", "invalid"}
         /\ t.st \in {"endorsed", "valid", "invalid"} =>
              /\ t.call \in Call /\ t.read \in Nat
              /\ t.write \in FinancialAsset
              /\ \A s \in {"valid", "invalid"} : [t EXCEPT !.st = s] \in Txn
              /\ \A s \in {"valid", "invalid"} :
                   [t EXCEPT !.st = s].st = s /\ [t EXCEPT !.st = s].call = t.call
BY DEF Txn, NoTxn

LEMMA LInitIInv == LInit => LIInv
BY DEF LInit, LIInv, LTypeOK, EndorsedIsFresh, Txn, NoTxn

LEMMA EndorseIInv ==
  ASSUME LIInv, NEW tx \in TxIds, NEW c \in Call, Endorse(tx, c)
  PROVE  LIInv'
<1> DEFINE t == [st |-> "endorsed", call |-> c, read |-> version[c.asset],
                 write |-> Write(world, tx, c)]
<1>1. Write(world, tx, c) \in FinancialAsset /\ c.asset \in Assets
  BY WriteType, CallAsset DEF Endorse, LIInv, LTypeOK
<1>2. t \in Txn /\ t.st = "endorsed" /\ t.call = c
      /\ t.read = version[c.asset] /\ t.write = Write(world, tx, c)
  BY <1>1 DEF Txn, LIInv, LTypeOK
<1>3. txn' = [txn EXCEPT ![tx] = t] /\ UNCHANGED <<world, version>>
      /\ Answer(world, c) = "ok"
  BY DEF Endorse
<1> HIDE DEF t
<1>4. LTypeOK'
  BY <1>2, <1>3 DEF LIInv, LTypeOK
<1>5. EndorsedIsFresh'
  <2> SUFFICES ASSUME NEW x \in TxIds, txn'[x].st = "endorsed"
               PROVE  /\ txn'[x].read <= version'[txn'[x].call.asset]
                      /\ version'[txn'[x].call.asset] = txn'[x].read =>
                           /\ Answer(world', txn'[x].call) = "ok"
                           /\ txn'[x].write = Write(world', x, txn'[x].call)
    BY DEF EndorsedIsFresh, ReadIsCurrent
  <2>1. CASE x = tx
    BY <1>1, <1>2, <1>3, <2>1 DEF LIInv, LTypeOK
  <2>2. CASE x # tx
    <3>1. txn'[x] = txn[x]
      BY <1>3, <2>2 DEF LIInv, LTypeOK
    <3>2. QED
      BY <1>3, <3>1 DEF LIInv, EndorsedIsFresh, ReadIsCurrent
  <2>3. QED
    BY <2>1, <2>2
<1>6. QED
  BY <1>4, <1>5 DEF LIInv

LEMMA RefuseIInv ==
  ASSUME LIInv, NEW tx \in TxIds, NEW c \in Call, Refuse(tx, c)
  PROVE  LIInv'
<1> DEFINE t == [st |-> "refused", call |-> c, answer |-> Answer(world, c)]
<1>1. t \in Txn /\ t.st = "refused"
  BY AnswerType DEF Txn, Refuse
<1>2. txn' = [txn EXCEPT ![tx] = t] /\ UNCHANGED <<world, version>>
  BY DEF Refuse
<1> HIDE DEF t
<1>3. LTypeOK'
  BY <1>1, <1>2 DEF LIInv, LTypeOK
<1>4. EndorsedIsFresh'
  <2> SUFFICES ASSUME NEW x \in TxIds, txn'[x].st = "endorsed"
               PROVE  txn'[x] = txn[x]
    BY <1>2 DEF LIInv, EndorsedIsFresh, ReadIsCurrent
  <2>1. QED
    BY <1>1, <1>2 DEF LIInv, LTypeOK
<1>5. QED
  BY <1>3, <1>4 DEF LIInv

LEMMA CommitIInv ==
  ASSUME LIInv, NEW tx \in TxIds, Commit(tx)
  PROVE  LIInv'
<1> DEFINE t == txn[tx]
           u == [t EXCEPT !.st = "valid"]
           y == t.call.asset
<1>1. /\ t \in Txn /\ t.st = "endorsed" /\ t.call \in Call /\ y \in Assets
      /\ t.write \in FinancialAsset /\ u \in Txn /\ u.st = "valid"
  BY TxnShape, CallAsset DEF LIInv, LTypeOK, Commit
<1>2. /\ world' = [world EXCEPT ![y] = t.write]
      /\ version' = [version EXCEPT ![y] = @ + 1]
      /\ txn' = [txn EXCEPT ![tx] = u]
  BY DEF Commit
<1> HIDE DEF t, u, y
<1>3. LTypeOK'
  BY <1>1, <1>2 DEF LIInv, LTypeOK
<1>4. EndorsedIsFresh'
  <2> SUFFICES ASSUME NEW x \in TxIds, txn'[x].st = "endorsed"
               PROVE  /\ txn'[x].read <= version'[txn'[x].call.asset]
                      /\ version'[txn'[x].call.asset] = txn'[x].read =>
                           /\ Answer(world', txn'[x].call) = "ok"
                           /\ txn'[x].write = Write(world', x, txn'[x].call)
    BY DEF EndorsedIsFresh, ReadIsCurrent
  <2>1. x # tx /\ txn'[x] = txn[x]
    BY <1>1, <1>2 DEF LIInv, LTypeOK
  <2>2. /\ txn[x].call \in Call /\ txn[x].read \in Nat
        /\ txn[x].call.asset \in Assets
    BY <2>1, TxnShape, CallAsset DEF LIInv, LTypeOK
  <2>3. /\ txn[x].read <= version[txn[x].call.asset]
        /\ version[txn[x].call.asset] = txn[x].read =>
             /\ Answer(world, txn[x].call) = "ok"
             /\ txn[x].write = Write(world, x, txn[x].call)
    BY <2>1 DEF LIInv, EndorsedIsFresh, ReadIsCurrent
  <2>4. CASE txn[x].call.asset = y
    BY <1>1, <1>2, <2>1, <2>2, <2>3, <2>4 DEF LIInv, LTypeOK
  <2>5. CASE txn[x].call.asset # y
    <3>1. /\ world'[txn[x].call.asset] = world[txn[x].call.asset]
          /\ version'[txn[x].call.asset] = version[txn[x].call.asset]
      BY <1>1, <1>2, <2>2, <2>5 DEF LIInv, LTypeOK
    <3>2. /\ Answer(world', txn[x].call) = Answer(world, txn[x].call)
          /\ Write(world', x, txn[x].call) = Write(world, x, txn[x].call)
      BY <3>1, HandlerIsLocal
    <3>3. QED
      BY <2>1, <2>3, <3>1, <3>2
  <2>6. QED
    BY <2>4, <2>5
<1>5. QED
  BY <1>3, <1>4 DEF LIInv

LEMMA InvalidateIInv ==
  ASSUME LIInv, NEW tx \in TxIds, Invalidate(tx)
  PROVE  LIInv'
<1> DEFINE u == [txn[tx] EXCEPT !.st = "invalid"]
<1>1. u \in Txn /\ u.st = "invalid"
  BY TxnShape DEF LIInv, LTypeOK, Invalidate
<1>2. txn' = [txn EXCEPT ![tx] = u] /\ UNCHANGED <<world, version>>
  BY DEF Invalidate
<1> HIDE DEF u
<1>3. LTypeOK'
  BY <1>1, <1>2 DEF LIInv, LTypeOK
<1>4. EndorsedIsFresh'
  <2> SUFFICES ASSUME NEW x \in TxIds, txn'[x].st = "endorsed"
               PROVE  txn'[x] = txn[x]
    BY <1>2 DEF LIInv, EndorsedIsFresh, ReadIsCurrent
  <2>1. QED
    BY <1>1, <1>2 DEF LIInv, LTypeOK
<1>5. QED
  BY <1>3, <1>4 DEF LIInv

LEMMA LStepIInv == LIInv /\ [LNext]_lvars => LIInv'
<1> SUFFICES ASSUME LIInv, [LNext]_lvars
             PROVE  LIInv'
  OBVIOUS
<1>1. CASE LNext
  BY <1>1, EndorseIInv, RefuseIInv, CommitIInv, InvalidateIInv DEF LNext
<1>2. CASE UNCHANGED lvars
  BY <1>2 DEF lvars, LIInv, LTypeOK, EndorsedIsFresh, ReadIsCurrent
<1>3. QED
  BY <1>1, <1>2

LEMMA LIInvAlways == LSpec => []LIInv
BY LInitIInv, LStepIInv, PTL DEF LSpec

(* Types of the committed state and of every transaction.                  *)
THEOREM LedgerTypeCorrect == LSpec => []LTypeOK
<1>1. LIInv => LTypeOK
  BY DEF LIInv
<1>2. QED
  BY <1>1, LIInvAlways, PTL

(* Validation at commit is enough: an endorsed transaction that is still   *)
(* valid was simulated on the present record of its asset.                 *)
THEOREM FreshnessHolds == LSpec => []EndorsedIsFresh
<1>1. LIInv => EndorsedIsFresh
  BY DEF LIInv
<1>2. QED
  BY <1>1, LIInvAlways, PTL

(* No committed write is ever overwritten by one that did not see it: the  *)
(* version of a key is the length of its trail.                            *)
THEOREM NoLostUpdateHolds == LSpec => []NoLostUpdate
<1>1. LInit => NoLostUpdate
  BY DEF LInit, NoLostUpdate
<1>2. LIInv /\ NoLostUpdate /\ [LNext]_lvars => NoLostUpdate'
  <2> SUFFICES ASSUME LIInv, NoLostUpdate, [LNext]_lvars
               PROVE  NoLostUpdate'
    OBVIOUS
  <2>1. ASSUME NEW tx \in TxIds, Commit(tx)
        PROVE  NoLostUpdate'
    <3> DEFINE c == txn[tx].call
               b == Write(world, tx, c)
    <3>1. c \in Call /\ c.asset \in Assets /\ Answer(world, c) = "ok"
          /\ txn[tx].write = b
      BY <2>1, TxnShape, CallAsset
         DEF LIInv, LTypeOK, Commit, EndorsedIsFresh
    <3>2. /\ b \in FinancialAsset
          /\ Len(b.provenance) = IF world[c.asset] = NoAsset THEN 1
                                 ELSE Len(world[c.asset].provenance) + 1
      BY <3>1, WriteType DEF LIInv, LTypeOK
    <3>3. /\ world' = [world EXCEPT ![c.asset] = b]
          /\ version' = [version EXCEPT ![c.asset] = @ + 1]
      BY <2>1, <3>1 DEF Commit
    <3> HIDE DEF b, c
    <3>4. b # NoAsset
      BY <3>2, NoAssetAssumption
    <3>5. version[c.asset] = IF world[c.asset] = NoAsset THEN 0
                             ELSE Len(world[c.asset].provenance)
      BY <3>1 DEF NoLostUpdate
    <3> SUFFICES ASSUME NEW id \in Assets
                 PROVE  version'[id] = IF world'[id] = NoAsset THEN 0
                                       ELSE Len(world'[id].provenance)
      BY DEF NoLostUpdate
    <3>6. CASE id = c.asset
      BY <3>1, <3>2, <3>3, <3>4, <3>5, <3>6 DEF LIInv, LTypeOK
    <3>7. CASE id # c.asset
      BY <3>1, <3>3, <3>7 DEF LIInv, LTypeOK, NoLostUpdate
    <3>8. QED
      BY <3>6, <3>7
  <2>2. CASE UNCHANGED <<world, version>>
    BY <2>2 DEF NoLostUpdate
  <2>3. QED
    BY <2>1, <2>2 DEF LNext, lvars, Endorse, Refuse, Invalidate
<1>3. QED
  BY <1>1, <1>2, LIInvAlways, PTL DEF LSpec

-----------------------------------------------------------------------------
(* The instance AC holds a copy of the chaincode's operators, with the     *)
(* same constants: they are the same operators.                            *)
LEMMA SameCalls ==
  /\ AC!TokenizeCall = TokenizeCall /\ AC!TransferCall = TransferCall
  /\ AC!FreezeCall = FreezeCall /\ AC!UnfreezeCall = UnfreezeCall
BY DEF TokenizeCall, TransferCall, FreezeCall, UnfreezeCall,
       AC!TokenizeCall, AC!TransferCall, AC!FreezeCall, AC!UnfreezeCall

LEMMA SameRole ==
  ASSUME NEW client, NEW fn
  PROVE  AC!verifyRole(client, fn) = verifyRole(client, fn)
BY DEF verifyRole, authorisedMSPs, AC!verifyRole, AC!authorisedMSPs

LEMMA SameAnswer ==
  ASSUME NEW w, NEW c
  PROVE  AC!Answer(w, c) = Answer(w, c)
<1>1. AC!TokenizeAnswer(w, c) = TokenizeAnswer(w, c)
  BY SameRole DEF TokenizeAnswer, assetExists, AC!TokenizeAnswer,
                  AC!assetExists
<1>2. AC!TransferAnswer(w, c) = TransferAnswer(w, c)
  BY SameRole DEF TransferAnswer, assetExists, RequireActiveAsset,
                  AC!TransferAnswer, AC!assetExists, AC!RequireActiveAsset
<1>3. AC!FreezeAnswer(w, c) = FreezeAnswer(w, c)
  BY SameRole DEF FreezeAnswer, assetExists, AC!FreezeAnswer, AC!assetExists
<1>4. AC!UnfreezeAnswer(w, c) = UnfreezeAnswer(w, c)
  BY SameRole DEF UnfreezeAnswer, assetExists, RequireFrozenAsset,
                  AC!UnfreezeAnswer, AC!assetExists, AC!RequireFrozenAsset
<1>5. QED
  BY <1>1, <1>2, <1>3, <1>4 DEF Answer, AC!Answer

LEMMA SameWrite ==
  ASSUME NEW w, NEW tx, NEW c
  PROVE  AC!Write(w, tx, c) = Write(w, tx, c)
BY DEF Write, TokenizeWrite, TransferWrite, FreezeWrite, UnfreezeWrite, Record,
       AC!Write, AC!TokenizeWrite, AC!TransferWrite, AC!FreezeWrite,
       AC!UnfreezeWrite, AC!Record

LEMMA SameEvent ==
  ASSUME NEW c
  PROVE  AC!Event(c) = Event(c)
BY DEF Event, SetEvents, CheckMiCAThreshold,
       AC!Event, AC!SetEvents, AC!CheckMiCAThreshold

(* A commit is the atomic run of the call's handler.                       *)
LEMMA CommitIsApply ==
  ASSUME LIInv, NEW tx \in TxIds, Commit(tx)
  PROVE  AC!Next
<1> DEFINE c == txn[tx].call
           u == [txn[tx] EXCEPT !.st = "valid"]
<1>1. /\ c \in Call /\ Answer(world, c) = "ok"
      /\ txn[tx].write = Write(world, tx, c) /\ txn[tx].st = "endorsed"
      /\ u.st = "valid" /\ u.call = c
  BY TxnShape DEF LIInv, LTypeOK, Commit, EndorsedIsFresh
<1>2. world' = [world EXCEPT ![c.asset] = Write(world, tx, c)]
  BY <1>1 DEF Commit
<1>3. txn' = [txn EXCEPT ![tx] = u]
  BY DEF Commit
<1>4. committedEvents[tx] = "none"
  BY <1>1 DEF committedEvents
<1> HIDE DEF u
<1>5. committedEvents' = [committedEvents EXCEPT ![tx] = Event(c)]
  <2>1. \A x \in TxIds : txn'[x] = IF x = tx THEN u ELSE txn[x]
    BY <1>3 DEF LIInv, LTypeOK
  <2>2. \A x \in TxIds : committedEvents'[x] =
          IF x = tx THEN Event(c) ELSE committedEvents[x]
    BY <1>1, <2>1 DEF committedEvents
  <2> HIDE DEF c
  <2>3. QED
    BY <2>2 DEF committedEvents
<1> HIDE DEF c
<1>6. AC!Apply(tx, c)
  BY <1>1, <1>2, <1>4, <1>5, SameAnswer, SameWrite, SameEvent DEF AC!Apply
<1>7. QED
  BY <1>1, <1>6, SameCalls
     DEF AC!Next, AC!TokenizeAsset, AC!TransferAsset,
         AC!FreezeAsset, AC!UnfreezeAsset, Call

(* Every other step leaves the committed state and its events alone.       *)
LEMMA OtherStepsStutter ==
  ASSUME LIInv, NEW tx \in TxIds,
         \/ \E c \in Call : Endorse(tx, c)
         \/ \E c \in Call : Refuse(tx, c)
         \/ Invalidate(tx)
  PROVE  UNCHANGED <<world, committedEvents>>
<1>1. UNCHANGED world
  BY DEF Endorse, Refuse, Invalidate
<1>2. \E t : txn' = [txn EXCEPT ![tx] = t] /\ t.st # "valid"
  <2>1. CASE \E c \in Call : Endorse(tx, c)
    <3>1. PICK c \in Call : Endorse(tx, c)
      BY <2>1
    <3> DEFINE u == [st |-> "endorsed", call |-> c,
                     read |-> version[c.asset], write |-> Write(world, tx, c)]
    <3>2. txn' = [txn EXCEPT ![tx] = u] /\ u.st = "endorsed"
      BY <3>1 DEF Endorse
    <3> HIDE DEF u
    <3>3. QED
      BY <3>2
  <2>2. CASE \E c \in Call : Refuse(tx, c)
    <3>1. PICK c \in Call : Refuse(tx, c)
      BY <2>2
    <3> DEFINE u == [st |-> "refused", call |-> c, answer |-> Answer(world, c)]
    <3>2. txn' = [txn EXCEPT ![tx] = u] /\ u.st = "refused"
      BY <3>1 DEF Refuse
    <3> HIDE DEF u
    <3>3. QED
      BY <3>2
  <2>3. CASE Invalidate(tx)
    <3> DEFINE u == [txn[tx] EXCEPT !.st = "invalid"]
    <3>1. txn' = [txn EXCEPT ![tx] = u] /\ u.st = "invalid"
      BY <2>3, TxnShape DEF Invalidate, LIInv, LTypeOK
    <3> HIDE DEF u
    <3>2. QED
      BY <3>1
  <2>4. QED
    BY <2>1, <2>2, <2>3
<1>3. txn[tx].st # "valid"
  BY DEF Endorse, Refuse, Invalidate, NoTxn
<1>4. \A x \in TxIds : (txn'[x].st = "valid" <=> txn[x].st = "valid")
                       /\ (txn[x].st = "valid" => txn'[x] = txn[x])
  BY <1>2, <1>3 DEF LIInv, LTypeOK
<1>5. committedEvents' = committedEvents
  BY <1>4 DEF committedEvents
<1>6. QED
  BY <1>1, <1>5

(* Fabric's concurrent execution implements the atomic asset contract.     *)
THEOREM Refinement == LSpec => Serializable
<1>1. LInit => AC!Init
  BY DEF LInit, AC!Init, committedEvents, NoTxn
<1>2. LIInv /\ [LNext]_lvars => [AC!Next]_(AC!vars)
  <2> SUFFICES ASSUME LIInv, [LNext]_lvars
               PROVE  AC!Next \/ UNCHANGED AC!vars
    OBVIOUS
  <2>1. CASE LNext
    BY <2>1, CommitIsApply, OtherStepsStutter DEF LNext, AC!vars
  <2>2. CASE UNCHANGED lvars
    BY <2>2 DEF lvars, AC!vars, committedEvents
  <2>3. QED
    BY <2>1, <2>2
<1>3. QED
  BY <1>1, <1>2, LIInvAlways, PTL DEF LSpec, Serializable, AC!Spec


-----------------------------------------------------------------------------
(***************************************************************************)
(* submit_transaction and its retries, on top of the ledger.               *)
(*                                                                         *)
(* CallOK: a call's present attempt is a process of its own, and a call    *)
(* that never timed out has started no other.  TxOK: a transaction carries *)
(* the request of the call that started it.  Counts: the committed         *)
(* tokenisations, freezes and unfreezes of an asset, against its state.    *)
(***************************************************************************)
CallOK(k) ==
  /\ pc[k] = "backoff" => attempt[k] < MaxAttempts
  /\ pc[k] \in {"running", "returned"} => cur[k] \in TxIds /\ spawned[cur[k]] = k
  /\ pc[k] = "returned" => txn[cur[k]].st = "valid"
  /\ attempt[k] = 1 =>
       \A tx \in TxIds : spawned[tx] = k => tx = cur[k] /\ pc[k] \notin {"idle", "ready"}
  /\ pc[k] = "raised" /\ err[k] \in Verdicts =>
       cur[k] \in TxIds /\ txn[cur[k]].st = "refused"

TxOK(tx) ==
  txn[tx].st # "free" => spawned[tx] \in Calls /\ txn[tx].call = req[spawned[tx]]

(* The committed transactions of function fn on asset id.                  *)
Done(id, fn) ==
  {tx \in TxIds : /\ txn[tx].st = "valid" /\ txn[tx].call.fn = fn
                  /\ txn[tx].call.asset = id}

Frozen(id) == world[id] # NoAsset /\ world[id].status = "GELE"

Counts(id) ==
  /\ \A fn \in {"TokenizeAsset", "FreezeAsset", "UnfreezeAsset"} : IsFiniteSet(Done(id, fn))
  /\ Cardinality(Done(id, "TokenizeAsset")) = IF world[id] = NoAsset THEN 0 ELSE 1
  /\ Cardinality(Done(id, "FreezeAsset")) =
       Cardinality(Done(id, "UnfreezeAsset")) + (IF Frozen(id) THEN 1 ELSE 0)

FCInv ==
  /\ TypeOK /\ EndorsedIsFresh /\ CircuitMatchesCount
  /\ \A k \in Calls : CallOK(k)
  /\ \A tx \in TxIds : TxOK(tx)
  /\ \A id \in Assets : Counts(id)

LEMMA FCInit == Init => FCInv
<1> SUFFICES ASSUME Init PROVE FCInv
  OBVIOUS
<1>1. LTypeOK /\ EndorsedIsFresh
  BY LInitIInv DEF Init, LIInv
<1>2. TypeOK
  <2>1. /\ failure_count = 0 /\ first_failure_time = 0 /\ circuit_open = FALSE
        /\ circuit_open_time = 0 /\ now = 0 /\ 0 \in 0..now /\ now \in 0..MaxTime
        /\ 1 \in 1..MaxAttempts
    BY RetryAssumption DEF Init
  <2>2. /\ pc \in [Calls -> PcSet] /\ req \in [Calls -> Requests]
        /\ cur \in [Calls -> TxIds \cup {NoTx}] /\ spawned \in [TxIds -> Calls \cup {NoTx}]
        /\ err \in [Calls -> Errors] /\ attempt \in [Calls -> 1..MaxAttempts]
    BY <2>1 DEF Init, PcSet, Errors
  <2>3. QED
    BY <1>1, <2>1, <2>2 DEF TypeOK
<1>3. CircuitMatchesCount
  BY RetryAssumption DEF Init, CircuitMatchesCount
<1>4. \A tx \in TxIds : txn[tx].st = "free" /\ spawned[tx] = NoTx
  BY DEF Init, LInit, NoTxn
<1>5. \A k \in Calls : CallOK(k)
  BY <1>4, RetryAssumption DEF Init, CallOK, Verdicts
<1>6. ASSUME NEW id \in Assets PROVE Counts(id)
  <2>1. \A fn : Done(id, fn) = {}
    BY <1>4 DEF Done
  <2>2. world[id] = NoAsset
    BY DEF Init, LInit
  <2>3. QED
    BY <2>1, <2>2, FS_EmptySet DEF Counts, Frozen
<1>7. QED
  BY <1>1, <1>2, <1>3, <1>4, <1>5, <1>6 DEF FCInv, TxOK

(* A step that leaves the ledger alone keeps what is said of it.           *)
LEMMA LedgerStill ==
  ASSUME FCInv, UNCHANGED lvars
  PROVE  LTypeOK' /\ EndorsedIsFresh' /\ \A id \in Assets : Counts(id)'
<1>1. world' = world /\ version' = version /\ txn' = txn
  BY DEF lvars
<1>2. \A id, fn : Done(id, fn)' = Done(id, fn)
  BY <1>1 DEF Done
<1>3. \A id \in Assets : Counts(id)'
  BY <1>1, <1>2 DEF FCInv, Counts, Frozen
<1>4. QED
  BY <1>1, <1>3 DEF FCInv, TypeOK, LTypeOK, EndorsedIsFresh, ReadIsCurrent

(* Everything a step of one call's coroutine must show, the circuit apart. *)
Coroutine(k) ==
  /\ UNCHANGED <<lvars, now, req>>
  /\ pc' \in [Calls -> PcSet] /\ attempt' \in [Calls -> 1..MaxAttempts]
  /\ cur' \in [Calls -> TxIds \cup {NoTx}] /\ err' \in [Calls -> Errors]
  /\ \A j \in Calls \ {k} : /\ pc'[j] = pc[j] /\ attempt'[j] = attempt[j]
                            /\ cur'[j] = cur[j] /\ err'[j] = err[j]

Circuit ==
  /\ failure_count' \in Nat /\ first_failure_time' \in 0..now
  /\ circuit_open' \in BOOLEAN /\ circuit_open_time' \in 0..now
  /\ CircuitMatchesCount'

LEMMA CoroutineFCInv ==
  ASSUME FCInv, NEW k \in Calls, Coroutine(k), Circuit, UNCHANGED spawned, CallOK(k)'
  PROVE  FCInv'
<1>1. LTypeOK' /\ EndorsedIsFresh' /\ \A id \in Assets : Counts(id)'
  BY LedgerStill DEF Coroutine
<1>2. txn' = txn /\ now' = now /\ req' = req
  BY DEF Coroutine, lvars
<1>3. TypeOK'
  BY <1>1, <1>2 DEF Coroutine, Circuit, FCInv, TypeOK
<1>4. ASSUME NEW j \in Calls PROVE CallOK(j)'
  <2>1. CASE j # k
    BY <1>2, <2>1 DEF Coroutine, FCInv, CallOK
  <2>2. QED
    BY <2>1
<1>5. \A tx \in TxIds : TxOK(tx)'
  BY <1>2 DEF FCInv, TxOK
<1>6. QED
  BY <1>1, <1>3, <1>4, <1>5 DEF FCInv, Circuit


(* What the types say of the circuit and of one call.                      *)
LEMMA FCFacts ==
  ASSUME FCInv
  PROVE  /\ failure_count \in Nat /\ first_failure_time \in 0..now
         /\ circuit_open \in BOOLEAN /\ circuit_open_time \in 0..now /\ now \in Nat
         /\ CircuitMatchesCount /\ CbThreshold \in Nat \ {0}
         /\ pc \in [Calls -> PcSet] /\ attempt \in [Calls -> 1..MaxAttempts]
         /\ cur \in [Calls -> TxIds \cup {NoTx}] /\ err \in [Calls -> Errors]
         /\ \A k \in Calls : CallOK(k) /\ attempt[k] \in 1..MaxAttempts
BY RetryAssumption DEF FCInv, TypeOK

LEMMA CircuitStill == FCInv /\ UNCHANGED cbvars => Circuit
BY FCFacts DEF cbvars, Circuit, CircuitMatchesCount

LEMMA CountFailureFacts ==
  ASSUME FCInv, CountFailure
  PROVE  /\ failure_count' \in Nat \ {0} /\ first_failure_time' \in 0..now
         /\ ~circuit_open => now - first_failure_time' <= CbTimeout
<1>1. CbTimeout \in Nat
  BY RetryAssumption
<1>2. CASE NewBurst
  BY <1>1, <1>2, FCFacts DEF CountFailure
<1>3. CASE ~NewBurst
  BY <1>1, <1>3, FCFacts DEF CountFailure, NewBurst
<1>4. QED
  BY <1>2, <1>3

LEMMA EnterClosedFC ==
  ASSUME FCInv, NEW k \in Calls, EnterClosed(k)
  PROVE  FCInv'
<1>1. Coroutine(k)
  BY FCFacts DEF EnterClosed, Coroutine, PcSet
<1>2. Circuit
  <2>1. /\ circuit_open' = FALSE /\ UNCHANGED <<first_failure_time, circuit_open_time>>
        /\ failure_count' \in Nat /\ failure_count' < CbThreshold
    BY FCFacts DEF EnterClosed, CircuitMatchesCount
  <2>2. CircuitMatchesCount' /\ failure_count' \in Nat
    BY <2>1, FCFacts DEF CircuitMatchesCount
  <2>3. circuit_open' \in BOOLEAN
    BY <2>1
  <2>4. QED
    BY <2>1, <2>2, <2>3, FCFacts DEF Circuit
<1>3. CallOK(k)'
  <2>1. pc'[k] = "ready" /\ UNCHANGED <<attempt, cur, spawned, err>> /\ pc[k] = "idle"
    BY FCFacts DEF EnterClosed
  <2>2. QED
    BY <2>1, FCFacts DEF CallOK
<1>4. QED
  BY <1>1, <1>2, <1>3, CoroutineFCInv DEF EnterClosed

LEMMA EnterOpenFC ==
  ASSUME FCInv, NEW k \in Calls, EnterOpen(k)
  PROVE  FCInv'
<1>1. Coroutine(k)
  BY FCFacts DEF EnterOpen, Coroutine, Raise, PcSet, Errors
<1>2. Circuit
  BY CircuitStill DEF EnterOpen
<1>3. CallOK(k)'
  <2>1. /\ pc'[k] = "raised" /\ UNCHANGED <<attempt, cur, spawned>> /\ pc[k] = "idle"
        /\ err'[k] = "CircuitBreakerOpenError"
    BY FCFacts DEF EnterOpen, Raise
  <2>2. QED
    BY <2>1, FCFacts DEF CallOK, Verdicts
<1>4. QED
  BY <1>1, <1>2, <1>3, CoroutineFCInv DEF EnterOpen

LEMMA SpawnFC ==
  ASSUME FCInv, NEW k \in Calls, Spawn(k)
  PROVE  FCInv'
<1> DEFINE n == NextTx
<1>1. n \in TxIds /\ spawned[n] = NoTx
  BY DEF Spawn, NextTx
<1>2. /\ pc[k] = "ready" /\ spawned' = [spawned EXCEPT ![n] = k]
      /\ cur' = [cur EXCEPT ![k] = n] /\ pc' = [pc EXCEPT ![k] = "running"]
      /\ UNCHANGED <<lvars, cbvars, now, req, attempt, err>>
  BY DEF Spawn
<1> HIDE DEF n
<1>3. /\ spawned \in [TxIds -> Calls \cup {NoTx}] /\ NoTx \notin Calls
      /\ \A tx \in TxIds : TxOK(tx)
  BY RetryAssumption DEF FCInv, TypeOK
<1>4. LTypeOK' /\ EndorsedIsFresh' /\ \A id \in Assets : Counts(id)'
  BY <1>2, LedgerStill
<1>5. TypeOK' /\ CircuitMatchesCount'
  BY <1>1, <1>2, <1>3, <1>4, FCFacts DEF FCInv, TypeOK, cbvars, PcSet, CircuitMatchesCount
<1>6. \A tx \in TxIds : TxOK(tx)'
  BY <1>1, <1>2, <1>3 DEF TxOK, lvars
<1>7. ASSUME NEW j \in Calls PROVE CallOK(j)'
  <2>1. CallOK(j)
    BY FCFacts
  <2>2. CASE j = k
    <3>1. pc'[k] = "running" /\ cur'[k] = n /\ spawned'[n] = k /\ attempt' = attempt
      BY <1>1, <1>2, <1>3, FCFacts
    <3>2. \A tx \in TxIds \ {n} : spawned'[tx] = spawned[tx]
      BY <1>2, <1>3
    <3>3. QED
      BY <1>1, <1>2, <2>1, <2>2, <3>1, <3>2 DEF CallOK
  <2>3. CASE j # k
    <3>1. /\ pc'[j] = pc[j] /\ cur'[j] = cur[j] /\ err' = err /\ attempt' = attempt /\ txn' = txn
      BY <1>2, <2>3, FCFacts DEF lvars
    <3>2. \A tx \in TxIds : spawned'[tx] = j <=> spawned[tx] = j
      BY <1>1, <1>2, <1>3, <2>3
    <3>3. QED
      BY <2>1, <3>1, <3>2 DEF CallOK
  <2>4. QED
    BY <2>2, <2>3
<1>8. QED
  BY <1>4, <1>5, <1>6, <1>7 DEF FCInv

LEMMA ReturnFC ==
  ASSUME FCInv, NEW k \in Calls, Return(k)
  PROVE  FCInv'
<1>1. Coroutine(k)
  BY FCFacts DEF Return, Coroutine, PcSet
<1>2. Circuit
  <2>1. /\ circuit_open' = FALSE /\ UNCHANGED <<first_failure_time, circuit_open_time>>
        /\ failure_count' = 0
    BY FCFacts DEF Return, CircuitMatchesCount
  <2>2. CircuitMatchesCount' /\ failure_count' \in Nat
    BY <2>1, FCFacts DEF CircuitMatchesCount
  <2>3. circuit_open' \in BOOLEAN
    BY <2>1
  <2>4. QED
    BY <2>1, <2>2, <2>3, FCFacts DEF Circuit
<1>3. CallOK(k)'
  <2>1. /\ pc'[k] = "returned" /\ UNCHANGED <<attempt, cur, spawned, err, txn>>
        /\ pc[k] = "running" /\ txn[cur[k]].st = "valid"
    BY FCFacts DEF Return, lvars
  <2>2. QED
    BY <2>1, FCFacts DEF CallOK
<1>4. QED
  BY <1>1, <1>2, <1>3, CoroutineFCInv DEF Return

(* The call raises after its process ended, or after it was abandoned.     *)
LEMMA RaiseFC ==
  ASSUME FCInv, NEW k \in Calls, NEW e \in Errors, Raise(k, e), Circuit, pc[k] = "running",
         UNCHANGED <<lvars, now, req, attempt, cur, spawned>>,
         e \in Verdicts => txn[cur[k]].st = "refused"
  PROVE  FCInv'
<1>1. Coroutine(k)
  BY FCFacts DEF Raise, Coroutine, PcSet
<1>2. CallOK(k)'
  <2>1. pc'[k] = "raised" /\ err'[k] = e /\ txn' = txn
    BY FCFacts DEF Raise, lvars
  <2>2. QED
    BY <2>1, FCFacts DEF CallOK
<1>3. QED
  BY <1>1, <1>2, CoroutineFCInv

LEMMA EndedFC ==
  ASSUME FCInv, NEW k \in Calls, ReturnUnreadable(k) \/ Fail(k)
  PROVE  FCInv'
<1>1. Circuit
  BY CircuitStill DEF ReturnUnreadable, Fail
<1>2. CASE ReturnUnreadable(k)
  BY <1>1, <1>2, RaiseFC DEF ReturnUnreadable, Errors, Verdicts
<1>3. CASE Fail(k)
  <2>1. "FabricEndorsementError" \in Errors \ Verdicts
    BY DEF Verdicts, Errors
  <2>2. \A a : Classify(a) \in Errors
    BY DEF Classify, Errors
  <2>3. PICK e \in Errors : /\ Raise(k, e)
                            /\ e \in Verdicts => txn[cur[k]].st = "refused"
    BY <1>3, <2>1, <2>2 DEF Fail
  <2>4. QED
    BY <1>1, <1>3, <2>3, RaiseFC DEF Fail
<1>4. QED
  BY <1>2, <1>3

LEMMA TimeoutFC ==
  ASSUME FCInv, NEW k \in Calls, TimeoutTrips(k) \/ TimeoutGivesUp(k) \/ TimeoutRetries(k)
  PROVE  FCInv'
<1>1. /\ failure_count' \in Nat \ {0} /\ first_failure_time' \in 0..now
      /\ pc[k] = "running"
  BY CountFailureFacts DEF TimeoutTrips, TimeoutGivesUp, TimeoutRetries
<1>2. CASE TimeoutTrips(k)
  <2>1. Circuit
    BY <1>1, <1>2, FCFacts DEF TimeoutTrips, Circuit, CircuitMatchesCount
  <2>2. QED
    BY <1>2, <2>1, RaiseFC DEF TimeoutTrips, Errors, Verdicts
<1>3. ASSUME TimeoutGivesUp(k) \/ TimeoutRetries(k) PROVE Circuit
  <2>1. UNCHANGED <<circuit_open, circuit_open_time>> /\ failure_count' < CbThreshold
    BY <1>3 DEF TimeoutGivesUp, TimeoutRetries
  <2>2. circuit_open = FALSE
    <3>1. CASE NewBurst
      BY <1>3, <2>1, <3>1, FCFacts DEF NewBurst, CircuitMatchesCount
    <3>2. CASE ~NewBurst
      <4>1. failure_count' = failure_count + 1
        BY <1>3, <3>2 DEF TimeoutGivesUp, TimeoutRetries, CountFailure
      <4>2. QED
        BY <2>1, <4>1, FCFacts DEF CircuitMatchesCount
    <3>3. QED
      BY <3>1, <3>2
  <2>3. QED
    BY <1>1, <2>1, <2>2, FCFacts DEF Circuit, CircuitMatchesCount
<1>4. CASE TimeoutGivesUp(k)
  BY <1>3, <1>4, RaiseFC DEF TimeoutGivesUp, Errors, Verdicts
<1>5. CASE TimeoutRetries(k)
  <2>1. Coroutine(k)
    BY <1>5, FCFacts DEF TimeoutRetries, Coroutine, PcSet
  <2>2. CallOK(k)'
    <3>1. /\ pc'[k] = "backoff" /\ UNCHANGED <<attempt, cur, spawned, err>> /\ pc[k] = "running"
          /\ attempt[k] < MaxAttempts
      BY <1>5, FCFacts DEF TimeoutRetries
    <3>2. QED
      BY <3>1, FCFacts DEF CallOK
  <2>3. QED
    BY <1>3, <1>5, <2>1, <2>2, CoroutineFCInv DEF TimeoutRetries
<1>6. QED
  BY <1>2, <1>4, <1>5

LEMMA WakeUpFC ==
  ASSUME FCInv, NEW k \in Calls, WakeUp(k)
  PROVE  FCInv'
<1>1. /\ pc'[k] = "ready" /\ attempt'[k] = attempt[k] + 1 /\ attempt[k] < MaxAttempts
      /\ attempt[k] \in 1..MaxAttempts /\ MaxAttempts \in Nat
  BY FCFacts, RetryAssumption DEF WakeUp, CallOK
<1>2. attempt[k] + 1 \in 1..MaxAttempts /\ attempt[k] + 1 # 1
  BY <1>1
<1>3. Coroutine(k)
  BY <1>2, FCFacts DEF WakeUp, Coroutine, PcSet
<1>4. Circuit
  BY CircuitStill DEF WakeUp
<1>5. CallOK(k)'
  BY <1>1, <1>2 DEF CallOK
<1>6. QED
  BY <1>3, <1>4, <1>5, CoroutineFCInv DEF WakeUp


(* A step of the network leaves the answers alone: what was settled stays  *)
(* settled, and a transaction that appears carries its call's request.     *)
LEMMA NetworkFC ==
  ASSUME FCInv, UNCHANGED <<cbvars, now, callvars>>, LIInv',
         NEW tx \in TxIds, spawned[tx] \in Calls, NEW t,
         txn' = [txn EXCEPT ![tx] = t],
         txn[tx].st \in {"free", "endorsed"},
         t.call = req[spawned[tx]],
         \A id \in Assets : Counts(id)'
  PROVE  FCInv'
<1>1. /\ UNCHANGED <<pc, req, attempt, cur, spawned, err, now, failure_count,
                     first_failure_time, circuit_open, circuit_open_time>>
      /\ txn \in [TxIds -> Txn]
  BY DEF callvars, cbvars, FCInv, TypeOK, LTypeOK
<1>2. TypeOK' /\ EndorsedIsFresh' /\ CircuitMatchesCount'
  BY <1>1 DEF LIInv, FCInv, TypeOK, CircuitMatchesCount
<1>3. ASSUME NEW k \in Calls PROVE CallOK(k)'
  <2>1. CallOK(k)
    BY FCFacts
  <2>2. ASSUME NEW x \in TxIds, txn[x].st \in {"valid", "refused", "invalid"}
        PROVE  txn'[x] = txn[x]
    BY <1>1, <2>2
  <2>3. QED
    BY <1>1, <2>1, <2>2 DEF CallOK
<1>4. ASSUME NEW x \in TxIds PROVE TxOK(x)'
  <2>1. TxOK(x)
    BY DEF FCInv
  <2>2. CASE x = tx
    BY <1>1, <2>2 DEF TxOK
  <2>3. CASE x # tx
    BY <1>1, <2>1, <2>3 DEF TxOK
  <2>4. QED
    BY <2>2, <2>3
<1>5. QED
  BY <1>2, <1>3, <1>4 DEF FCInv

(* Only a commit changes the committed transactions.                       *)
LEMMA UncommittedCounts ==
  ASSUME FCInv, NEW tx \in TxIds, NEW t, txn' = [txn EXCEPT ![tx] = t],
         txn[tx].st # "valid", t.st # "valid", UNCHANGED world
  PROVE  \A id \in Assets : Counts(id)'
<1>1. txn \in [TxIds -> Txn]
  BY DEF FCInv, TypeOK, LTypeOK
<1>2. \A id, fn : Done(id, fn)' = Done(id, fn)
  BY <1>1 DEF Done
<1>3. QED
  BY <1>2 DEF FCInv, Counts, Frozen

(* What an accepted write does to the state of its asset.                  *)
LEMMA WriteStatus ==
  ASSUME NEW w \in [Assets -> FinancialAsset \cup {NoAsset}],
         NEW tx \in TxIds, NEW c \in Call, Answer(w, c) = "ok"
  PROVE  LET b == Write(w, tx, c) IN
         /\ b # NoAsset
         /\ \/ c.fn = "TokenizeAsset" /\ w[c.asset] = NoAsset /\ b.status = "ACTIF"
            \/ /\ c.fn = "TransferAsset" /\ w[c.asset] # NoAsset
               /\ w[c.asset].status = "ACTIF" /\ b.status = "ACTIF"
            \/ /\ c.fn = "FreezeAsset" /\ w[c.asset] # NoAsset
               /\ w[c.asset].status # "GELE" /\ b.status = "GELE"
            \/ /\ c.fn = "UnfreezeAsset" /\ w[c.asset] # NoAsset
               /\ w[c.asset].status = "GELE" /\ b.status = "ACTIF"
<1> DEFINE a == w[c.asset]
<1>1. c.asset \in Assets /\ Write(w, tx, c) # NoAsset
  BY Accepted, WriteType, NoAssetAssumption
<1>2. CASE c \in TokenizeCall /\ a = NoAsset
  <2>1. TokenizeWrite(tx, c).status = "ACTIF"
    BY <1>2, TokenizeFields
  <2>2. QED
    BY <1>1, <1>2, <2>1 DEF Write, TokenizeCall
<1>3. CASE c \in TransferCall /\ a # NoAsset /\ RequireActiveAsset(a)
  <2>1. TransferWrite(a, tx, c).status = a.status
    BY <1>1, <1>3, TransferFields
  <2>2. QED
    BY <1>1, <1>3, <2>1 DEF Write, TransferCall, RequireActiveAsset
<1>4. CASE c \in FreezeCall /\ a # NoAsset /\ a.status # "GELE"
  <2>1. FreezeWrite(a, tx, c).status = "GELE"
    BY <1>1, <1>4, FreezeFields
  <2>2. QED
    BY <1>1, <1>4, <2>1 DEF Write, FreezeCall
<1>5. CASE c \in UnfreezeCall /\ a # NoAsset /\ RequireFrozenAsset(a)
  <2>1. UnfreezeWrite(a, tx, c).status = "ACTIF"
    BY <1>1, <1>5, UnfreezeFields
  <2>2. QED
    BY <1>1, <1>5, <2>1 DEF Write, UnfreezeCall, RequireFrozenAsset
<1>6. QED
  BY <1>2, <1>3, <1>4, <1>5, Accepted

LEMMA CommitCounts ==
  ASSUME FCInv, NEW tx \in TxIds, Commit(tx)
  PROVE  \A id \in Assets : Counts(id)'
<1> DEFINE t == txn[tx]
           u == [t EXCEPT !.st = "valid"]
           y == t.call.asset
           b == t.write
<1>1. /\ t \in Txn /\ t.st = "endorsed" /\ t.call \in Call /\ y \in Assets
      /\ u.st = "valid" /\ u.call = t.call /\ txn \in [TxIds -> Txn]
      /\ world \in [Assets -> FinancialAsset \cup {NoAsset}]
  <2>1. /\ t \in Txn /\ t.st = "endorsed" /\ txn \in [TxIds -> Txn]
        /\ world \in [Assets -> FinancialAsset \cup {NoAsset}]
    BY DEF FCInv, TypeOK, LTypeOK, Commit
  <2> HIDE DEF t
  <2>2. t.call \in Call /\ u.st = "valid" /\ u.call = t.call
    BY <2>1, TxnShape
  <2>3. QED
    BY <2>1, <2>2, CallAsset
<1>2. Answer(world, t.call) = "ok" /\ b = Write(world, tx, t.call)
  BY <1>1 DEF FCInv, EndorsedIsFresh, Commit
<1>3. world' = [world EXCEPT ![y] = b] /\ txn' = [txn EXCEPT ![tx] = u]
  BY DEF Commit
<1> DEFINE a == world[y]
           fn == t.call.fn
<1>4. /\ b # NoAsset
      /\ \/ fn = "TokenizeAsset" /\ a = NoAsset /\ b.status = "ACTIF"
         \/ fn = "TransferAsset" /\ a # NoAsset /\ a.status = "ACTIF" /\ b.status = "ACTIF"
         \/ fn = "FreezeAsset" /\ a # NoAsset /\ a.status # "GELE" /\ b.status = "GELE"
         \/ fn = "UnfreezeAsset" /\ a # NoAsset /\ a.status = "GELE" /\ b.status = "ACTIF"
  BY <1>1, <1>2, WriteStatus
<1>5. ASSUME NEW id \in Assets, NEW f
      PROVE  /\ Done(id, f)' = IF id = y /\ f = fn THEN Done(id, f) \cup {tx} ELSE Done(id, f)
             /\ tx \notin Done(id, f)
  <2>1. tx \notin Done(id, f)
    BY <1>1 DEF Done
  <2>2. \A x \in TxIds \ {tx} : txn'[x] = txn[x]
    BY <1>1, <1>3
  <2>3. txn'[tx] = u
    BY <1>1, <1>3
  <2> HIDE DEF t, u, y, b
  <2>4. \A x \in TxIds : x \in Done(id, f)' <=> (x \in Done(id, f) \/ (x = tx /\ id = y /\ f = fn))
    BY <1>1, <2>1, <2>2, <2>3 DEF Done, y
  <2>5. Done(id, f)' \subseteq TxIds /\ Done(id, f) \subseteq TxIds
    BY DEF Done
  <2>6. QED
    BY <2>1, <2>4, <2>5
<1> HIDE DEF t, u, y, b, a, fn
<1>6. ASSUME NEW id \in Assets PROVE Counts(id)'
  <2> DEFINE T == Done(id, "TokenizeAsset")
             F == Done(id, "FreezeAsset")
             U == Done(id, "UnfreezeAsset")
  <2>1. /\ Counts(id) /\ IsFiniteSet(T) /\ IsFiniteSet(F) /\ IsFiniteSet(U)
        /\ Cardinality(T) \in Nat /\ Cardinality(F) \in Nat /\ Cardinality(U) \in Nat
        /\ Cardinality(T) = IF world[id] = NoAsset THEN 0 ELSE 1
        /\ Cardinality(F) = Cardinality(U) + IF Frozen(id) THEN 1 ELSE 0
    BY FS_CardinalityType DEF FCInv, Counts
  <2>2. CASE id # y
    <3>1. T' = T /\ F' = F /\ U' = U
      BY <1>5, <2>2
    <3>2. world'[id] = world[id]
      BY <1>1, <1>3, <2>2
    <3>3. QED
      BY <2>1, <3>1, <3>2 DEF Counts, Frozen
  <2>3. CASE id = y
    <3>1. world'[id] = b /\ world[id] = a
      BY <1>1, <1>3, <2>3 DEF a
    <3>2. /\ T' = IF fn = "TokenizeAsset" THEN T \cup {tx} ELSE T
          /\ F' = IF fn = "FreezeAsset" THEN F \cup {tx} ELSE F
          /\ U' = IF fn = "UnfreezeAsset" THEN U \cup {tx} ELSE U
          /\ tx \notin T /\ tx \notin F /\ tx \notin U
      BY <1>5, <2>3
    <3>3. /\ IsFiniteSet(T') /\ IsFiniteSet(F') /\ IsFiniteSet(U')
          /\ Cardinality(T') = Cardinality(T) + IF fn = "TokenizeAsset" THEN 1 ELSE 0
          /\ Cardinality(F') = Cardinality(F) + IF fn = "FreezeAsset" THEN 1 ELSE 0
          /\ Cardinality(U') = Cardinality(U) + IF fn = "UnfreezeAsset" THEN 1 ELSE 0
      BY <2>1, <3>2, FS_AddElement
    <3>4. /\ Frozen(id) <=> a # NoAsset /\ a.status = "GELE"
          /\ Frozen(id)' <=> b.status = "GELE"
      BY <1>4, <3>1 DEF Frozen
    <3>5. /\ Cardinality(T') = IF b = NoAsset THEN 0 ELSE 1
          /\ Cardinality(F') = Cardinality(U') + IF Frozen(id)' THEN 1 ELSE 0
      BY <1>4, <2>1, <3>1, <3>3, <3>4
    <3>6. QED
      BY <3>1, <3>3, <3>5 DEF Counts
  <2>4. QED
    BY <2>2, <2>3
<1>7. QED
  BY <1>6


LEMMA PeerFC ==
  ASSUME FCInv, NEW tx \in TxIds, Peer(tx)
  PROVE  FCInv' /\ LNext
<1> DEFINE c == req[spawned[tx]]
<1>1. /\ spawned[tx] \in Calls /\ c \in Call /\ LIInv
      /\ txn \in [TxIds -> Txn] /\ UNCHANGED <<cbvars, now, callvars>>
  BY RetryAssumption DEF Peer, FCInv, TypeOK, LTypeOK, LIInv
<1>2. CASE Endorse(tx, c)
  <2> DEFINE t == [st |-> "endorsed", call |-> c, read |-> version[c.asset],
                   write |-> Write(world, tx, c)]
  <2>1. LIInv'
    BY <1>1, <1>2, EndorseIInv
  <2>2. /\ t.st = "endorsed" /\ t.call = c /\ txn' = [txn EXCEPT ![tx] = t]
        /\ txn[tx].st = "free" /\ UNCHANGED world
    BY <1>2 DEF Endorse, NoTxn
  <2> HIDE DEF t
  <2>3. \A id \in Assets : Counts(id)'
    BY <2>2, UncommittedCounts
  <2>4. FCInv'
    BY <1>1, <2>1, <2>2, <2>3, NetworkFC
  <2>5. QED
    BY <1>1, <1>2, <2>4 DEF LNext
<1>3. CASE Refuse(tx, c)
  <2> DEFINE t == [st |-> "refused", call |-> c, answer |-> Answer(world, c)]
  <2>1. LIInv'
    BY <1>1, <1>3, RefuseIInv
  <2>2. /\ t.st = "refused" /\ t.call = c /\ txn' = [txn EXCEPT ![tx] = t]
        /\ txn[tx].st = "free" /\ UNCHANGED world
    BY <1>3 DEF Refuse, NoTxn
  <2> HIDE DEF t
  <2>3. \A id \in Assets : Counts(id)'
    BY <2>2, UncommittedCounts
  <2>4. FCInv'
    BY <1>1, <2>1, <2>2, <2>3, NetworkFC
  <2>5. QED
    BY <1>1, <1>3, <2>4 DEF LNext
<1>4. ASSUME txn[tx].st = "endorsed", NEW s \in {"valid", "invalid"}
      PROVE  /\ [txn[tx] EXCEPT !.st = s].st = s
             /\ [txn[tx] EXCEPT !.st = s].call = c
  <2>1. txn[tx] \in Txn /\ TxOK(tx)
    BY <1>1 DEF FCInv
  <2>2. QED
    BY <1>4, <2>1, TxnShape DEF TxOK
<1>5. CASE Commit(tx)
  <2> DEFINE t == [txn[tx] EXCEPT !.st = "valid"]
  <2>1. LIInv' /\ \A id \in Assets : Counts(id)'
    BY <1>1, <1>5, CommitIInv, CommitCounts
  <2>2. t.call = c /\ txn' = [txn EXCEPT ![tx] = t] /\ txn[tx].st = "endorsed"
    BY <1>4, <1>5 DEF Commit
  <2> HIDE DEF t
  <2>3. FCInv'
    BY <1>1, <2>1, <2>2, NetworkFC
  <2>4. QED
    BY <1>5, <2>3 DEF LNext
<1>6. CASE Invalidate(tx)
  <2> DEFINE t == [txn[tx] EXCEPT !.st = "invalid"]
  <2>1. LIInv'
    BY <1>1, <1>6, InvalidateIInv
  <2>2. /\ t.call = c /\ t.st = "invalid" /\ txn' = [txn EXCEPT ![tx] = t]
        /\ txn[tx].st = "endorsed" /\ UNCHANGED world
    BY <1>4, <1>6 DEF Invalidate
  <2> HIDE DEF t
  <2>3. \A id \in Assets : Counts(id)'
    BY <2>2, UncommittedCounts
  <2>4. FCInv'
    BY <1>1, <2>1, <2>2, <2>3, NetworkFC
  <2>5. QED
    BY <1>6, <2>4 DEF LNext
<1>7. QED
  BY <1>2, <1>3, <1>5, <1>6 DEF Peer

LEMMA QuietFC ==
  ASSUME FCInv, Tick \/ UNCHANGED vars
  PROVE  FCInv' /\ UNCHANGED lvars
<1>1. /\ UNCHANGED <<lvars, cbvars, callvars>>
      /\ now' \in 0..MaxTime /\ now' >= now /\ now \in Nat /\ now' \in Nat
  BY RetryAssumption DEF Tick, vars, FCInv, TypeOK
<1>2. LTypeOK' /\ EndorsedIsFresh' /\ \A id \in Assets : Counts(id)'
  BY <1>1, LedgerStill
<1>3. /\ UNCHANGED <<pc, req, attempt, cur, spawned, err, failure_count, txn,
                     first_failure_time, circuit_open, circuit_open_time>>
  BY <1>1 DEF callvars, cbvars, lvars
<1>4. first_failure_time' \in 0..now' /\ circuit_open_time' \in 0..now'
  BY <1>1, <1>3, FCFacts
<1>5. TypeOK' /\ CircuitMatchesCount'
  BY <1>1, <1>2, <1>3, <1>4, FCFacts DEF FCInv, TypeOK, CircuitMatchesCount
<1>6. QED
  BY <1>1, <1>2, <1>3, <1>5 DEF FCInv, CallOK, TxOK

LEMMA FCStep == FCInv /\ [Next]_vars => FCInv' /\ [LNext]_lvars
<1> SUFFICES ASSUME FCInv, [Next]_vars PROVE FCInv' /\ [LNext]_lvars
  OBVIOUS
<1>1. ASSUME NEW k \in Calls, Step(k) PROVE FCInv' /\ UNCHANGED lvars
  <2>1. FCInv'
    BY <1>1, EnterClosedFC, EnterOpenFC, SpawnFC, ReturnFC, EndedFC, TimeoutFC, WakeUpFC DEF Step
  <2>2. UNCHANGED lvars
    BY <1>1 DEF Step, EnterClosed, EnterOpen, Spawn, Return, ReturnUnreadable, Fail,
                TimeoutTrips, TimeoutGivesUp, TimeoutRetries, WakeUp
  <2>3. QED
    BY <2>1, <2>2
<1>2. QED
  BY <1>1, PeerFC, QuietFC DEF Next

LEMMA FCAlways == Spec => []FCInv
BY FCInit, FCStep, PTL DEF Spec

(* Types of the ledger, the shared circuit and every call; no call makes   *)
(* more than MaxAttempts attempts, and no recorded time is in the future.  *)
THEOREM ClientTypeCorrect == Spec => []TypeOK
<1>1. FCInv => TypeOK
  BY DEF FCInv
<1>2. QED
  BY <1>1, FCAlways, PTL

(* Calls that overlap, time out and retry do nothing to the ledger but     *)
(* propose transactions: the client's behaviours are ledger behaviours.    *)
THEOREM ClientRunsTheLedger == Spec => LSpec
<1>1. Init => LInit
  BY DEF Init
<1>2. QED
  BY <1>1, FCAlways, FCStep, PTL DEF Spec, LSpec

(* So the atomic contract is what the API sees, orphaned attempts included.*)
THEOREM ClientIsSerializable == Spec => Serializable
BY ClientRunsTheLedger, Refinement, PTL

(* wrapper of fabric_retry: the circuit flag and the failure count, which  *)
(* all concurrent calls share, never contradict each other.                *)
THEOREM CircuitMatches == Spec => []CircuitMatchesCount
<1>1. FCInv => CircuitMatchesCount
  BY DEF FCInv
<1>2. QED
  BY <1>1, FCAlways, PTL

(* The circuit opens only on failures of one window, and closes only after *)
(* its timeout or on a success.                                            *)
THEOREM CircuitMoves == Spec => CircuitTransitions
<1>1. ASSUME FCInv, [Next]_vars
      PROVE  [/\ circuit_open /\ ~circuit_open' =>
                   \/ now - circuit_open_time >= CbTimeout
                   \/ \E k \in Calls : pc[k] = "running" /\ pc'[k] = "returned"
              /\ ~circuit_open /\ circuit_open' =>
                   now - first_failure_time' <= CbTimeout]_vars
  <2>1. ASSUME UNCHANGED circuit_open
        PROVE  (circuit_open <=> circuit_open')
    BY <2>1
  <2>2. ASSUME NEW k \in Calls, EnterClosed(k)
        PROVE  ~circuit_open' /\ (circuit_open => now - circuit_open_time >= CbTimeout)
    BY <2>2 DEF EnterClosed
  <2>3. ASSUME NEW k \in Calls, Return(k)
        PROVE  ~circuit_open' /\ pc[k] = "running" /\ pc'[k] = "returned"
    BY <2>3, <1>1, FCFacts DEF Return
  <2>4. ASSUME NEW k \in Calls, TimeoutTrips(k)
        PROVE  circuit_open' /\ (~circuit_open => now - first_failure_time' <= CbTimeout)
    BY <1>1, <2>4, CountFailureFacts DEF TimeoutTrips
  <2>5. ASSUME NEW k \in Calls, Step(k)
        PROVE  EnterClosed(k) \/ Return(k) \/ TimeoutTrips(k) \/ UNCHANGED circuit_open
    BY <2>5 DEF Step, EnterOpen, Spawn, ReturnUnreadable, Fail, cbvars,
                TimeoutGivesUp, TimeoutRetries, WakeUp
  <2>6. ASSUME Tick \/ UNCHANGED vars \/ \E tx \in TxIds : Peer(tx) PROVE UNCHANGED circuit_open
    BY <2>6 DEF Tick, vars, cbvars, Peer
  <2>7. \/ \E k \in Calls : EnterClosed(k) \/ Return(k) \/ TimeoutTrips(k)
        \/ UNCHANGED circuit_open
    BY <1>1, <2>5, <2>6 DEF Next
  <2>8. QED
    BY <2>1, <2>2, <2>3, <2>4, <2>7
<1>2. QED
  BY <1>1, FCAlways, PTL DEF Spec, CircuitTransitions

(* submit_transaction's answers: a call that returned committed, and one   *)
(* that raised the chaincode's refusal on its first attempt has and will   *)
(* have no effect.                                                         *)
THEOREM AnswersTruthful == Spec => []AnswersAreTruthful
<1>1. FCInv => AnswersAreTruthful
  BY FCFacts DEF AnswersAreTruthful, CallOK, TxsOf, Committed, Verdicts
<1>2. QED
  BY <1>1, FCAlways, PTL

(* However often an attempt is orphaned and retried, a tokenisation takes  *)
(* effect once, and a freeze (an unfreeze) once more than its opposite.    *)
THEOREM RetriesCommitOnce == Spec => []RetryCommitsOnce
<1>1. ASSUME FCInv, NEW k \in Calls
      PROVE  /\ req[k].fn = "TokenizeAsset" => Cardinality(Committed(k)) <= 1
             /\ req[k].fn \in {"FreezeAsset", "UnfreezeAsset"} =>
                  Cardinality(Committed(k)) <= 1 + Cardinality(Opposing(k))
  <2> DEFINE id == req[k].asset
             T == Done(id, "TokenizeAsset")
             F == Done(id, "FreezeAsset")
             U == Done(id, "UnfreezeAsset")
  <2>1. req[k] \in Call
    BY <1>1, RetryAssumption DEF FCInv, TypeOK
  <2>2. id \in Assets
    BY <2>1, CallAsset
  <2>3. Committed(k) \subseteq Done(id, req[k].fn)
    BY <1>1 DEF Committed, TxsOf, Done, FCInv, TxOK
  <2>4. /\ req[k].fn = "FreezeAsset" => Opposing(k) = U
        /\ req[k].fn = "UnfreezeAsset" => Opposing(k) = F
    BY DEF Opposing, Opposite, Done
  <2> HIDE DEF id
  <2>5. Counts(id) /\ IsFiniteSet(T) /\ IsFiniteSet(F) /\ IsFiniteSet(U)
    BY <1>1, <2>2 DEF FCInv, Counts
  <2>6. /\ Cardinality(T) \in Nat /\ Cardinality(F) \in Nat /\ Cardinality(U) \in Nat
        /\ Cardinality(T) <= 1
        /\ Cardinality(F) <= Cardinality(U) + 1 /\ Cardinality(U) <= Cardinality(F)
    BY <2>5, FS_CardinalityType DEF Counts
  <2>7. ASSUME NEW f \in {"TokenizeAsset", "FreezeAsset", "UnfreezeAsset"}, req[k].fn = f
        PROVE  /\ Cardinality(Committed(k)) \in Nat
               /\ Cardinality(Committed(k)) <= Cardinality(Done(id, f))
    BY <2>3, <2>5, <2>7, FS_Subset, FS_CardinalityType DEF Counts
  <2> HIDE DEF T, F, U
  <2>8. QED
    BY <2>4, <2>6, <2>7 DEF T, F, U
<1>2. FCInv => RetryCommitsOnce
  BY <1>1 DEF RetryCommitsOnce
<1>3. QED
  BY <1>2, FCAlways, PTL
=============================================================================
