--------------------------- MODULE CliClientProofs ---------------------------
(***************************************************************************)
(* The gateway and the command-line client for any number of tasks, client *)
(* processes, retries, tokens and signing keys, and any rate limit and     *)
(* window.                                                                 *)
(***************************************************************************)
EXTENDS CliClient, FiniteSetTheorems, TLAPS

LEMMA MinOfTwo ==
  ASSUME NEW a \in Int, NEW b \in Int
  PROVE  Min({a, b}) = IF a <= b THEN a ELSE b
<1> DEFINE m == IF a <= b THEN a ELSE b
<1>1. m \in {a, b} /\ \A y \in {a, b} : m <= y
  OBVIOUS
<1>2. \A x \in {a, b} : (\A y \in {a, b} : x <= y) => x = m
  OBVIOUS
<1> HIDE DEF m
<1>3. Min({a, b}) = m
  BY <1>1, <1>2 DEF Min
<1>4. QED
  BY <1>3 DEF m

-----------------------------------------------------------------------------
(* The rate limiter: the calls let through are among those the sorted set  *)
(* counts, and were never more than the limit.                             *)
RateInv ==
  /\ zset \in [Methods -> SUBSET Calls] /\ passed \in [Methods -> SUBSET Calls]
  /\ \A m \in Methods : /\ passed[m] \subseteq zset[m] /\ IsFiniteSet(zset[m])
                        /\ Cardinality(passed[m]) <= RateLimit

(* Calls leave the window and none enters with time.                       *)
LEMMA OlderShrinks ==
  ASSUME NEW S \in SUBSET Calls, IsFiniteSet(S)
  PROVE  /\ Older(S) \subseteq Calls /\ IsFiniteSet(Older(S))
         /\ Cardinality(Older(S)) <= Cardinality(S)
<1> DEFINE f == [c \in Older(S) |-> <<c[1] - 1, c[2]>>]
<1>1. Older(S) \subseteq Calls
  BY DEF Older
<1>2. f \in [Older(S) -> S]
  BY DEF Older
<1>3. ASSUME NEW c \in Older(S), NEW d \in Older(S), f[c] = f[d] PROVE c = d
  <2>1. c[1] - 1 = d[1] - 1 /\ c[2] = d[2]
    BY <1>3
  <2>2. c[1] \in Int /\ d[1] \in Int /\ c = <<c[1], c[2]>> /\ d = <<d[1], d[2]>>
    BY <1>1 DEF Calls
  <2>3. c[1] = d[1]
    BY <2>1, <2>2
  <2>4. QED
    BY <2>1, <2>2, <2>3
<1>4. f \in Injection(Older(S), S)
  BY <1>2, <1>3 DEF Injection, IsInjective
<1>5. QED
  BY <1>1, <1>4, FS_Injection

LEMMA ArrivingIsCall ==
  ASSUME NEW S \in SUBSET Calls, IsFiniteSet(S) PROVE Arriving(S) \in Calls
<1> DEFINE n == Cardinality({c \in S : c[1] = 0}) + 1
<1>1. n \in Nat /\ n >= 1 /\ RateLimit \in Nat /\ Window \in Nat \ {0}
  <2>1. {c \in S : c[1] = 0} \in SUBSET S
    OBVIOUS
  <2>2. IsFiniteSet({c \in S : c[1] = 0})
    BY <2>1, FS_Subset
  <2>3. QED
    BY <2>2, FS_CardinalityType, GatewayAssumption
<1> HIDE DEF n
<1>2. Min({n, RateLimit + 1}) = IF n <= RateLimit + 1 THEN n ELSE RateLimit + 1
  BY <1>1, MinOfTwo
<1>3. Min({n, RateLimit + 1}) \in 1..(RateLimit + 1) /\ 0 \in 0..(Window - 1)
  BY <1>1, <1>2
<1>4. QED
  BY <1>3 DEF Arriving, Calls, n

LEMMA WindowMovesRate ==
  ASSUME RateInv, WindowMoves PROVE RateInv'
<1>1. ASSUME NEW m \in Methods
      PROVE  /\ Older(zset[m]) \subseteq Calls /\ Older(passed[m]) \subseteq Older(zset[m])
             /\ IsFiniteSet(Older(zset[m]))
             /\ Cardinality(Older(passed[m])) <= RateLimit
  <2>1. zset[m] \in SUBSET Calls /\ passed[m] \in SUBSET zset[m] /\ passed[m] \in SUBSET Calls
        /\ IsFiniteSet(zset[m])
    BY DEF RateInv
  <2>2. IsFiniteSet(passed[m])
    BY <2>1, FS_Subset
  <2>3. Cardinality(Older(passed[m])) <= Cardinality(passed[m])
        /\ Cardinality(Older(passed[m])) \in Nat /\ Cardinality(passed[m]) \in Nat
    BY <2>1, <2>2, OlderShrinks, FS_CardinalityType
  <2>4. Older(passed[m]) \subseteq Older(zset[m])
    BY <2>1 DEF Older
  <2>5. QED
    BY <2>1, <2>3, <2>4, OlderShrinks, GatewayAssumption DEF RateInv
<1>2. /\ zset' = [m \in Methods |-> Older(zset[m])]
      /\ passed' = [m \in Methods |-> Older(passed[m])]
  BY DEF WindowMoves
<1>3. QED
  BY <1>1, <1>2 DEF RateInv

LEMMA ArriveRate ==
  ASSUME RateInv, NEW k \in Tasks, NEW m \in Methods, NEW t, Arrive(k, m, t)
  PROVE  RateInv'
<1> DEFINE e == Arriving(zset[m])
           Z == zset[m] \cup {e}
           P == passed[m] \cup {e}
<1>1. /\ zset[m] \in SUBSET Calls /\ passed[m] \in SUBSET zset[m] /\ IsFiniteSet(zset[m])
  BY DEF RateInv
<1>2. e \in Calls
  BY <1>1, ArrivingIsCall
<1>3. zset' = [zset EXCEPT ![m] = Z]
  BY DEF Arrive, LimitedTo
<1>4. \/ passed' = passed
      \/ passed' = [passed EXCEPT ![m] = P] /\ Cardinality(zset[m]) + 1 <= RateLimit
  <2>1. Cardinality(zset[m]) \in Nat /\ RateLimit \in Nat
    BY <1>1, FS_CardinalityType, GatewayAssumption
  <2>2. QED
    BY <2>1 DEF Arrive, LimitedTo
<1>5. IsFiniteSet(Z) /\ Cardinality(Z) <= Cardinality(zset[m]) + 1
      /\ Cardinality(Z) \in Nat /\ Cardinality(zset[m]) \in Nat
  <2>1. Cardinality(zset[m]) \in Nat
    BY <1>1, FS_CardinalityType
  <2>2. IsFiniteSet(Z)
        /\ Cardinality(Z) = IF e \in zset[m] THEN Cardinality(zset[m])
                            ELSE Cardinality(zset[m]) + 1
    <3> HIDE DEF e
    <3>1. PICK S, y : S = zset[m] /\ y = e
      OBVIOUS
    <3>2. IsFiniteSet(S)
      BY <1>1, <3>1
    <3>3. IsFiniteSet(S \cup {y})
          /\ Cardinality(S \cup {y}) = IF y \in S THEN Cardinality(S)
                                       ELSE Cardinality(S) + 1
      BY <3>2, FS_AddElement
    <3>4. QED
      BY <3>1, <3>3
  <2>3. QED
    BY <2>1, <2>2
<1>6. P \in SUBSET Z
  BY <1>1
<1>7. IsFiniteSet(P) /\ Cardinality(P) <= Cardinality(Z) /\ Cardinality(P) \in Nat
  BY <1>5, <1>6, FS_Subset, FS_CardinalityType
<1> HIDE DEF e
<1>8. CASE passed' = passed
  BY <1>1, <1>2, <1>3, <1>5, <1>8 DEF RateInv
<1>9. CASE passed' = [passed EXCEPT ![m] = P] /\ Cardinality(zset[m]) + 1 <= RateLimit
  <2>1. Cardinality(P) <= RateLimit
    BY <1>5, <1>7, <1>9, GatewayAssumption
  <2> HIDE DEF Z, P
  <2>2. Z \subseteq Calls /\ P \subseteq Z
    BY <1>1, <1>2, <1>6 DEF Z
  <2>3. QED
    BY <1>3, <1>5, <1>9, <2>1, <2>2 DEF RateInv
<1>10. QED
  BY <1>4, <1>8, <1>9

-----------------------------------------------------------------------------
(* The tasks of the gateway.                                               *)
PCs == {"idle", "lock", "get", "store", "handler", "answered"}
Codes == {"none", "ok", "401", "429", "5xx"}
CallType == [method : Methods, t : Nat]

GTypes ==
  /\ tok \in Seq(1..MaxKey) /\ kcKey \in 1..MaxKey /\ jwks \in 0..MaxKey
  /\ lock \in Tasks \cup {None}
  /\ pc \in [Tasks -> PCs] /\ call \in [Tasks -> CallType]
  /\ key \in [Tasks -> 0..MaxKey] /\ forced \in [Tasks -> BOOLEAN]
  /\ answer \in [Tasks -> Codes]

(* Tokens are signed with a key of the realm no newer than its present     *)
(* one, and the lock of the cache is held by a task that will release it.  *)
KeysInv ==
  /\ \A i \in 1..Len(tok) : tok[i] <= kcKey
  /\ lock # None => pc[lock] \in {"get", "store"}

(* A task that looks for a key has a token; the key it fetched is no older *)
(* than the one that signed the token; and nothing is forced any more once *)
(* the token is judged.                                                    *)
TaskOK(k) ==
  /\ call[k].t \in 0..Len(tok)
  /\ pc[k] \in {"lock", "get", "store"} => call[k].t # 0
  /\ pc[k] \in {"get", "store"} => lock = k
  /\ pc[k] = "store" => key[k] <= kcKey /\ tok[call[k].t] <= key[k]
  /\ pc[k] \in {"idle", "handler", "answered"} => ~forced[k]

GInv == GTypes /\ KeysInv /\ \A k \in Tasks : TaskOK(k)

(* What a step changes of a task.                                          *)
SameTask(j) ==
  /\ pc'[j] = pc[j] /\ call'[j] = call[j] /\ key'[j] = key[j]
  /\ forced'[j] = forced[j] /\ answer'[j] = answer[j]

(* Tokens are only added, and keys only rotate forward.                    *)
KcGrows ==
  /\ Len(tok) <= Len(tok') /\ kcKey <= kcKey'
  /\ \A i \in 1..Len(tok) : tok'[i] = tok[i]

(* A task that does not move keeps its invariant while the lock passes     *)
(* between others.                                                         *)
LEMMA OthersOK ==
  ASSUME GInv, GTypes', KcGrows, NEW j \in Tasks, SameTask(j),
         lock = j => lock' = j
  PROVE  TaskOK(j)'
<1>1. /\ TaskOK(j) /\ Len(tok) \in Nat /\ Len(tok') \in Nat /\ kcKey \in Nat /\ kcKey' \in Nat
      /\ key[j] \in Nat /\ call[j] \in CallType /\ tok \in Seq(1..MaxKey)
  BY DEF GInv, GTypes
<1>2. call[j].t \in 0..Len(tok')
  BY <1>1 DEF TaskOK, KcGrows
<1>3. pc[j] = "store" => tok'[call[j].t] = tok[call[j].t] /\ key[j] <= kcKey'
  BY <1>1 DEF TaskOK, KcGrows
<1>4. QED
  BY <1>1, <1>2, <1>3 DEF TaskOK, SameTask

LEMMA GInitInv == GInit => RateInv /\ GInv
<1> SUFFICES ASSUME GInit PROVE RateInv /\ GInv
  OBVIOUS
<1>1. RateInv
  BY FS_EmptySet, GatewayAssumption DEF GInit, RateInv
<1>2. tok \in Seq(1..MaxKey) /\ Len(tok) = 1 /\ tok[1] = 1 /\ kcKey = 1 /\ 1 \in 1..MaxKey
  BY GatewayAssumption DEF GInit
<1>3. NoCall \in CallType /\ NoCall.t = 0
  BY DEF NoCall, CallType, Methods
<1>4. GTypes
  BY <1>2, <1>3, GatewayAssumption DEF GInit, GTypes, PCs, Codes
<1>5. KeysInv
  BY <1>2 DEF KeysInv, GInit
<1>6. \A k \in Tasks : TaskOK(k)
  BY <1>2, <1>3 DEF GInit, TaskOK
<1>7. QED
  BY <1>1, <1>4, <1>5, <1>6 DEF GInv

LEMMA SameKc == ASSUME GInv, UNCHANGED kcVars PROVE KcGrows
BY DEF GInv, GTypes, KcGrows, kcVars

(* A step of time or of Keycloak.                                          *)
LEMMA WorldGInv == ASSUME GInv, Environment PROVE GInv' /\ KcGrows
<1>1. UNCHANGED <<tok, lock, pc, call, key, forced, answer>>
  BY DEF Environment, RotateKey, KeysAge, WindowMoves, kcVars, keyVars, taskVars
<1>2. kcKey' \in 1..MaxKey /\ kcKey <= kcKey' /\ jwks' \in 0..MaxKey
  BY GatewayAssumption DEF Environment, RotateKey, KeysAge, WindowMoves, kcVars, keyVars,
     taskVars, GInv, GTypes
<1>3. GTypes' /\ KcGrows
  BY <1>1, <1>2 DEF GInv, GTypes, KcGrows
<1>4. KeysInv'
  <2>1. \A i \in 1..Len(tok) : tok[i] \in Nat /\ tok[i] <= kcKey
    <3>1. tok \in Seq(1..MaxKey) /\ MaxKey \in Nat
      BY GatewayAssumption DEF GInv, GTypes
    <3>2. QED
      BY <3>1 DEF GInv, KeysInv
  <2>2. kcKey \in Nat /\ kcKey' \in Nat
    BY <1>2 DEF GInv, GTypes
  <2>3. QED
    BY <1>1, <1>2, <2>1, <2>2 DEF GInv, KeysInv
<1>5. ASSUME NEW j \in Tasks PROVE TaskOK(j)'
  BY <1>1, <1>3, OthersOK DEF SameTask
<1>6. QED
  BY <1>3, <1>4, <1>5 DEF GInv

(* Keycloak signs a new bundle.                                            *)
LEMMA IssueGInv == ASSUME GInv, IssueBundle PROVE GInv' /\ KcGrows /\ Len(tok') = Len(tok) + 1
<1>1. UNCHANGED <<kcKey, jwks, lock, pc, call, key, forced, answer>> /\ tok' = Append(tok, kcKey)
  BY DEF IssueBundle, keyVars, taskVars
<1>2. tok \in Seq(1..MaxKey) /\ kcKey \in 1..MaxKey /\ Len(tok) \in Nat
  BY DEF GInv, GTypes
<1>3. /\ tok' \in Seq(1..MaxKey) /\ Len(tok') = Len(tok) + 1
      /\ \A i \in 1..Len(tok) : tok'[i] = tok[i]
      /\ tok'[Len(tok) + 1] = kcKey
  BY <1>1, <1>2
<1>4. GTypes' /\ KcGrows
  BY <1>1, <1>2, <1>3 DEF GInv, GTypes, KcGrows
<1>5. KeysInv'
  <2>1. \A i \in 1..Len(tok') : tok'[i] <= kcKey'
    BY <1>1, <1>2, <1>3 DEF GInv, KeysInv
  <2>2. QED
    BY <1>1, <2>1 DEF GInv, KeysInv
<1>6. ASSUME NEW j \in Tasks PROVE TaskOK(j)'
  BY <1>1, <1>4, OthersOK DEF SameTask
<1>7. QED
  BY <1>3, <1>4, <1>5, <1>6 DEF GInv

-----------------------------------------------------------------------------
(* One task moves: to p, with answer a, fetched key y, and forced f.       *)
Moves(k, p, a, y, f) ==
  /\ pc' = [pc EXCEPT ![k] = p] /\ answer' = [answer EXCEPT ![k] = a]
  /\ key' = [key EXCEPT ![k] = y] /\ forced' = [forced EXCEPT ![k] = f]

LEMMA AnswerMoves ==
  ASSUME NEW k \in Tasks, NEW code, Answer(k, code)
  PROVE  Moves(k, "answered", code, 0, FALSE)
BY DEF Answer, Moves

LEMMA DecodeMoves ==
  ASSUME GTypes, NEW k \in Tasks, NEW t, NEW signer, Decode(k, t, signer)
  PROVE  \/ tok[t] = signer /\ Moves(k, "handler", answer[k], 0, FALSE)
         \/ tok[t] # signer /\ forced[k] /\ Moves(k, "answered", "401", 0, FALSE)
         \/ ~forced[k] /\ Moves(k, "lock", answer[k], key[k], TRUE)
<1>1. /\ answer = [answer EXCEPT ![k] = answer[k]] /\ key = [key EXCEPT ![k] = key[k]]
  BY DEF GTypes
<1>2. QED
  BY <1>1 DEF Decode, Goto, Answer, Moves

LEMMA AdmitMoves ==
  ASSUME GTypes, NEW k \in Tasks, NEW t, Admit(k, t), ~forced[k]
  PROVE  \/ t = 0 /\ Moves(k, "answered", "401", 0, FALSE)
         \/ Moves(k, "handler", answer[k], 0, FALSE)
         \/ t # 0 /\ \E f \in BOOLEAN : Moves(k, "lock", answer[k], key[k], f)
<1>1. CASE t = 0
  BY <1>1, AnswerMoves DEF Admit
<1>2. CASE t # 0 /\ jwks # 0
  BY <1>2, DecodeMoves DEF Admit
<1>3. CASE t # 0 /\ jwks = 0
  <2>1. /\ answer = [answer EXCEPT ![k] = answer[k]] /\ key = [key EXCEPT ![k] = key[k]]
        /\ forced = [forced EXCEPT ![k] = FALSE]
    BY DEF GTypes
  <2>2. Moves(k, "lock", answer[k], key[k], FALSE)
    BY <1>3, <2>1 DEF Admit, Goto, Moves
  <2>3. QED
    BY <1>3, <2>2
<1>4. QED
  BY <1>1, <1>2, <1>3

(* Where a task may land without breaking the gateway's invariant.         *)
Landing(k, p, a, y, f) ==
  /\ p \in PCs /\ a \in Codes /\ y \in 0..MaxKey /\ f \in BOOLEAN
  /\ UNCHANGED kcVars /\ jwks' \in 0..MaxKey /\ lock' \in Tasks \cup {None}
  /\ call' \in [Tasks -> CallType] /\ \A j \in Tasks \ {k} : call'[j] = call[j]
  /\ \A j \in Tasks \ {k} : lock = j => lock' = j
  /\ lock' # None => lock' \in {lock, k}
  /\ lock' = k <=> p \in {"get", "store"}
  /\ call'[k].t \in 0..Len(tok)
  /\ p \in {"lock", "get", "store"} => call'[k].t # 0
  /\ p = "store" => y <= kcKey /\ tok[call'[k].t] <= y
  /\ p \in {"idle", "handler", "answered"} => f = FALSE

LEMMA TaskMoves ==
  ASSUME GInv, NEW k \in Tasks, NEW p, NEW a, NEW y, NEW f,
         Moves(k, p, a, y, f), Landing(k, p, a, y, f)
  PROVE  /\ GInv' /\ pc'[k] = p /\ answer'[k] = a
         /\ \A j \in Tasks \ {k} : pc'[j] = pc[j] /\ answer'[j] = answer[j]
<1>1. /\ pc' \in [Tasks -> PCs] /\ answer' \in [Tasks -> Codes]
      /\ key' \in [Tasks -> 0..MaxKey] /\ forced' \in [Tasks -> BOOLEAN]
      /\ pc'[k] = p /\ answer'[k] = a /\ key'[k] = y /\ forced'[k] = f
  BY DEF GInv, GTypes, Moves, Landing
<1>2. \A j \in Tasks \ {k} : SameTask(j)
  BY DEF GInv, GTypes, Moves, SameTask, Landing
<1>3. GTypes' /\ KcGrows
  <2>1. UNCHANGED kcVars /\ UNCHANGED <<tok, kcKey>>
    BY DEF Landing, kcVars
  <2>2. QED
    BY <1>1, <2>1, SameKc DEF GInv, GTypes, Landing
<1>4. KeysInv'
  <2>1. \A i \in 1..Len(tok') : tok'[i] <= kcKey'
    BY DEF GInv, KeysInv, kcVars, Landing
  <2>2. lock' # None => pc'[lock'] \in {"get", "store"}
    <3>1. CASE lock' = k
      BY <1>1, <3>1 DEF Landing
    <3>2. CASE lock' # k /\ lock' # None
      <4>1. lock' = lock /\ lock' \in Tasks \ {k}
        BY <3>2 DEF Landing
      <4>2. pc'[lock'] = pc[lock]
        BY <1>2, <4>1 DEF SameTask
      <4>3. QED
        BY <3>2, <4>1, <4>2 DEF GInv, KeysInv
    <3>3. QED
      BY <3>1, <3>2
  <2>3. QED
    BY <2>1, <2>2 DEF KeysInv
<1>5. TaskOK(k)'
  BY <1>1 DEF TaskOK, kcVars, Landing
<1>6. \A j \in Tasks \ {k} : TaskOK(j)'
  BY <1>2, <1>3, OthersOK DEF Landing
<1>7. QED
  BY <1>1, <1>2, <1>3, <1>4, <1>5, <1>6 DEF GInv, SameTask

(* What a step of the server on task k means for whoever waits for it, and *)
(* that a refusal is just: the token was signed with a retired key.        *)
Refused(k) == answer[k] # "401" /\ answer'[k] = "401"
Just(k) == Refused(k) => call'[k].t = 0 \/ tok[call'[k].t] # kcKey
Working == {"lock", "get", "store", "handler"}

LEMMA ArriveGInv ==
  ASSUME GInv, NEW k \in Tasks, NEW m \in Methods, NEW t \in 0..Len(tok),
         Arrive(k, m, t) \/ ArriveWithoutRedis(k, m, t)
  PROVE  /\ GInv' /\ Just(k) /\ UNCHANGED kcVars
         /\ pc[k] = "idle" /\ pc'[k] \in {"lock", "handler", "answered"}
         /\ pc'[k] = "answered" => answer'[k] \in {"401", "429", "5xx"}
         /\ call'[k].method = m
         /\ \A j \in Tasks \ {k} : /\ pc'[j] = pc[j] /\ answer'[j] = answer[j]
                                   /\ call'[j] = call[j]
<1> DEFINE c == [method |-> m, t |-> t]
<1>1. /\ pc[k] = "idle" /\ ~forced[k] /\ lock # k
      /\ UNCHANGED <<kcVars, keyVars>> /\ call' = [call EXCEPT ![k] = c]
  <2>1. /\ pc[k] = "idle" /\ UNCHANGED <<kcVars, keyVars>>
        /\ call' = [call EXCEPT ![k] = c]
    BY DEF Arrive, LimitedTo, ArriveWithoutRedis
  <2>2. ~forced[k] /\ k # None
    BY <2>1, GatewayAssumption DEF GInv, TaskOK
  <2>3. lock # k
    BY <2>1, <2>2 DEF GInv, KeysInv
  <2>4. QED
    BY <2>1, <2>2, <2>3
<1>2. c \in CallType /\ c.t = t /\ c.method = m
  BY DEF CallType, GInv, GTypes
<1> HIDE DEF c
<1>3. /\ call' \in [Tasks -> CallType] /\ call'[k] = c
      /\ \A j \in Tasks \ {k} : call'[j] = call[j]
  BY <1>1, <1>2 DEF GInv, GTypes
<1>4. \/ Admit(k, t) \/ Answer(k, "429") \/ Answer(k, "5xx")
  BY DEF Arrive, LimitedTo, ArriveWithoutRedis
<1>5. PICK p \in {"lock", "handler", "answered"}, a \in Codes, y \in 0..MaxKey, f \in BOOLEAN :
        /\ Moves(k, p, a, y, f)
        /\ p = "lock" => t # 0
        /\ p # "lock" => f = FALSE
        /\ p = "answered" => a \in {"401", "429", "5xx"} /\ (a = "401" => t = 0)
        /\ p # "answered" => a = answer[k]
  <2>1. /\ answer[k] \in Codes /\ key[k] \in 0..MaxKey /\ 0 \in 0..MaxKey
        /\ "401" \in Codes /\ "429" \in Codes /\ "5xx" \in Codes /\ FALSE \in BOOLEAN
    BY GatewayAssumption DEF GInv, GTypes, Codes
  <2>2. CASE Admit(k, t)
    <3>1. \/ t = 0 /\ Moves(k, "answered", "401", 0, FALSE)
          \/ Moves(k, "handler", answer[k], 0, FALSE)
          \/ t # 0 /\ \E f \in BOOLEAN : Moves(k, "lock", answer[k], key[k], f)
      BY <1>1, <2>2, AdmitMoves DEF GInv
    <3>2. QED
      BY <2>1, <3>1
  <2>3. CASE Answer(k, "429") \/ Answer(k, "5xx")
    <3>1. Moves(k, "answered", "429", 0, FALSE) \/ Moves(k, "answered", "5xx", 0, FALSE)
      BY <2>3, AnswerMoves
    <3>2. QED
      BY <2>1, <3>1
  <2>4. QED
    BY <1>4, <2>2, <2>3
<1>6. p \in PCs
  BY DEF PCs
<1>7. /\ jwks' \in 0..MaxKey /\ lock' \in Tasks \cup {None} /\ UNCHANGED kcVars /\ lock' = lock
  BY <1>1 DEF GInv, GTypes, keyVars
<1>8. /\ GInv' /\ pc'[k] = p /\ answer'[k] = a
      /\ \A j \in Tasks \ {k} : pc'[j] = pc[j] /\ answer'[j] = answer[j]
  <2>1. Landing(k, p, a, y, f)
    BY <1>1, <1>2, <1>3, <1>5, <1>6, <1>7 DEF Landing
  <2>2. QED
    BY <1>5, <2>1, TaskMoves
<1>9. Just(k)
  BY <1>2, <1>3, <1>5, <1>8 DEF Just, Refused
<1>10. QED
  BY <1>1, <1>2, <1>3, <1>5, <1>7, <1>8, <1>9

(* The steps of validate_token once the first key was not usable.          *)
LEMMA TakeLockGInv ==
  ASSUME GInv, NEW k \in Tasks, TakeLock(k)
  PROVE  /\ GInv' /\ pc[k] = "lock" /\ pc'[k] \in {"lock", "get", "handler"}
         /\ answer'[k] = answer[k]
         /\ \A j \in Tasks \ {k} : pc'[j] = pc[j] /\ answer'[j] = answer[j]
<1>1. /\ pc[k] = "lock" /\ lock = None /\ TaskOK(k) /\ call[k].t # 0
      /\ UNCHANGED <<kcVars, jwks, call>>
  BY DEF TakeLock, LockUnless, GInv, TaskOK
<1>2. /\ answer[k] \in Codes /\ key[k] \in 0..MaxKey /\ 0 \in 0..MaxKey
      /\ forced[k] \in BOOLEAN /\ call' \in [Tasks -> CallType] /\ jwks' \in 0..MaxKey
      /\ "lock" \in PCs /\ "get" \in PCs /\ "handler" \in PCs /\ k # None
  BY <1>1, GatewayAssumption DEF GInv, GTypes, PCs
<1>3. CASE ~forced[k] /\ Decode(k, call[k].t, jwks) /\ UNCHANGED lock
  <2>1. \/ Moves(k, "handler", answer[k], 0, FALSE)
        \/ Moves(k, "lock", answer[k], key[k], TRUE)
    BY <1>3, DecodeMoves DEF GInv
  <2>2. /\ Landing(k, "handler", answer[k], 0, FALSE)
        /\ Landing(k, "lock", answer[k], key[k], TRUE)
    BY <1>1, <1>2, <1>3 DEF Landing, TaskOK
  <2>3. CASE Moves(k, "handler", answer[k], 0, FALSE)
    BY <1>1, <2>2, <2>3, TaskMoves
  <2>4. CASE Moves(k, "lock", answer[k], key[k], TRUE)
    BY <1>1, <2>2, <2>4, TaskMoves
  <2>5. QED
    BY <2>1, <2>3, <2>4
<1>4. CASE Goto(k, "get") /\ lock' = k /\ UNCHANGED <<key, forced>>
  <2>1. Moves(k, "get", answer[k], key[k], forced[k])
    BY <1>4 DEF Goto, Moves, GInv, GTypes
  <2>2. Landing(k, "get", answer[k], key[k], forced[k])
    BY <1>1, <1>2, <1>4, GatewayAssumption DEF Landing, TaskOK
  <2>3. QED
    BY <1>1, <2>1, <2>2, TaskMoves
<1>5. QED
  BY <1>3, <1>4 DEF TakeLock, LockUnless

LEMMA GetCertsGInv ==
  ASSUME GInv, NEW k \in Tasks, GetCerts(k)
  PROVE  /\ GInv' /\ pc[k] = "get" /\ pc'[k] = "store" /\ answer'[k] = answer[k]
         /\ \A j \in Tasks \ {k} : pc'[j] = pc[j] /\ answer'[j] = answer[j]
<1>1. /\ pc[k] = "get" /\ TaskOK(k) /\ call[k].t # 0 /\ lock = k
      /\ UNCHANGED <<kcVars, keyVars, call>>
  BY DEF GetCerts, GInv, TaskOK
<1>2. /\ answer[k] \in Codes /\ kcKey \in 0..MaxKey /\ forced[k] \in BOOLEAN
      /\ call' \in [Tasks -> CallType] /\ jwks' \in 0..MaxKey /\ lock' = k
      /\ kcKey <= kcKey /\ "store" \in PCs /\ k # None
  BY <1>1, GatewayAssumption DEF GInv, GTypes, PCs, keyVars
<1>3. tok[call'[k].t] <= kcKey
  BY <1>1, <1>2 DEF GInv, GTypes, KeysInv, TaskOK
<1>4. Moves(k, "store", answer[k], kcKey, forced[k])
  BY DEF GetCerts, Goto, Moves, GInv, GTypes
<1>5. Landing(k, "store", answer[k], kcKey, forced[k])
  BY <1>1, <1>2, <1>3 DEF Landing, TaskOK
<1>6. QED
  BY <1>1, <1>4, <1>5, TaskMoves

LEMMA StoreJwksGInv ==
  ASSUME GInv, NEW k \in Tasks, StoreJwks(k)
  PROVE  /\ GInv' /\ Just(k) /\ pc[k] = "store" /\ pc'[k] \in {"lock", "handler", "answered"}
         /\ IF pc'[k] = "answered" THEN answer'[k] = "401" ELSE answer'[k] = answer[k]
         /\ \A j \in Tasks \ {k} : pc'[j] = pc[j] /\ answer'[j] = answer[j]
<1> DEFINE t == call[k].t
<1>1. /\ pc[k] = "store" /\ TaskOK(k) /\ t # 0 /\ t \in 0..Len(tok) /\ lock = k
      /\ tok[t] <= key[k] /\ key[k] <= kcKey
      /\ UNCHANGED <<kcVars, call>> /\ lock' = None /\ jwks' = key[k]
  BY DEF StoreJwks, GInv, TaskOK
<1>2. /\ answer[k] \in Codes /\ key[k] \in 0..MaxKey /\ 0 \in 0..MaxKey /\ "401" \in Codes
      /\ call' \in [Tasks -> CallType] /\ jwks' \in 0..MaxKey /\ kcKey \in Nat
      /\ "lock" \in PCs /\ "answered" \in PCs /\ "handler" \in PCs /\ k # None
  BY <1>1, GatewayAssumption DEF GInv, GTypes, PCs, Codes
<1>3. tok[t] \in Nat /\ key[k] \in Nat
  <2>1. tok \in Seq(1..MaxKey) /\ t \in 1..Len(tok)
    BY <1>1 DEF GInv, GTypes
  <2> HIDE DEF t
  <2>2. tok[t] \in 1..MaxKey
    BY <2>1, GatewayAssumption
  <2>3. QED
    BY <1>2, <2>2, GatewayAssumption
<1>4. \/ Moves(k, "handler", answer[k], 0, FALSE)
      \/ tok[t] # key[k] /\ Moves(k, "answered", "401", 0, FALSE)
      \/ Moves(k, "lock", answer[k], key[k], TRUE)
  BY DecodeMoves DEF StoreJwks, GInv
<1> HIDE DEF t
<1>9. /\ Landing(k, "handler", answer[k], 0, FALSE)
      /\ Landing(k, "answered", "401", 0, FALSE)
      /\ Landing(k, "lock", answer[k], key[k], TRUE)
  BY <1>1, <1>2 DEF Landing, t
<1>5. CASE Moves(k, "handler", answer[k], 0, FALSE)
  <2>1. /\ GInv' /\ pc'[k] = "handler" /\ answer'[k] = answer[k]
        /\ \A j \in Tasks \ {k} : pc'[j] = pc[j] /\ answer'[j] = answer[j]
    BY <1>5, <1>9, TaskMoves
  <2>2. QED
    BY <1>1, <2>1 DEF Just, Refused
<1>6. CASE Moves(k, "lock", answer[k], key[k], TRUE)
  <2>1. /\ GInv' /\ pc'[k] = "lock" /\ answer'[k] = answer[k]
        /\ \A j \in Tasks \ {k} : pc'[j] = pc[j] /\ answer'[j] = answer[j]
    BY <1>6, <1>9, TaskMoves
  <2>2. QED
    BY <1>1, <2>1 DEF Just, Refused
<1>7. CASE tok[t] # key[k] /\ Moves(k, "answered", "401", 0, FALSE)
  <2>1. /\ GInv' /\ pc'[k] = "answered" /\ answer'[k] = "401"
        /\ \A j \in Tasks \ {k} : pc'[j] = pc[j] /\ answer'[j] = answer[j]
    BY <1>7, <1>9, TaskMoves
  <2>2. tok[t] # kcKey
    BY <1>1, <1>2, <1>3, <1>7
  <2>3. QED
    BY <1>1, <2>1, <2>2 DEF Just, Refused, t
<1>8. QED
  BY <1>4, <1>5, <1>6, <1>7

(* The GET of the keys fails, or the handler ends.                         *)
LEMMA EndsGInv ==
  ASSUME GInv, NEW k \in Tasks,
         GetCertsFails(k) \/ \E code \in {"ok", "5xx"} : Handle(k, code)
  PROVE  /\ GInv' /\ pc[k] \in {"get", "handler"} /\ pc'[k] = "answered"
         /\ answer'[k] \in {"ok", "5xx"}
         /\ answer'[k] = "ok" => pc[k] = "handler"
         /\ \A j \in Tasks \ {k} : pc'[j] = pc[j] /\ answer'[j] = answer[j]
<1>1. /\ TaskOK(k) /\ call[k].t \in 0..Len(tok)
      /\ UNCHANGED <<kcVars, jwks, call>>
  BY DEF GetCertsFails, FailReleasing, Handle, keyVars, GInv, TaskOK
<1>2. /\ 0 \in 0..MaxKey /\ "ok" \in Codes /\ "5xx" \in Codes
      /\ call' \in [Tasks -> CallType] /\ jwks' \in 0..MaxKey
      /\ "answered" \in PCs /\ k # None
  BY <1>1, GatewayAssumption DEF GInv, GTypes, PCs, Codes
<1>3. CASE GetCertsFails(k)
  <2>1. pc[k] = "get" /\ lock = k /\ lock' = None /\ Moves(k, "answered", "5xx", 0, FALSE)
    BY <1>1, <1>3, AnswerMoves DEF GetCertsFails, FailReleasing, TaskOK
  <2>2. Landing(k, "answered", "5xx", 0, FALSE)
    BY <1>1, <1>2, <2>1 DEF Landing
  <2>3. /\ GInv' /\ pc'[k] = "answered" /\ answer'[k] = "5xx"
        /\ \A j \in Tasks \ {k} : pc'[j] = pc[j] /\ answer'[j] = answer[j]
    BY <2>1, <2>2, TaskMoves
  <2>4. QED
    BY <2>1, <2>3
<1>4. ASSUME NEW code \in {"ok", "5xx"}, Handle(k, code)
      PROVE  /\ GInv' /\ pc[k] = "handler" /\ pc'[k] = "answered" /\ answer'[k] = code
             /\ \A j \in Tasks \ {k} : pc'[j] = pc[j] /\ answer'[j] = answer[j]
  <2>1. pc[k] = "handler" /\ lock' = lock /\ Moves(k, "answered", code, 0, FALSE)
    BY <1>4, AnswerMoves DEF Handle, keyVars
  <2>2. lock # k /\ lock' \in Tasks \cup {None} /\ code \in Codes
    BY <1>2, <2>1 DEF GInv, GTypes, KeysInv
  <2>3. Landing(k, "answered", code, 0, FALSE)
    BY <1>1, <1>2, <2>1, <2>2 DEF Landing
  <2>4. QED
    BY <2>1, <2>3, TaskMoves
<1>5. QED
  BY <1>3, <1>4

(* Together: a step of the server on k.                                    *)
LEMMA ServerGInv ==
  ASSUME GInv, NEW k \in Tasks, ServerStep(k)
  PROVE  /\ GInv' /\ Just(k) /\ UNCHANGED <<kcVars, rateVars, call>>
         /\ pc[k] \in Working /\ pc'[k] \in Working \cup {"answered"}
         /\ pc[k] = "handler" => pc'[k] = "answered" /\ answer'[k] \in {"ok", "5xx"}
         /\ pc'[k] = "answered" /\ answer'[k] = "ok" => pc[k] = "handler"
         /\ \A j \in Tasks \ {k} : pc'[j] = pc[j] /\ answer'[j] = answer[j]
<1>1. UNCHANGED <<kcVars, rateVars, call>>
  BY DEF ServerStep, TakeLock, LockUnless, GetCerts, StoreJwks, GetCertsFails,
     FailReleasing, Handle
<1>2. CASE TakeLock(k)
  BY <1>1, <1>2, TakeLockGInv DEF Working, Just, Refused
<1>3. CASE GetCerts(k)
  BY <1>1, <1>3, GetCertsGInv DEF Working, Just, Refused
<1>4. CASE StoreJwks(k)
  <2>1. /\ GInv' /\ Just(k) /\ pc[k] = "store" /\ pc'[k] \in {"lock", "handler", "answered"}
        /\ pc'[k] = "answered" => answer'[k] = "401"
        /\ \A j \in Tasks \ {k} : pc'[j] = pc[j] /\ answer'[j] = answer[j]
    BY <1>4, StoreJwksGInv
  <2>2. QED
    BY <1>1, <2>1 DEF Working
<1>5. CASE GetCertsFails(k) \/ \E code \in {"ok", "5xx"} : Handle(k, code)
  <2>1. /\ GInv' /\ pc[k] \in {"get", "handler"} /\ pc'[k] = "answered"
        /\ answer'[k] \in {"ok", "5xx"}
        /\ answer'[k] = "ok" => pc[k] = "handler"
        /\ \A j \in Tasks \ {k} : pc'[j] = pc[j] /\ answer'[j] = answer[j]
    BY <1>5, EndsGInv
  <2>2. QED
    BY <1>1, <2>1 DEF Working, Just, Refused
<1>6. QED
  BY <1>2, <1>3, <1>4, <1>5 DEF ServerStep

(* The client takes or drops an answer.                                    *)
LEMMA ForgetGInv ==
  ASSUME GInv, NEW k \in Tasks, pc[k] = "answered", Forget(k)
  PROVE  /\ GInv' /\ UNCHANGED <<kcVars, rateVars>> /\ pc'[k] = "idle" /\ answer'[k] = "none"
         /\ \A j \in Tasks \ {k} : /\ pc'[j] = pc[j] /\ answer'[j] = answer[j]
                                   /\ call'[j] = call[j] /\ owner'[j] = owner[j]
<1>1. NoCall \in CallType /\ NoCall.t = 0
  BY DEF NoCall, CallType, Methods
<1>2. /\ UNCHANGED <<kcVars, rateVars, keyVars, lock, jwks>> /\ call' = [call EXCEPT ![k] = NoCall]
      /\ owner' = [owner EXCEPT ![k] = None]
      /\ \A j \in Tasks \ {k} : owner'[j] = owner[j]
  BY DEF Forget, keyVars
<1>3. /\ call' \in [Tasks -> CallType] /\ call'[k].t = 0
      /\ \A j \in Tasks \ {k} : call'[j] = call[j]
  BY <1>1, <1>2 DEF GInv, GTypes
<1>4. Moves(k, "idle", "none", key[k], forced[k])
  BY DEF Forget, Moves, GInv, GTypes
<1>5. Landing(k, "idle", "none", key[k], forced[k])
  <2>1. ~forced[k] /\ forced[k] \in BOOLEAN /\ key[k] \in 0..MaxKey /\ jwks' \in 0..MaxKey
        /\ k # None /\ Len(tok) \in Nat
    BY <1>2, GatewayAssumption DEF GInv, TaskOK, GTypes
  <2>2. lock # k /\ lock' = lock /\ lock' \in Tasks \cup {None}
    BY <1>2, <2>1 DEF GInv, KeysInv, GTypes
  <2>3. QED
    BY <1>2, <1>3, <2>1, <2>2 DEF Landing, PCs, Codes
<1>6. /\ GInv' /\ pc'[k] = "idle" /\ answer'[k] = "none"
      /\ \A j \in Tasks \ {k} : pc'[j] = pc[j] /\ answer'[j] = answer[j]
  BY <1>4, <1>5, TaskMoves
<1>7. QED
  BY <1>2, <1>3, <1>6

-----------------------------------------------------------------------------
(* The clients.                                                            *)
CmdType ==
  [kind : AllKinds, attempt : 0..(Retries - 1), bundle : Nat,
   task : Tasks \cup {None}, resent : BOOLEAN]

CTypes ==
  /\ keyring \in 0..Len(tok) /\ session \in BOOLEAN /\ cached \in BOOLEAN
  /\ cpc \in [Procs -> Steps \cup Results] /\ cmd \in [Procs -> CmdType]
  /\ owner \in [Tasks -> Procs \cup {None}] /\ effects \in [Procs -> Nat]

(* The calls of p that may still be carried out, and whether the attempt   *)
(* p is in may still send one.                                             *)
Pending(p) == {k \in Tasks : owner[k] = p /\ pc[k] \in Working}
MaySend == {"start", "send", "renew", "save"}
Unserved(p) == cpc[p] = "wait" /\ pc[cmd[p].task] = "answered" /\ answer[cmd[p].task] = "401"
Chance(p) == IF cpc[p] \in MaySend \/ Unserved(p) THEN 1 ELSE 0

(* Every attempt pays for one effect: done, pending or still to be sent.   *)
Budget(p) ==
  /\ IsFiniteSet(Pending(p))
  /\ effects[p] + Cardinality(Pending(p)) + Chance(p) <= cmd[p].attempt + 1

CmdOK(p) ==
  /\ cmd[p].kind \in Kinds(p) /\ cmd[p].bundle \in 0..Len(tok)
  /\ IF cpc[p] = "wait"
     THEN /\ cmd[p].task \in Tasks /\ pc[cmd[p].task] # "idle" /\ owner[cmd[p].task] = p
     ELSE cmd[p].task = None
  /\ cpc[p] \in {"send", "wait"} => cmd[p].kind \in ApiKinds
  /\ cpc[p] \in {"endsession", "delete"} => cmd[p].kind = "logout"
  /\ cpc[p] = "ok" /\ cmd[p].kind = "write" => effects[p] >= 1

(* A call belongs to a command, and the answer ok of a write is true.      *)
OwnOK(k) ==
  pc[k] # "idle" =>
    /\ owner[k] \in Procs /\ call[k].method = MethodOf(cmd[owner[k]].kind)
    /\ pc[k] = "answered" /\ answer[k] = "ok" /\ call[k].method = "POST" =>
         effects[owner[k]] >= 1

CInv ==
  /\ CTypes /\ \A p \in Procs : CmdOK(p) /\ Budget(p)
  /\ \A k \in Tasks : OwnOK(k)

IInv == RateInv /\ GInv /\ CInv

-----------------------------------------------------------------------------
(* What a client's move owes its budget.                                   *)
Moved(q) ==
  /\ cmd'[q].kind = cmd[q].kind /\ cmd'[q].bundle \in 0..Len(tok')
  /\ cpc'[q] # "wait" /\ cmd'[q].task = None
  /\ cpc'[q] = "send" => cmd[q].kind \in ApiKinds
  /\ cpc'[q] \in {"endsession", "delete"} => cmd[q].kind = "logout"
  /\ cpc'[q] = "ok" /\ cmd[q].kind = "write" => effects[q] >= 1
  /\ \/ cmd'[q].attempt = cmd[q].attempt /\ (cpc'[q] \in MaySend => Chance(q) = 1)
     \/ cmd'[q].attempt = cmd[q].attempt + 1
Stays(q) == cmd'[q] = cmd[q] /\ cpc'[q] = cpc[q]

Untouched(j) ==
  /\ pc'[j] = pc[j] /\ answer'[j] = answer[j] /\ call'[j] = call[j]
  /\ owner'[j] = owner[j]
Forgotten(j) ==
  /\ pc[j] = "answered" /\ pc'[j] = "idle"
  /\ \A q \in Procs : cpc'[q] = "wait" => cmd'[q].task # j

(* Steps in which no call starts and none is carried out.                  *)
LEMMA ClientSide ==
  ASSUME CInv, CTypes', UNCHANGED effects, Len(tok) \in Nat, Len(tok') \in Nat,
         Len(tok) <= Len(tok'),
         \A j \in Tasks : Untouched(j) \/ Forgotten(j),
         \A q \in Procs : Stays(q) \/ Moved(q)
  PROVE  CInv'
<1>1. ASSUME NEW j \in Tasks PROVE OwnOK(j)'
  <2>1. OwnOK(j)
    BY DEF CInv
  <2>2. CASE Untouched(j)
    <3>1. \A q \in Procs : cmd'[q].kind = cmd[q].kind
      BY DEF Stays, Moved
    <3>2. QED
      BY <2>1, <2>2, <3>1 DEF OwnOK, Untouched
  <2>3. CASE Forgotten(j)
    BY <2>3 DEF OwnOK, Forgotten
  <2>4. QED
    BY <2>2, <2>3
<1>2. ASSUME NEW q \in Procs PROVE Pending(q)' = Pending(q)
  <2>1. \A j \in Tasks : j \in Pending(q)' <=> j \in Pending(q)
    BY DEF Pending, Untouched, Forgotten, Working
  <2>2. QED
    BY <2>1 DEF Pending
<1>3. ASSUME NEW q \in Procs, Stays(q) PROVE CmdOK(q)' /\ Budget(q)'
  <2>1. CmdOK(q) /\ Budget(q)
    BY DEF CInv
  <2>2. cpc[q] = "wait" => cmd[q].task \in Tasks /\ Untouched(cmd[q].task)
    BY <1>3, <2>1 DEF CmdOK, Forgotten, Stays
  <2>3. CmdOK(q)'
    BY <1>3, <2>1, <2>2 DEF CmdOK, Stays, Untouched
  <2>4. Chance(q)' = Chance(q)
    BY <1>3, <2>2 DEF Chance, Unserved, Stays, Untouched
  <2>5. QED
    BY <1>2, <1>3, <2>1, <2>3, <2>4 DEF Budget, Stays
<1>4. ASSUME NEW q \in Procs, Moved(q) PROVE CmdOK(q)' /\ Budget(q)'
  <2>1. CmdOK(q) /\ Budget(q)
    BY DEF CInv
  <2>2. CmdOK(q)'
    BY <1>4, <2>1 DEF CmdOK, Moved
  <2>3. /\ Chance(q)' \in {0, 1} /\ Chance(q) \in {0, 1}
        /\ Chance(q)' = 1 => cpc'[q] \in MaySend
    BY <1>4 DEF Chance, Unserved, Moved
  <2>4. /\ IsFiniteSet(Pending(q)) /\ Cardinality(Pending(q)) \in Nat
        /\ effects[q] \in Nat /\ cmd[q].attempt \in Nat
    <3>1. cmd[q] \in CmdType /\ effects[q] \in Nat
      BY DEF CInv, CTypes
    <3>2. QED
      BY <2>1, <3>1, FS_CardinalityType DEF Budget, CmdType
  <2>5. effects[q] + Cardinality(Pending(q)) + Chance(q)' <= cmd'[q].attempt + 1
    <3>1. effects[q] + Cardinality(Pending(q)) + Chance(q) <= cmd[q].attempt + 1
      BY <2>1 DEF Budget
    <3>2. CASE cmd'[q].attempt = cmd[q].attempt /\ (cpc'[q] \in MaySend => Chance(q) = 1)
      BY <2>3, <2>4, <3>1, <3>2, SMTT(40)
    <3>3. CASE cmd'[q].attempt = cmd[q].attempt + 1
      <4>1. PICK f \in Nat, n \in Nat, a \in Nat :
              /\ f = effects[q] /\ n = Cardinality(Pending(q))
              /\ a = cmd[q].attempt
        BY <2>4
      <4>2. PICK d \in {0, 1}, e \in {0, 1} : d = Chance(q) /\ e = Chance(q)'
        BY <2>3
      <4>3. f + n + d <= a + 1
        BY <3>1, <4>1, <4>2
      <4>4. f + n + e <= (a + 1) + 1
        BY <4>3
      <4>5. QED
        BY <3>3, <4>1, <4>2, <4>4
    <3>4. QED
      BY <1>4, <3>2, <3>3 DEF Moved
  <2>6. Budget(q)'
    BY <1>2, <2>4, <2>5 DEF Budget
  <2>7. QED
    BY <2>2, <2>6
<1>5. QED
  BY <1>1, <1>3, <1>4 DEF CInv

(* One command moves to step s with record c.                              *)
MoveOK(p, s, c) ==
  /\ s \in (Steps \cup Results) \ {"wait"} /\ c \in CmdType
  /\ c.kind = cmd[p].kind /\ c.bundle \in 0..Len(tok') /\ c.task = None
  /\ s = "send" => cmd[p].kind \in ApiKinds
  /\ s \in {"endsession", "delete"} => cmd[p].kind = "logout"
  /\ s = "ok" /\ cmd[p].kind = "write" => effects[p] >= 1
  /\ \/ c.attempt = cmd[p].attempt /\ (s \in MaySend => Chance(p) = 1)
     \/ c.attempt = cmd[p].attempt + 1

LEMMA ClientMove ==
  ASSUME GInv, GTypes', KcGrows, CInv, NEW p \in Procs, NEW s, NEW c,
         Step(p, s, c), MoveOK(p, s, c), UNCHANGED effects,
         owner' \in [Tasks -> Procs \cup {None}],
         keyring' \in 0..Len(tok'), session' \in BOOLEAN, cached' \in BOOLEAN,
         \A j \in Tasks : Untouched(j) \/ Forgotten(j)
  PROVE  CInv'
<1>1. /\ cpc' = [cpc EXCEPT ![p] = s] /\ cmd' = [cmd EXCEPT ![p] = c]
  BY DEF Step
<1>2. /\ cpc' \in [Procs -> Steps \cup Results] /\ cmd' \in [Procs -> CmdType]
      /\ cpc'[p] = s /\ cmd'[p] = c
      /\ \A q \in Procs \ {p} : Stays(q)
  BY <1>1 DEF CInv, CTypes, MoveOK, Stays
<1>3. CTypes'
  BY <1>2 DEF CInv, CTypes
<1>4. Moved(p)
  BY <1>2 DEF Moved, MoveOK
<1>5. Len(tok) \in Nat /\ Len(tok') \in Nat /\ Len(tok) <= Len(tok')
  BY DEF GInv, GTypes, KcGrows
<1>6. QED
  BY <1>2, <1>3, <1>4, <1>5, ClientSide

(* The same for a step that leaves the server and Keycloak alone.          *)
LEMMA ClientAlone ==
  ASSUME GInv, CInv, NEW p \in Procs, NEW s, NEW c,
         Step(p, s, c), MoveOK(p, s, c), UNCHANGED <<gVars, owner, effects>>,
         keyring' \in 0..Len(tok), session' \in BOOLEAN, cached' \in BOOLEAN
  PROVE  CInv'
<1>1. UNCHANGED <<tok, kcKey, jwks, lock, pc, call, key, forced, answer>>
  BY DEF gVars, kcVars, keyVars, taskVars
<1>2. GTypes' /\ KcGrows
  BY <1>1 DEF GInv, GTypes, KcGrows
<1>3. \A j \in Tasks : Untouched(j)
  BY <1>1 DEF Untouched
<1>4. owner' \in [Tasks -> Procs \cup {None}] /\ keyring' \in 0..Len(tok')
  BY <1>1 DEF CInv, CTypes
<1>5. QED
  BY <1>2, <1>3, <1>4, ClientMove

(* What is known of a command before it moves.                             *)
LEMMA CmdFacts ==
  ASSUME GInv, CInv, NEW p \in Procs
  PROVE  /\ cmd[p] \in CmdType /\ cmd[p].kind \in AllKinds /\ cmd[p].attempt \in 0..(Retries - 1)
         /\ cmd[p].bundle \in 0..Len(tok) /\ cmd[p].resent \in BOOLEAN
         /\ cpc[p] # "wait" => cmd[p].task = None
         /\ CmdOK(p) /\ Len(tok) \in Nat
         /\ keyring \in 0..Len(tok) /\ session \in BOOLEAN /\ cached \in BOOLEAN
BY DEF GInv, GTypes, CInv, CTypes, CmdType, CmdOK

(* The record a command ends with, and the one of its next attempt.        *)
LEMMA EndRecord ==
  ASSUME GInv, CInv, NEW p \in Procs, NEW c,
         c = [cmd[p] EXCEPT !.task = None, !.bundle = 0, !.resent = FALSE]
  PROVE  /\ c \in CmdType /\ c.kind = cmd[p].kind /\ c.bundle = 0 /\ c.task = None
         /\ c.attempt = cmd[p].attempt
<1>1. cmd[p] \in CmdType
  BY CmdFacts
<1> DEFINE c1 == [cmd[p] EXCEPT !.task = None]
           c2 == [c1 EXCEPT !.bundle = 0]
           c3 == [c2 EXCEPT !.resent = FALSE]
<1>2. /\ c1 \in CmdType /\ c1.task = None /\ c1.kind = cmd[p].kind
      /\ c1.attempt = cmd[p].attempt
  BY <1>1 DEF CmdType
<1>3. c = c3
  OBVIOUS
<1> HIDE DEF c1
<1>4. /\ c2 \in CmdType /\ c2.task = None /\ c2.kind = cmd[p].kind
      /\ c2.attempt = cmd[p].attempt /\ c2.bundle = 0
  BY <1>2 DEF CmdType
<1> HIDE DEF c2
<1>5. /\ c3 \in CmdType /\ c3.task = None /\ c3.kind = cmd[p].kind
      /\ c3.attempt = cmd[p].attempt /\ c3.bundle = 0
  BY <1>4 DEF CmdType
<1>6. QED
  BY <1>3, <1>5

LEMMA EndsMove ==
  ASSUME GInv, CInv, NEW p \in Procs, NEW result \in Results, Ends(p, result),
         Len(tok') \in Nat,
         result = "ok" /\ cmd[p].kind = "write" => effects[p] >= 1
  PROVE  \E c : Step(p, result, c) /\ MoveOK(p, result, c)
<1> DEFINE c == [cmd[p] EXCEPT !.task = None, !.bundle = 0, !.resent = FALSE]
<1>1. Step(p, result, c)
  BY DEF Ends
<1>2. /\ c \in CmdType /\ c.kind = cmd[p].kind /\ c.bundle = 0 /\ c.task = None
      /\ c.attempt = cmd[p].attempt
  BY EndRecord
<1> HIDE DEF c
<1>3. MoveOK(p, result, c)
  BY <1>2 DEF MoveOK, Results, MaySend
<1>4. QED
  BY <1>1, <1>3

LEMMA NextAttemptMove ==
  ASSUME GInv, CInv, NEW p \in Procs, cpc[p] = "wait", NextAttempt(p), Len(tok') \in Nat
  PROVE  \E s, c : Step(p, s, c) /\ MoveOK(p, s, c)
<1>1. CASE cmd[p].attempt < Retries - 1
  <2> DEFINE c1 == [cmd[p] EXCEPT !.attempt = cmd[p].attempt + 1]
             c2 == [c1 EXCEPT !.task = None]
             c3 == [c2 EXCEPT !.bundle = 0]
             c == [c3 EXCEPT !.resent = FALSE]
  <2>1. /\ cmd[p] \in CmdType /\ cmd[p].attempt \in 0..(Retries - 1) /\ Retries \in Nat
        /\ cmd[p].kind \in ApiKinds
    BY CmdFacts, CliAssumption DEF CmdOK
  <2>2. Step(p, "send", c)
    BY <1>1, <2>1 DEF NextAttempt, CmdType
  <2>3. c1 \in CmdType /\ c1.kind = cmd[p].kind /\ c1.attempt = cmd[p].attempt + 1
    BY <1>1, <2>1 DEF CmdType
  <2> HIDE DEF c1
  <2>4. /\ c2 \in CmdType /\ c2.kind = cmd[p].kind /\ c2.attempt = cmd[p].attempt + 1
        /\ c2.task = None
    BY <2>3 DEF CmdType
  <2> HIDE DEF c2
  <2>5. /\ c3 \in CmdType /\ c3.kind = cmd[p].kind /\ c3.attempt = cmd[p].attempt + 1
        /\ c3.task = None /\ c3.bundle = 0
    BY <2>4 DEF CmdType
  <2> HIDE DEF c3
  <2>6. /\ c \in CmdType /\ c.kind = cmd[p].kind /\ c.attempt = cmd[p].attempt + 1
        /\ c.task = None /\ c.bundle = 0
    BY <2>5 DEF CmdType
  <2> HIDE DEF c
  <2>7. MoveOK(p, "send", c)
    BY <2>1, <2>6 DEF MoveOK, Steps
  <2>8. QED
    BY <2>2, <2>7
<1>2. CASE ~(cmd[p].attempt < Retries - 1)
  <2>1. Offline(p) \in Results /\ Offline(p) # "ok"
    BY DEF Offline, Results
  <2>2. Ends(p, Offline(p))
    BY <1>2 DEF NextAttempt
  <2>3. QED
    BY <2>1, <2>2, EndsMove
<1>3. QED
  BY <1>1, <1>2

-----------------------------------------------------------------------------
LEMMA TimeOutCInv ==
  ASSUME GInv, CInv, NEW p \in Procs, TimeOut(p) PROVE CInv'
<1>1. /\ cpc[p] = "wait" /\ NextAttempt(p) /\ UNCHANGED <<gVars, owner, effects>>
      /\ UNCHANGED <<keyring, session, cached, tok>>
  BY DEF TimeOut, userVars, gVars, kcVars
<1>2. Len(tok') \in Nat /\ keyring' \in 0..Len(tok) /\ session' \in BOOLEAN /\ cached' \in BOOLEAN
  BY <1>1, CmdFacts
<1>3. PICK s, c : Step(p, s, c) /\ MoveOK(p, s, c)
  BY <1>1, <1>2, NextAttemptMove
<1>4. QED
  BY <1>1, <1>2, <1>3, ClientAlone

LEMMA TransportErrorCInv ==
  ASSUME GInv, CInv, NEW p \in Procs, TransportError(p) PROVE CInv'
<1>1. /\ Ends(p, Offline(p)) /\ UNCHANGED <<gVars, owner, effects>>
      /\ UNCHANGED <<keyring, session, cached, tok>>
  BY DEF TransportError, userVars, gVars, kcVars
<1>2. Len(tok') \in Nat /\ keyring' \in 0..Len(tok) /\ session' \in BOOLEAN /\ cached' \in BOOLEAN
  BY <1>1, CmdFacts
<1>3. Offline(p) \in Results /\ Offline(p) # "ok"
  BY DEF Offline, Results
<1>4. PICK c : Step(p, Offline(p), c) /\ MoveOK(p, Offline(p), c)
  BY <1>1, <1>2, <1>3, EndsMove
<1>5. QED
  BY <1>1, <1>2, <1>4, ClientAlone

LEMMA StartCInv ==
  ASSUME GInv, CInv, NEW p \in Procs, Start(p) PROVE CInv'
<1>1. /\ cpc[p] = "start" /\ UNCHANGED <<gVars, owner, effects>>
      /\ UNCHANGED <<keyring, session, cached, tok>>
  BY DEF Start, userVars, gVars, kcVars
<1>2. PICK s \in {"renew", "delete", "endsession", "error"} :
        Step(p, s, cmd[p]) /\ (s \in {"delete", "endsession"} => cmd[p].kind = "logout")
  BY DEF Start
<1>3. /\ cmd[p] \in CmdType /\ cmd[p].bundle \in 0..Len(tok') /\ cmd[p].task = None
      /\ keyring' \in 0..Len(tok) /\ session' \in BOOLEAN /\ cached' \in BOOLEAN
  BY <1>1, CmdFacts
<1>4. Chance(p) = 1
  BY <1>1 DEF Chance, MaySend
<1>5. MoveOK(p, s, cmd[p])
  BY <1>2, <1>3, <1>4 DEF MoveOK, Steps, Results
<1>6. QED
  BY <1>1, <1>2, <1>3, <1>5, ClientAlone

LEMMA RenewCInv ==
  ASSUME GInv, CInv, NEW p \in Procs, Renew(p) PROVE CInv' /\ GInv'
<1> DEFINE c == [cmd[p] EXCEPT !.bundle = NextBundle]
<1>1. /\ cpc[p] = "renew" /\ IssueBundle /\ session' = TRUE /\ Step(p, "save", c)
      /\ UNCHANGED <<keyring, cached, owner, effects>>
  BY DEF Renew
<1>2. GInv' /\ KcGrows /\ Len(tok') = Len(tok) + 1
  BY <1>1, IssueGInv
<1>3. /\ cmd[p] \in CmdType /\ cmd[p].task = None /\ Len(tok) \in Nat
      /\ keyring \in 0..Len(tok) /\ cached \in BOOLEAN
  BY <1>1, CmdFacts
<1>4. NextBundle \in Nat /\ NextBundle \in 0..Len(tok')
  BY <1>2, <1>3 DEF NextBundle
<1>5. /\ c \in CmdType /\ c.kind = cmd[p].kind /\ c.task = None /\ c.bundle = NextBundle
      /\ c.attempt = cmd[p].attempt
  BY <1>3, <1>4 DEF CmdType
<1> HIDE DEF c
<1>6. Chance(p) = 1
  BY <1>1 DEF Chance, MaySend
<1>7. MoveOK(p, "save", c)
  BY <1>4, <1>5, <1>6 DEF MoveOK, Steps
<1>8. \A j \in Tasks : Untouched(j)
  BY <1>1 DEF IssueBundle, taskVars, Untouched
<1>9. /\ keyring' \in 0..Len(tok') /\ session' \in BOOLEAN /\ cached' \in BOOLEAN
      /\ owner' \in [Tasks -> Procs \cup {None}] /\ GTypes'
  BY <1>1, <1>2, <1>3 DEF CInv, CTypes, GInv
<1>10. CInv'
  BY <1>1, <1>2, <1>7, <1>8, <1>9, ClientMove
<1>11. QED
  BY <1>2, <1>10

LEMMA SaveBundleCInv ==
  ASSUME GInv, CInv, NEW p \in Procs, SaveBundle(p) PROVE CInv'
<1> DEFINE c == [cmd[p] EXCEPT !.resent = TRUE]
<1>1. /\ cpc[p] = "save" /\ UNCHANGED <<gVars, owner, effects>> /\ keyring' = cmd[p].bundle
      /\ UNCHANGED <<session, cached, tok>>
  BY DEF SaveBundle, gVars, kcVars
<1>2. /\ cmd[p] \in CmdType /\ cmd[p].bundle \in 0..Len(tok) /\ cmd[p].task = None
      /\ keyring' \in 0..Len(tok) /\ session' \in BOOLEAN /\ cached' \in BOOLEAN
      /\ Len(tok') \in Nat
  BY <1>1, CmdFacts
<1>3. CASE cmd[p].kind \in ApiKinds /\ Step(p, "send", c)
  <2>1. /\ c \in CmdType /\ c.kind = cmd[p].kind /\ c.task = None
        /\ c.bundle = cmd[p].bundle /\ c.attempt = cmd[p].attempt
    BY <1>2 DEF CmdType
  <2> HIDE DEF c
  <2>2. Chance(p) = 1
    BY <1>1 DEF Chance, MaySend
  <2>3. MoveOK(p, "send", c)
    BY <1>1, <1>2, <1>3, <2>1, <2>2 DEF MoveOK, Steps
  <2>4. QED
    BY <1>1, <1>2, <1>3, <2>3, ClientAlone
<1>4. CASE cmd[p].kind \notin ApiKinds /\ Ends(p, "ok")
  <2>1. cmd[p].kind # "write" /\ "ok" \in Results
    BY <1>4 DEF ApiKinds, KindsIn, assetsApi, Results
  <2>2. PICK d : Step(p, "ok", d) /\ MoveOK(p, "ok", d)
    BY <1>2, <1>4, <2>1, EndsMove
  <2>3. QED
    BY <1>1, <1>2, <2>2, ClientAlone
<1>5. QED
  BY <1>3, <1>4 DEF SaveBundle

LEMMA RenewFailsCInv ==
  ASSUME GInv, CInv, NEW p \in Procs, RenewFails(p) PROVE CInv'
<1>1. /\ UNCHANGED <<gVars, owner, effects>> /\ keyring' \in {0, keyring}
      /\ UNCHANGED <<session, cached, tok>>
  BY DEF RenewFails, gVars, kcVars
<1>2. /\ keyring' \in 0..Len(tok) /\ session' \in BOOLEAN /\ cached' \in BOOLEAN
      /\ Len(tok') \in Nat
  BY <1>1, CmdFacts
<1>3. PICK result \in {"auth_error", "error"} : Ends(p, result)
  BY DEF RenewFails
<1>4. result \in Results /\ result # "ok"
  BY DEF Results
<1>5. PICK c : Step(p, result, c) /\ MoveOK(p, result, c)
  BY <1>2, <1>3, <1>4, EndsMove
<1>6. QED
  BY <1>1, <1>2, <1>5, ClientAlone

LEMMA EndSessionCInv ==
  ASSUME GInv, CInv, NEW p \in Procs, EndSession(p) PROVE CInv'
<1>1. /\ cpc[p] = "endsession" /\ UNCHANGED <<gVars, owner, effects>>
      /\ session' \in {FALSE, session}
      /\ UNCHANGED <<keyring, cached, tok>> /\ Step(p, "delete", cmd[p])
  BY DEF EndSession, gVars, kcVars
<1>2. /\ cmd[p] \in CmdType /\ cmd[p].bundle \in 0..Len(tok') /\ cmd[p].task = None
      /\ keyring' \in 0..Len(tok) /\ session' \in BOOLEAN /\ cached' \in BOOLEAN
      /\ cmd[p].kind = "logout"
  BY <1>1, CmdFacts DEF CmdOK
<1>3. MoveOK(p, "delete", cmd[p])
  BY <1>2 DEF MoveOK, Steps, MaySend
<1>4. QED
  BY <1>1, <1>2, <1>3, ClientAlone

LEMMA DeleteTokensCInv ==
  ASSUME GInv, CInv, NEW p \in Procs, DeleteTokens(p) PROVE CInv'
<1>1. /\ cpc[p] = "delete" /\ UNCHANGED <<gVars, owner, effects>> /\ keyring' = 0
      /\ UNCHANGED <<session, cached, tok>> /\ Ends(p, "ok")
  BY DEF DeleteTokens, gVars, kcVars
<1>2. /\ Len(tok') \in Nat /\ keyring' \in 0..Len(tok) /\ session' \in BOOLEAN
      /\ cached' \in BOOLEAN /\ cmd[p].kind = "logout" /\ "ok" \in Results
  BY <1>1, CmdFacts DEF CmdOK, Results
<1>3. PICK c : Step(p, "ok", c) /\ MoveOK(p, "ok", c)
  BY <1>1, <1>2, EndsMove
<1>4. QED
  BY <1>1, <1>2, <1>3, ClientAlone

LEMMA ReceiveCInv ==
  ASSUME GInv, CInv, NEW p \in Procs, Receive(p)
  PROVE  CInv' /\ GInv' /\ UNCHANGED rateVars /\ \A k \in Tasks : Just(k)
<1> DEFINE k == cmd[p].task
<1>1. cpc[p] = "wait" /\ pc[k] = "answered" /\ Forget(k) /\ UNCHANGED <<userVars, effects>>
  BY DEF Receive, ResendOn
<1>2. CmdOK(p) /\ k \in Tasks /\ owner[k] = p /\ OwnOK(k)
  BY <1>1 DEF CInv, CmdOK
<1>3. /\ GInv' /\ UNCHANGED <<kcVars, rateVars>> /\ pc'[k] = "idle" /\ answer'[k] = "none"
      /\ \A j \in Tasks \ {k} : /\ pc'[j] = pc[j] /\ answer'[j] = answer[j]
                                /\ call'[j] = call[j] /\ owner'[j] = owner[j]
  BY <1>1, <1>2, ForgetGInv
<1>4. tok' = tok /\ KcGrows /\ Len(tok') \in Nat
  BY <1>3, SameKc DEF GInv, GTypes, kcVars
<1>5. PICK s, c : Step(p, s, c) /\ MoveOK(p, s, c)
  <2> DEFINE code == answer[k]
             mayRenew == code \in {"401"} /\ cmd[p].bundle # 0 /\ ~cmd[p].resent
             lastAttempt == cmd[p].attempt = Retries - 1
  <2>1. \/ code = "ok" /\ Ends(p, "ok")
        \/ mayRenew /\ Step(p, "renew", [cmd[p] EXCEPT !.task = None])
        \/ Ends(p, "auth_error") \/ Ends(p, "api_error") \/ NextAttempt(p)
    BY DEF Receive, ResendOn
  <2>2. CASE code = "ok" /\ Ends(p, "ok")
    <3>1. cmd[p].kind = "write" => effects[p] >= 1
      BY <1>1, <1>2, <2>2 DEF OwnOK, MethodOf
    <3>2. QED
      BY <1>4, <2>2, <3>1, EndsMove DEF Results
  <2>3. CASE mayRenew /\ Step(p, "renew", [cmd[p] EXCEPT !.task = None])
    <3> DEFINE d == [cmd[p] EXCEPT !.task = None]
    <3>1. cmd[p] \in CmdType /\ cmd[p].bundle \in 0..Len(tok)
      BY CmdFacts
    <3>2. /\ d \in CmdType /\ d.kind = cmd[p].kind /\ d.task = None
          /\ d.bundle = cmd[p].bundle /\ d.attempt = cmd[p].attempt
      BY <3>1 DEF CmdType
    <3>3. Chance(p) = 1
      BY <1>1, <2>3 DEF Chance, Unserved
    <3>4. Step(p, "renew", d)
      BY <2>3
    <3> HIDE DEF d
    <3>5. MoveOK(p, "renew", d)
      BY <1>4, <3>1, <3>2, <3>3 DEF MoveOK, Steps
    <3>6. QED
      BY <3>4, <3>5
  <2>4. CASE Ends(p, "auth_error") \/ Ends(p, "api_error")
    BY <1>4, <2>4, EndsMove DEF Results
  <2>5. CASE NextAttempt(p)
    BY <1>1, <1>4, <2>5, NextAttemptMove
  <2>6. QED
    BY <2>1, <2>2, <2>3, <2>4, <2>5
<1>6. Forgotten(k)
  <2>1. ASSUME NEW q \in Procs, cpc'[q] = "wait", cmd'[q].task = k PROVE FALSE
    <3>1. CASE q = p
      BY <1>5, <2>1, <3>1 DEF Step, MoveOK, CInv, CTypes
    <3>2. CASE q # p
      <4>1. cpc'[q] = cpc[q] /\ cmd'[q] = cmd[q]
        BY <1>5, <3>2 DEF Step, CInv, CTypes
      <4>2. CmdOK(q)
        BY DEF CInv
      <4>3. QED
        BY <1>2, <2>1, <3>2, <4>1, <4>2 DEF CmdOK
    <3>3. QED
      BY <3>1, <3>2
  <2>2. QED
    BY <1>1, <1>3, <2>1 DEF Forgotten
<1>7. \A j \in Tasks : Untouched(j) \/ Forgotten(j)
  BY <1>3, <1>6 DEF Untouched
<1>8. /\ keyring' \in 0..Len(tok') /\ session' \in BOOLEAN
      /\ owner' \in [Tasks -> Procs \cup {None}] /\ GTypes'
  BY <1>1, <1>2, <1>3, <1>4 DEF CInv, CTypes, GInv, userVars, Forget
<1>9. cached' \in BOOLEAN
  <2>1. cached' = (cached \/ (answer[k] = "ok" /\ cmd[p].kind = "read"))
    BY DEF Receive, ResendOn
  <2>2. QED
    BY <2>1 DEF CInv, CTypes
<1>10. CInv'
  BY <1>1, <1>4, <1>5, <1>7, <1>8, <1>9, ClientMove
<1>11. \A j \in Tasks : Just(j)
  BY <1>3 DEF Just, Refused
<1>12. QED
  BY <1>3, <1>10, <1>11

LEMMA DropAnswerCInv ==
  ASSUME GInv, CInv, NEW k \in Tasks, DropAnswer(k)
  PROVE  CInv' /\ GInv' /\ UNCHANGED rateVars /\ \A j \in Tasks : Just(j)
<1>1. /\ pc[k] = "answered" /\ Forget(k) /\ UNCHANGED <<userVars, cpc, cmd, cached, effects>>
      /\ \A q \in Procs : cmd[q].task # k
  BY DEF DropAnswer
<1>2. /\ GInv' /\ UNCHANGED <<kcVars, rateVars>> /\ pc'[k] = "idle" /\ answer'[k] = "none"
      /\ \A j \in Tasks \ {k} : /\ pc'[j] = pc[j] /\ answer'[j] = answer[j]
                                /\ call'[j] = call[j] /\ owner'[j] = owner[j]
  BY <1>1, ForgetGInv
<1>3. /\ tok' = tok /\ Len(tok) \in Nat
      /\ \A j \in Tasks : Untouched(j) \/ Forgotten(j)
      /\ \A q \in Procs : Stays(q)
  BY <1>1, <1>2 DEF GInv, GTypes, kcVars, Untouched, Forgotten, Stays
<1>4. CTypes'
  BY <1>1, <1>3 DEF CInv, CTypes, userVars, Forget
<1>5. CInv'
  BY <1>1, <1>3, <1>4, ClientSide
<1>6. QED
  BY <1>2, <1>5 DEF Just, Refused

(* Steps that leave every task and every command alone.                    *)
LEMMA QuietCInv ==
  ASSUME GInv, CInv, GTypes', UNCHANGED <<tok, pc, call, answer>>,
         UNCHANGED <<userVars, cpc, cmd, owner, effects>>, cached' \in BOOLEAN
  PROVE  CInv'
<1>1. /\ Len(tok) \in Nat /\ Len(tok') = Len(tok)
      /\ \A j \in Tasks : Untouched(j)
      /\ \A q \in Procs : Stays(q)
  BY DEF GInv, GTypes, Untouched, Stays
<1>2. CTypes'
  BY DEF CInv, CTypes, userVars
<1>3. QED
  BY <1>1, <1>2, ClientSide

LEMMA ServeCInv ==
  ASSUME GInv, CInv, NEW k \in Tasks, Serve(k)
  PROVE  CInv' /\ GInv' /\ UNCHANGED rateVars /\ \A j \in Tasks : Just(j)
<1> DEFINE o == owner[k]
<1>1. /\ GInv' /\ Just(k) /\ UNCHANGED <<kcVars, rateVars, call>>
      /\ pc[k] \in Working /\ pc'[k] \in Working \cup {"answered"}
      /\ pc[k] = "handler" => pc'[k] = "answered" /\ answer'[k] \in {"ok", "5xx"}
      /\ pc'[k] = "answered" /\ answer'[k] = "ok" => pc[k] = "handler"
      /\ \A j \in Tasks \ {k} : pc'[j] = pc[j] /\ answer'[j] = answer[j]
  BY ServerGInv DEF Serve
<1>2. PICK done \in {0, 1} :
        /\ done = 1 => pc[k] = "handler" /\ call[k].method = "POST"
        /\ answer'[k] = "ok" /\ call[k].method = "POST" => done = 1
        /\ effects' = [effects EXCEPT ![o] = @ + done]
  BY DEF Serve
<1>3. UNCHANGED <<userVars, cpc, cmd, cached, owner>>
  BY DEF Serve
<1>4. o \in Procs /\ call[k].method = MethodOf(cmd[o].kind)
  BY <1>1 DEF CInv, OwnOK, Working
<1>5. /\ effects' \in [Procs -> Nat] /\ effects'[o] = effects[o] + done
      /\ \A q \in Procs \ {o} : effects'[q] = effects[q]
      /\ \A q \in Procs : effects[q] \in Nat /\ effects'[q] \in Nat /\ effects'[q] >= effects[q]
  BY <1>2, <1>4 DEF CInv, CTypes
<1>6. CTypes'
  <2>1. tok' = tok
    BY <1>1 DEF kcVars
  <2>2. QED
    BY <1>3, <1>5, <2>1 DEF CInv, CTypes, userVars
<1>7. ASSUME NEW q \in Procs PROVE CmdOK(q)'
  <2>1. CmdOK(q)
    BY DEF CInv
  <2>2. cpc[q] = "wait" => cmd[q].task \in Tasks /\ pc'[cmd[q].task] # "idle"
    BY <1>1, <2>1 DEF CmdOK, Working
  <2>3. cpc[q] = "ok" /\ cmd[q].kind = "write" => effects'[q] >= 1
    BY <1>5, <2>1 DEF CmdOK
  <2>4. QED
    BY <1>1, <1>3, <2>1, <2>2, <2>3 DEF CmdOK, kcVars
<1>8. ASSUME NEW j \in Tasks PROVE OwnOK(j)'
  <2>1. OwnOK(j)
    BY DEF CInv
  <2>2. CASE j # k
    <3>1. /\ pc'[j] = pc[j] /\ answer'[j] = answer[j] /\ call'[j] = call[j]
          /\ owner'[j] = owner[j] /\ cmd' = cmd
      BY <1>1, <1>3, <2>2
    <3>2. QED
      BY <1>5, <2>1, <3>1 DEF OwnOK
  <2>3. CASE j = k
    <3>1. answer'[k] = "ok" /\ call[k].method = "POST" => effects'[o] >= 1
      BY <1>2, <1>5, <1>4
    <3>2. QED
      BY <1>1, <1>3, <1>4, <2>3, <3>1 DEF OwnOK
  <2>4. QED
    BY <2>2, <2>3
<1>9. ASSUME NEW q \in Procs, q # o PROVE Budget(q)'
  <2>1. Budget(q) /\ CmdOK(q)
    BY DEF CInv
  <2>2. Pending(q)' = Pending(q)
    BY <1>1, <1>3, <1>9 DEF Pending
  <2>3. Chance(q)' = Chance(q)
    <3>1. cpc[q] = "wait" => cmd[q].task \in Tasks \ {k}
      BY <1>9, <2>1 DEF CmdOK
    <3>2. QED
      BY <1>1, <1>3, <3>1 DEF Chance, Unserved
  <2>4. QED
    BY <1>3, <1>5, <1>9, <2>1, <2>2, <2>3 DEF Budget
<1>10. ASSUME NEW q \in Procs, q = o PROVE Budget(q)'
  <2>1. /\ Budget(q) /\ CmdOK(q) /\ IsFiniteSet(Pending(q)) /\ Cardinality(Pending(q)) \in Nat
        /\ k \in Pending(q)
    BY <1>10, <1>1, <1>4, FS_CardinalityType DEF CInv, Budget, Pending
  <2>2. cmd[q].attempt \in Nat
    BY <1>10, <1>4, CmdFacts
  <2>3. effects[q] + Cardinality(Pending(q)) + Chance(q) <= cmd[q].attempt + 1
    BY <2>1 DEF Budget
  <2>4. Chance(q) \in {0, 1} /\ Chance(q)' \in {0, 1}
    BY DEF Chance
  <2>5. CASE pc'[k] # "answered"
    <3>1. Pending(q)' = Pending(q)
      BY <1>10, <1>1, <1>3, <2>5 DEF Pending
    <3>2. Chance(q)' = Chance(q)
      BY <1>10, <1>1, <1>3, <2>1, <2>5 DEF Chance, Unserved, CmdOK, Working
    <3>3. effects'[q] = effects[q]
      BY <1>10, <1>1, <1>2, <1>5, <2>5, <1>4
    <3>4. QED
      BY <1>3, <2>1, <2>3, <3>1, <3>2, <3>3 DEF Budget
  <2>6. CASE pc'[k] = "answered"
    <3>1. Pending(q)' = Pending(q) \ {k}
      BY <1>10, <1>1, <1>3, <2>6 DEF Pending, Working
    <3>2. /\ IsFiniteSet(Pending(q) \ {k})
          /\ Cardinality(Pending(q) \ {k}) = Cardinality(Pending(q)) - 1
      BY <2>1, FS_RemoveElement
    <3>3. done = 1 => Chance(q)' = Chance(q)
      <4> HAVE done = 1
      <4>1. answer'[k] # "401" /\ pc[k] # "answered"
        BY <1>10, <1>1, <1>2
      <4>2. Unserved(q)' = Unserved(q)
        BY <1>10, <1>1, <1>3, <2>1, <4>1 DEF Unserved, CmdOK
      <4>3. QED
        BY <1>3, <4>2 DEF Chance
    <3>4. effects'[q] + (Cardinality(Pending(q)) - 1) + Chance(q)' <= cmd[q].attempt + 1
      BY <1>10, <1>4, <1>5, <2>1, <2>2, <2>3, <2>4, <3>3
    <3>5. QED
      BY <1>3, <3>1, <3>2, <3>4 DEF Budget
  <2>7. QED
    BY <2>5, <2>6
<1>11. \A j \in Tasks : Just(j)
  BY <1>1 DEF Just, Refused
<1>12. \A q \in Procs : Budget(q)'
  BY <1>9, <1>10
<1>13. CInv'
  BY <1>6, <1>7, <1>8, <1>12 DEF CInv
<1>14. QED
  BY <1>1, <1>11, <1>13

LEMMA SendCInv ==
  ASSUME RateInv, GInv, CInv, NEW p \in Procs, NEW k \in Tasks, Send(p, k)
  PROVE  RateInv' /\ CInv' /\ GInv' /\ \A j \in Tasks : Just(j)
<1> DEFINE t == IF cmd[p].resent THEN cmd[p].bundle ELSE keyring
           m == MethodOf(cmd[p].kind)
           c1 == [cmd[p] EXCEPT !.task = k]
           c == [c1 EXCEPT !.bundle = t]
<1>1. /\ cpc[p] = "send" /\ (Arrive(k, m, t) \/ ArriveWithoutRedis(k, m, t))
      /\ Step(p, "wait", c) /\ owner' = [owner EXCEPT ![k] = p]
      /\ UNCHANGED <<userVars, cached, effects>>
  BY DEF Send
<1>2. /\ cmd[p] \in CmdType /\ CmdOK(p) /\ t \in 0..Len(tok) /\ m \in Methods /\ Len(tok) \in Nat
  BY CmdFacts DEF MethodOf, Methods
<1>3. /\ c \in CmdType /\ c.kind = cmd[p].kind /\ c.attempt = cmd[p].attempt
      /\ c.task = k /\ c.bundle = t
  <2>1. /\ c1 \in CmdType /\ c1.kind = cmd[p].kind /\ c1.attempt = cmd[p].attempt
        /\ c1.task = k
    BY <1>2 DEF CmdType
  <2> HIDE DEF c1, t
  <2>2. QED
    BY <1>2, <2>1 DEF CmdType
<1> HIDE DEF c, t, m
<1>4. /\ GInv' /\ Just(k) /\ UNCHANGED kcVars
      /\ pc[k] = "idle" /\ pc'[k] \in {"lock", "handler", "answered"}
      /\ pc'[k] = "answered" => answer'[k] \in {"401", "429", "5xx"}
      /\ call'[k].method = m
      /\ \A j \in Tasks \ {k} : /\ pc'[j] = pc[j] /\ answer'[j] = answer[j]
                                /\ call'[j] = call[j]
  BY <1>1, <1>2, ArriveGInv
<1>5. RateInv'
  <2>1. CASE Arrive(k, m, t)
    BY <1>2, <2>1, ArriveRate
  <2>2. CASE ArriveWithoutRedis(k, m, t)
    BY <2>2 DEF ArriveWithoutRedis, rateVars, RateInv
  <2>3. QED
    BY <1>1, <2>1, <2>2
<1>6. /\ cmd' = [cmd EXCEPT ![p] = c] /\ cpc' = [cpc EXCEPT ![p] = "wait"]
      /\ cmd'[p] = c /\ cpc'[p] = "wait" /\ owner'[k] = p
      /\ \A q \in Procs \ {p} : cmd'[q] = cmd[q] /\ cpc'[q] = cpc[q]
      /\ \A j \in Tasks \ {k} : owner'[j] = owner[j]
  BY <1>1 DEF Step, CInv, CTypes
<1>7. CTypes' /\ tok' = tok
  <2>1. tok' = tok /\ UNCHANGED <<keyring, session>>
    BY <1>1, <1>4 DEF kcVars, userVars
  <2>2. /\ cmd' \in [Procs -> CmdType] /\ cpc' \in [Procs -> Steps \cup Results]
        /\ owner' \in [Tasks -> Procs \cup {None}]
    BY <1>1, <1>3, <1>6 DEF CInv, CTypes, Steps
  <2>3. QED
    BY <1>1, <2>1, <2>2 DEF CInv, CTypes
<1>8. ASSUME NEW j \in Tasks PROVE OwnOK(j)'
  <2>1. OwnOK(j) /\ \A q \in Procs : cmd'[q].kind = cmd[q].kind
    BY <1>3, <1>6 DEF CInv
  <2>2. CASE j # k
    BY <1>1, <1>4, <1>6, <2>1, <2>2 DEF OwnOK
  <2>3. CASE j = k
    BY <1>4, <1>6, <2>1, <2>3 DEF OwnOK, m
  <2>4. QED
    BY <2>2, <2>3
<1>9. ASSUME NEW q \in Procs, q # p PROVE CmdOK(q)' /\ Budget(q)'
  <2>1. CmdOK(q) /\ Budget(q) /\ cmd'[q] = cmd[q] /\ cpc'[q] = cpc[q]
    BY <1>6, <1>9 DEF CInv
  <2>2. cpc[q] = "wait" => cmd[q].task \in Tasks \ {k}
    BY <1>4, <2>1 DEF CmdOK
  <2>3. CmdOK(q)'
    BY <1>1, <1>4, <1>6, <1>7, <2>1, <2>2 DEF CmdOK
  <2>4. Pending(q)' = Pending(q)
    BY <1>4, <1>6, <1>9 DEF Pending, Working
  <2>5. Chance(q)' = Chance(q)
    BY <1>4, <2>1, <2>2 DEF Chance, Unserved
  <2>6. QED
    BY <1>1, <2>1, <2>3, <2>4, <2>5 DEF Budget
<1>10. CmdOK(p)'
  BY <1>1, <1>2, <1>3, <1>4, <1>6, <1>7 DEF CmdOK
<1>11. Budget(p)'
  <2>1. /\ IsFiniteSet(Pending(p)) /\ Cardinality(Pending(p)) \in Nat
        /\ effects[p] + Cardinality(Pending(p)) + Chance(p) <= cmd[p].attempt + 1
        /\ k \notin Pending(p) /\ effects[p] \in Nat /\ cmd[p].attempt \in Nat
    <3>1. /\ IsFiniteSet(Pending(p))
          /\ effects[p] + Cardinality(Pending(p)) + Chance(p) <= cmd[p].attempt + 1
      BY DEF CInv, Budget
    <3>2. Cardinality(Pending(p)) \in Nat
      BY <3>1, FS_CardinalityType
    <3>3. k \notin Pending(p)
      BY <1>4 DEF Pending, Working
    <3>4. effects[p] \in Nat /\ cmd[p].attempt \in Nat
      BY CmdFacts DEF CInv, CTypes
    <3>5. QED
      BY <3>1, <3>2, <3>3, <3>4
  <2>2. Chance(p) = 1
    BY <1>1 DEF Chance, MaySend
  <2>3. CASE pc'[k] = "answered"
    <3>1. Pending(p)' = Pending(p)
      BY <1>4, <1>6, <2>3 DEF Pending, Working
    <3>2. Chance(p)' \in {0, 1}
      BY DEF Chance
    <3>3. QED
      BY <1>1, <1>3, <1>6, <2>1, <2>2, <3>1, <3>2 DEF Budget
  <2>4. CASE pc'[k] # "answered"
    <3>1. Pending(p)' = Pending(p) \cup {k}
      BY <1>4, <1>6, <2>4 DEF Pending, Working
    <3>2. /\ IsFiniteSet(Pending(p) \cup {k})
          /\ Cardinality(Pending(p) \cup {k}) = Cardinality(Pending(p)) + 1
      BY <2>1, FS_AddElement
    <3>3. Chance(p)' = 0
      BY <1>3, <1>6, <2>4 DEF Chance, Unserved, MaySend
    <3>4. QED
      BY <1>1, <1>3, <1>6, <2>1, <2>2, <3>1, <3>2, <3>3 DEF Budget
  <2>5. QED
    BY <2>3, <2>4
<1>12. CInv'
  BY <1>7, <1>8, <1>9, <1>10, <1>11 DEF CInv
<1>13. \A j \in Tasks : Just(j)
  BY <1>4 DEF Just, Refused
<1>14. QED
  BY <1>4, <1>5, <1>12, <1>13

-----------------------------------------------------------------------------
LEMMA InitIInv == Init => IInv
<1> SUFFICES ASSUME Init PROVE IInv
  OBVIOUS
<1>1. RateInv /\ GInv
  BY GInitInv DEF Init
<1>2. /\ Len(tok) = 1 /\ \A k \in Tasks : pc[k] = "idle" /\ owner[k] = None
      /\ keyring = 1 /\ session = TRUE /\ cached = FALSE
      /\ owner = [k \in Tasks |-> None] /\ effects = [p \in Procs |-> 0]
  BY DEF Init, GInit
<1>3. ASSUME NEW p \in Procs
      PROVE  /\ cmd[p] \in CmdType /\ cmd[p].kind \in Kinds(p)
             /\ cmd[p].bundle = 0 /\ cmd[p].task = None /\ cmd[p].attempt = 0
             /\ cpc[p] = IF cmd[p].kind \in ApiKinds THEN "send" ELSE "start"
  <2>1. PICK kind \in AllKinds : cmd[p] = NewCmd(kind)
    BY DEF Init
  <2>2. cmd[p].kind \in Kinds(p) /\ cpc[p] = IF cmd[p].kind \in ApiKinds THEN "send" ELSE "start"
    BY DEF Init
  <2>3. 0 \in 0..(Retries - 1)
    BY CliAssumption
  <2>4. QED
    BY <2>1, <2>2, <2>3 DEF NewCmd, CmdType
<1>4. cmd \in [Procs -> CmdType] /\ cpc \in [Procs -> Steps \cup Results]
  <2>1. cmd \in [Procs -> {NewCmd(kind) : kind \in AllKinds}]
    BY DEF Init
  <2>2. cpc = [p \in Procs |-> IF cmd[p].kind \in ApiKinds THEN "send" ELSE "start"]
    BY DEF Init
  <2>3. QED
    BY <1>3, <2>1, <2>2 DEF Steps
<1>5. CTypes
  <2>1. owner \in [Tasks -> Procs \cup {None}] /\ effects \in [Procs -> Nat]
    BY <1>2
  <2>2. keyring \in 0..Len(tok) /\ session \in BOOLEAN /\ cached \in BOOLEAN
    <3>1. keyring = 1 /\ session = TRUE /\ cached = FALSE /\ Len(tok) = 1
      BY <1>2
    <3>2. keyring \in 0..Len(tok)
      BY <3>1
    <3>3. QED
      BY <3>1, <3>2, Zenon
  <2>3. QED
    BY <1>4, <2>1, <2>2 DEF CTypes
<1>6. ASSUME NEW p \in Procs PROVE CmdOK(p) /\ Budget(p)
  <2>1. CmdOK(p)
    BY <1>2, <1>3 DEF CmdOK
  <2>2. Pending(p) = {} /\ Chance(p) \in {0, 1}
    BY <1>2 DEF Pending, Working, Chance
  <2>3. Budget(p)
    BY <1>2, <1>3, <2>2, FS_EmptySet DEF Budget
  <2>4. QED
    BY <2>1, <2>3
<1>7. \A k \in Tasks : OwnOK(k)
  BY <1>2 DEF OwnOK
<1>8. QED
  BY <1>1, <1>5, <1>6, <1>7 DEF IInv, CInv

(* Every step of client, server, Keycloak and time, with its refusals.     *)
LEMMA StepIInv == IInv /\ [Next]_vars => IInv' /\ \A j \in Tasks : Just(j)
<1> SUFFICES ASSUME IInv, [Next]_vars PROVE IInv' /\ \A j \in Tasks : Just(j)
  OBVIOUS
<1> USE DEF IInv
<1>1. CASE UNCHANGED vars \/ CacheExpires
  <2>1. /\ UNCHANGED gVars /\ UNCHANGED <<userVars, cpc, cmd, owner, effects>>
        /\ cached' \in BOOLEAN
    BY <1>1 DEF vars, CacheExpires, CInv, CTypes
  <2>2. UNCHANGED <<rateVars, tok, kcKey, jwks, lock, pc, call, key, forced, answer>>
    BY <2>1 DEF gVars, kcVars, keyVars, taskVars
  <2>3. RateInv' /\ GInv'
    BY <2>2 DEF RateInv, rateVars, GInv, GTypes, KeysInv, TaskOK
  <2>4. CInv'
    BY <2>1, <2>2, <2>3, QuietCInv DEF GInv
  <2>5. QED
    BY <2>2, <2>3, <2>4 DEF Just, Refused
<1>2. CASE World
  <2>1. /\ Environment /\ UNCHANGED <<userVars, cpc, cmd, cached, owner, effects>>
        /\ UNCHANGED <<tok, pc, call, answer>>
    BY <1>2 DEF World, Environment, RotateKey, KeysAge, WindowMoves, kcVars, taskVars
  <2>2. GInv'
    BY <2>1, WorldGInv
  <2>3. cached' \in BOOLEAN
    BY <2>1 DEF CInv, CTypes
  <2>4. CInv'
    BY <2>1, <2>2, <2>3, QuietCInv DEF GInv
  <2>5. RateInv'
    <3>1. CASE WindowMoves
      BY <3>1, WindowMovesRate
    <3>2. CASE RotateKey \/ KeysAge
      BY <3>2 DEF RotateKey, KeysAge, rateVars, RateInv
    <3>3. QED
      BY <2>1, <3>1, <3>2 DEF Environment
  <2>6. QED
    BY <2>1, <2>2, <2>4, <2>5 DEF Just, Refused
<1>3. ASSUME NEW k \in Tasks, Serve(k) \/ DropAnswer(k)
      PROVE  IInv' /\ \A j \in Tasks : Just(j)
  <2>1. CInv' /\ GInv' /\ UNCHANGED rateVars /\ \A j \in Tasks : Just(j)
    BY <1>3, ServeCInv, DropAnswerCInv
  <2>2. QED
    BY <2>1 DEF rateVars, RateInv
<1>4. ASSUME NEW p \in Procs,
             \/ TimeOut(p) \/ TransportError(p) \/ Start(p) \/ SaveBundle(p)
             \/ RenewFails(p) \/ EndSession(p) \/ DeleteTokens(p)
      PROVE  IInv' /\ \A j \in Tasks : Just(j)
  <2>1. CInv'
    BY <1>4, TimeOutCInv, TransportErrorCInv, StartCInv, SaveBundleCInv, RenewFailsCInv,
       EndSessionCInv, DeleteTokensCInv
  <2>2. UNCHANGED gVars
    BY <1>4 DEF TimeOut, TransportError, Start, SaveBundle, RenewFails, EndSession, DeleteTokens
  <2>3. UNCHANGED <<rateVars, tok, kcKey, jwks, lock, pc, call, key, forced, answer>>
    BY <2>2 DEF gVars, kcVars, keyVars, taskVars
  <2>4. RateInv' /\ GInv'
    BY <2>3 DEF RateInv, rateVars, GInv, GTypes, KeysInv, TaskOK
  <2>5. QED
    BY <2>1, <2>3, <2>4 DEF Just, Refused
<1>5. ASSUME NEW p \in Procs, Renew(p) PROVE IInv' /\ \A j \in Tasks : Just(j)
  <2>1. CInv' /\ GInv'
    BY <1>5, RenewCInv
  <2>2. UNCHANGED <<zset, passed, answer>>
    BY <1>5 DEF Renew, IssueBundle, rateVars, taskVars
  <2>3. QED
    BY <2>1, <2>2 DEF RateInv, Just, Refused
<1>6. ASSUME NEW p \in Procs, Receive(p) PROVE IInv' /\ \A j \in Tasks : Just(j)
  <2>1. CInv' /\ GInv' /\ UNCHANGED rateVars /\ \A j \in Tasks : Just(j)
    BY <1>6, ReceiveCInv
  <2>2. QED
    BY <2>1 DEF rateVars, RateInv
<1>7. ASSUME NEW p \in Procs, NEW k \in Tasks, Send(p, k)
      PROVE  IInv' /\ \A j \in Tasks : Just(j)
  BY <1>7, SendCInv
<1>8. CASE Next
  BY <1>1, <1>2, <1>3, <1>4, <1>5, <1>6, <1>7, <1>8 DEF Next, ClientStep, AllDone
<1>9. QED
  BY <1>1, <1>8

-----------------------------------------------------------------------------
(* The client, the gateway and Keycloak keep their types, a client that    *)
(* waits waits for its own call, and _jwks_lock is held by a task that     *)
(* will release it.                                                        *)
THEOREM CliTypeCorrect == Spec => []TypeOK
<1>1. IInv => TypeOK
  <2> SUFFICES ASSUME IInv PROVE TypeOK
    OBVIOUS
  <2>1. \A m \in Methods : zset[m] \subseteq Calls /\ passed[m] \subseteq zset[m]
    BY DEF IInv, RateInv
  <2>2. \A p \in Procs :
          /\ cmd[p].kind \in Kinds(p) /\ cmd[p].attempt \in 0..(Retries - 1)
          /\ cmd[p].bundle \in 0..Len(tok)
          /\ cpc[p] = "wait" => pc[cmd[p].task] # "idle" /\ owner[cmd[p].task] = p
    BY CmdFacts DEF IInv, CmdOK
  <2>3. QED
    BY <2>1, <2>2 DEF TypeOK, IInv, GInv, GTypes, KeysInv, CInv, CTypes, PCs
<1>2. QED
  BY <1>1, InitIInv, StepIInv, PTL DEF Spec

(* dispatch of the rate limiter: however refused calls fill the window,    *)
(* no more calls than the limit pass in it.                                *)
THEOREM RateBoundHolds == Spec => []RateBound
<1>1. IInv => RateBound
  BY DEF IInv, RateInv, RateBound
<1>2. QED
  BY <1>1, InitIInv, StepIInv, PTL DEF Spec

(* request with its retries and the silent refresh: a write is carried out *)
(* at most once per attempt, and one reported done was done.               *)
THEOREM WritesCountedHolds == Spec => []WritesCounted
<1>1. IInv => WritesCounted
  <2> SUFFICES ASSUME IInv, NEW p \in Procs
               PROVE  /\ effects[p] <= cmd[p].attempt + 1
                      /\ cpc[p] = "ok" /\ cmd[p].kind = "write" => effects[p] >= 1
    BY DEF WritesCounted
  <2>1. /\ effects[p] + Cardinality(Pending(p)) + Chance(p) <= cmd[p].attempt + 1
        /\ Cardinality(Pending(p)) \in Nat /\ Chance(p) \in {0, 1}
        /\ effects[p] \in Nat /\ cmd[p].attempt \in Nat /\ CmdOK(p)
    BY CmdFacts, FS_CardinalityType DEF IInv, CInv, CTypes, Budget, Chance
  <2>2. QED
    BY <2>1 DEF CmdOK
<1>2. QED
  BY <1>1, InitIInv, StepIInv, PTL DEF Spec

(* validate_token: no rotation of the realm's keys, at any moment of any   *)
(* number of overlapping calls, gets a token of the present key refused.   *)
THEOREM LiveKeyIsAccepted == Spec => LiveKeyAccepted
<1>1. Init => IInv
  BY InitIInv
<1>2. IInv /\ [Next]_vars => IInv'
  BY StepIInv
<1>3. IInv /\ [Next]_vars =>
        [\A k \in Tasks :
           LET t == call'[k].t
           IN  answer[k] # "401" /\ answer'[k] = "401" =>
                 t = 0 \/ tok[t] # kcKey]_gVars
  BY StepIInv DEF Just, Refused
<1>4. QED
  BY <1>1, <1>2, <1>3, PTL DEF Spec, LiveKeyAccepted
=============================================================================
