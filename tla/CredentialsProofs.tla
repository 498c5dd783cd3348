-------------------------- MODULE CredentialsProofs --------------------------
(***************************************************************************)
(* The compliance gate and the credentials built on its records, for any   *)
(* number of participants, requests, manifests, keys and nullifiers; and   *)
(* the sessions of the user behind them, for any number of requests,       *)
(* tokens and logins.                                                      *)
(***************************************************************************)
EXTENDS Credentials, Sessions, SequenceTheorems, TLAPS

Steps == {"select", "commit", "kyc", "screen", "score", "rate", "sar",
          "block", "mica", "pass"}

RecordType ==
  [status : {"EN_COURS", "APPROUVE", "VERIFIE"}, level : {1} \cup Levels,
   risk : {"FAIBLE", "MOYEN", "ELEVE", "CRITIQUE"}, live : BOOLEAN]

ReqType ==
  [kind : AllKinds \cup {None}, u : Users \cup {None}, amount : Amounts \cup {0},
   pc : Done \cup {"idle"} \cup Steps, idx : Nat, score : 0..100,
   then : {None, "error", "blocked"}]

(* What a request n that has written l log rows may rely on, on records rs *)
(* and grants g: the rows it is going to update exist, and a check that is *)
(* past the KYC step found a granted level and will be blocked, not        *)
(* excused, if it is refused later.                                        *)
Past(n) == n.kind = "check" /\ n.pc \in {"screen", "rate", "sar", "mica", "pass"}
ReqOK(n, l, rs, g) ==
  /\ n.pc \in Steps => n.kind \in AllKinds /\ n.u \in Users /\ l = 0
  /\ n.pc = "select" => n.kind \in {"submit", "approve"}
  /\ n.pc = "commit" =>
       /\ n.kind \in {"submit", "approve"} /\ n.idx \in 0..Len(rs[n.u])
       /\ n.kind = "approve" => n.idx # 0
  /\ n.pc = "rate" => n.idx \in 1..Len(rs[n.u])
  /\ n.pc = "score" => n.kind # "check"
  /\ n.pc \in {"kyc", "screen", "block", "mica", "pass"} => n.kind = "check"
  /\ Past(n) => n.then = "blocked"
  /\ n.pc = "block" => n.then \in {"error", "blocked"}
  /\ Past(n) \/ n.pc = "passed" => n.u \in Users /\ g[n.u] >= REQUIRED_LEVEL
  /\ n.pc \in {"passed", "blocked"} => l = 1

(* Memory holds the newest manifest found in order, under its own time.    *)
FixturesOK ==
  /\ file \in Files \cup {None} /\ seen \in Manifests \cup {None}
  /\ loaded \in [data : Manifests \cup {None}, mtime : Nat]
  /\ loaded.data = seen
  /\ seen # None => loaded.mtime = seen.mtime

CompTypes ==
  /\ recs \in [Users -> Seq(RecordType)] /\ sars \subseteq Users
  /\ FixturesOK
  /\ req \in [Requests -> ReqType] /\ log \in [Requests -> 0..1]
  /\ granted \in [Users -> Nat]

(* Every level that gates a transfer was granted by an officer.            *)
LevelsGranted ==
  \A u \in Users : \A i \in 1..Len(recs[u]) :
    recs[u][i].level >= REQUIRED_LEVEL => granted[u] >= REQUIRED_LEVEL

CompIInv ==
  /\ CompTypes /\ LevelsGranted
  /\ \A r \in Requests : ReqOK(req[r], log[r], recs, granted)

-----------------------------------------------------------------------------
LEMMA MaxPair ==
  ASSUME NEW a \in Int, NEW b \in Int
  PROVE  Max({a, b}) = IF a >= b THEN a ELSE b
<1> DEFINE m == IF a >= b THEN a ELSE b
<1>1. m \in {a, b} /\ \A y \in {a, b} : m >= y
  OBVIOUS
<1>2. \A x \in {a, b} : (\A y \in {a, b} : x >= y) => x = m
  OBVIOUS
<1> HIDE DEF m
<1>3. Max({a, b}) = m
  BY <1>1, <1>2 DEF Max
<1>4. QED
  BY <1>3 DEF m

LEMMA MinPair ==
  ASSUME NEW a \in Int, NEW b \in Int
  PROVE  Min({a, b}) = IF a <= b THEN a ELSE b
<1> DEFINE m == IF a <= b THEN a ELSE b
<1>1. m \in {a, b} /\ \A y \in {a, b} : m <= y
  OBVIOUS
<1>2. \A x \in {a, b} : (\A y \in {a, b} : x <= y) => x = m
  OBVIOUS
<1> HIDE DEF m
<1>3. Min({a, b}) = m
  BY <1>1, <1>2 DEF Min
<1>4. QED
  BY <1>3 DEF m

(* Appended records and raised grants keep what a request relies on.       *)
LEMMA ReqOKGrows ==
  ASSUME NEW n, NEW l, NEW rs, NEW g, NEW rs2, NEW g2, ReqOK(n, l, rs, g),
         \A u \in Users : /\ Len(rs[u]) \in Nat /\ Len(rs2[u]) \in Nat
                          /\ Len(rs[u]) <= Len(rs2[u])
                          /\ g[u] \in Nat /\ g2[u] \in Nat /\ g[u] <= g2[u]
  PROVE  ReqOK(n, l, rs2, g2)
BY DEF ReqOK, Past, Steps, REQUIRED_LEVEL, Done

(* One request moves, and the tables only grow.                            *)
LEMMA OneRequest ==
  ASSUME CompIInv, CompTypes', LevelsGranted', NEW r \in Requests,
         \A q \in Requests \ {r} : req'[q] = req[q] /\ log'[q] = log[q],
         ReqOK(req'[r], log'[r], recs', granted'),
         \A u \in Users : Len(recs[u]) <= Len(recs'[u]) /\ granted[u] <= granted'[u]
  PROVE  CompIInv'
<1>1. \A u \in Users : /\ Len(recs[u]) \in Nat /\ Len(recs'[u]) \in Nat
                       /\ granted[u] \in Nat /\ granted'[u] \in Nat
  BY DEF CompIInv, CompTypes
<1>2. ASSUME NEW q \in Requests PROVE ReqOK(req'[q], log'[q], recs', granted')
  <2>1. CASE q = r
    BY <2>1
  <2>2. CASE q # r
    <3>1. ReqOK(req[q], log[q], recs, granted)
      BY DEF CompIInv
    <3>2. ReqOK(req[q], log[q], recs', granted')
      BY <1>1, <3>1, ReqOKGrows
    <3>3. QED
      BY <2>2, <3>2
  <2>3. QED
    BY <2>1, <2>2
<1>3. QED
  BY <1>2 DEF CompIInv

(* Memory and the file as they were.                                       *)
LEMMA SameFixtures ==
  ASSUME CompTypes, UNCHANGED fixtures PROVE FixturesOK'
BY DEF CompTypes, FixturesOK, fixtures

LEMMA IdleType == Idle \in ReqType /\ Idle.pc = "idle"
BY DEF Idle, ReqType

(* The record a request becomes by Goto: idle if it submitted or approved. *)
LEMMA GotoRecord ==
  ASSUME CompTypes, NEW r \in Requests, NEW p \in Done \cup Steps, Goto(r, p)
  PROVE  /\ req' \in [Requests -> ReqType]
         /\ \A q \in Requests \ {r} : req'[q] = req[q]
         /\ p \notin Done => req'[r] = [req[r] EXCEPT !.pc = p] /\ req'[r].pc = p
         /\ p \in Done => req'[r].pc \in {p, "idle"}
         /\ p \in Done /\ req[r].kind \notin {"submit", "approve"} =>
              req'[r].pc = p /\ req'[r].u = req[r].u
<1> DEFINE a == [Idle EXCEPT !.pc = p, !.u = req[r].u, !.score = req[r].score]
           b == [req[r] EXCEPT !.pc = p]
           n == IF p \notin Done THEN b
                ELSE IF req[r].kind \in {"submit", "approve"} THEN Idle ELSE a
<1>1. req[r] \in ReqType
  BY DEF CompTypes
<1>2. a \in ReqType /\ a.pc = p /\ a.u = req[r].u
  BY <1>1 DEF ReqType, Idle
<1>3. b \in ReqType /\ b.pc = p
  BY <1>1 DEF ReqType
<1>4. req' = [req EXCEPT ![r] = n]
  BY DEF Goto
<1> HIDE DEF a
<1>5. /\ n \in ReqType
      /\ p \notin Done => n = b
      /\ p \in Done => n.pc \in {p, "idle"}
      /\ p \in Done /\ req[r].kind \notin {"submit", "approve"} => n = a
  BY <1>2, <1>3, IdleType
<1> HIDE DEF n
<1>6. QED
  BY <1>2, <1>3, <1>4, <1>5 DEF CompTypes

(* The tables of records change only as the actions change them.           *)
LEMMA SameTables ==
  ASSUME CompIInv, UNCHANGED <<recs, granted>>, NEW r \in Requests,
         req' \in [Requests -> ReqType], log' \in [Requests -> 0..1],
         sars' \subseteq Users, FixturesOK',
         \A q \in Requests \ {r} : req'[q] = req[q] /\ log'[q] = log[q],
         ReqOK(req'[r], log'[r], recs', granted')
  PROVE  CompIInv'
<1>1. CompTypes' /\ LevelsGranted'
  BY DEF CompIInv, CompTypes, LevelsGranted
<1>2. \A u \in Users : Len(recs[u]) <= Len(recs'[u]) /\ granted[u] <= granted'[u]
  BY DEF CompIInv, CompTypes
<1>3. QED
  BY <1>1, <1>2, OneRequest

(* A request that ends without a decision relies on nothing.               *)
LEMMA EndedOK ==
  ASSUME NEW n, NEW l, NEW rs, NEW g, n.pc \in {"ok", "error", "idle"}
  PROVE  ReqOK(n, l, rs, g)
BY DEF ReqOK, Past, Steps

-----------------------------------------------------------------------------
LEMMA CompInitIInv == CompInit => CompIInv
<1> SUFFICES ASSUME CompInit PROVE CompIInv
  OBVIOUS
<1>1. Idle \in ReqType /\ Idle.pc = "idle"
  BY IdleType
<1>2. CompTypes
  <2>1. FixturesOK
    BY DEF CompInit, FixturesOK, NothingLoaded
  <2>2. QED
    BY <1>1, <2>1 DEF CompInit, CompTypes
<1>3. LevelsGranted
  BY DEF CompInit, LevelsGranted
<1>4. \A r \in Requests : ReqOK(req[r], log[r], recs, granted)
  BY <1>1 DEF CompInit, ReqOK, Past, Steps
<1>5. QED
  BY <1>2, <1>3, <1>4 DEF CompIInv

LEMMA ExpireRecordIInv ==
  ASSUME CompIInv, NEW u \in Users, NEW i \in DOMAIN recs[u], ExpireRecord(u, i)
  PROVE  CompIInv'
<1> DEFINE x == [recs[u][i] EXCEPT !.live = FALSE]
<1>1. recs[u] \in Seq(RecordType) /\ recs[u][i] \in RecordType /\ i \in 1..Len(recs[u])
  BY DEF CompIInv, CompTypes
<1>2. x \in RecordType /\ x.level = recs[u][i].level
  BY <1>1 DEF RecordType
<1>3. recs' = [recs EXCEPT ![u] = [recs[u] EXCEPT ![i] = x]]
  BY DEF ExpireRecord
<1> HIDE DEF x
<1>4. /\ recs' \in [Users -> Seq(RecordType)]
      /\ \A v \in Users : Len(recs'[v]) = Len(recs[v])
      /\ \A v \in Users : \A j \in 1..Len(recs[v]) : recs'[v][j].level = recs[v][j].level
  BY <1>1, <1>2, <1>3 DEF CompIInv, CompTypes
<1>5. CompTypes'
  <2>1. FixturesOK'
    BY SameFixtures DEF ExpireRecord, CompIInv
  <2>2. QED
    BY <1>4, <2>1 DEF CompIInv, CompTypes, ExpireRecord
<1>6. LevelsGranted'
  BY <1>4 DEF CompIInv, LevelsGranted, ExpireRecord
<1>7. ASSUME NEW r \in Requests PROVE ReqOK(req[r], log[r], recs', granted)
  <2>1. ReqOK(req[r], log[r], recs, granted)
    BY DEF CompIInv
  <2>2. \A v \in Users : /\ Len(recs[v]) \in Nat /\ Len(recs'[v]) \in Nat
                         /\ Len(recs[v]) <= Len(recs'[v])
                         /\ granted[v] \in Nat /\ granted[v] <= granted[v]
    BY <1>4 DEF CompIInv, CompTypes
  <2>3. QED
    BY <2>1, <2>2, ReqOKGrows
<1>8. QED
  BY <1>5, <1>6, <1>7 DEF CompIInv, ExpireRecord

LEMMA BeginIInv ==
  ASSUME CompIInv, NEW r \in Requests, NEW kind \in Kinds, NEW u \in Users,
         NEW amount \in Amounts \cup {0}, Begin(r, kind, u, amount)
  PROVE  CompIInv'
<1> DEFINE p == CASE kind \in {"submit", "approve"} -> "select"
                  [] kind = "check" -> "kyc"
                  [] OTHER -> "score"
           n1 == [Idle EXCEPT !.kind = kind]
           n2 == [n1 EXCEPT !.u = u]
           n3 == [n2 EXCEPT !.amount = amount]
           n == [n3 EXCEPT !.pc = p]
<1>1. kind \in AllKinds
  BY ComplianceAssumption
<1>2. (p = "select" /\ kind \in {"submit", "approve"}) \/ (p = "kyc" /\ kind = "check") \/ (p = "score" /\ kind # "check")
  OBVIOUS
<1>3. req' = [req EXCEPT ![r] = n] /\ log' = [log EXCEPT ![r] = 0]
  BY DEF Begin
<1> HIDE DEF p
<1>4. n \in ReqType /\ n.pc = p /\ n.kind = kind /\ n.u = u
  <2>1. p \in Steps /\ Idle \in ReqType
    BY <1>2 DEF Steps, Idle, ReqType
  <2>2. n1 \in ReqType /\ n1.kind = kind
    BY <1>1, <2>1 DEF ReqType
  <2> HIDE DEF n1
  <2>3. n2 \in ReqType /\ n2.kind = kind /\ n2.u = u
    BY <2>2 DEF ReqType
  <2> HIDE DEF n2
  <2>4. n3 \in ReqType /\ n3.kind = kind /\ n3.u = u
    BY <2>3 DEF ReqType
  <2> HIDE DEF n3
  <2>5. QED
    BY <2>1, <2>4 DEF ReqType
<1> HIDE DEF n
<1>5. ReqOK(n, 0, recs, granted)
  BY <1>1, <1>2, <1>4 DEF ReqOK, Past, Steps
<1>6. /\ req' \in [Requests -> ReqType] /\ req'[r] = n
      /\ log' \in [Requests -> 0..1] /\ log'[r] = 0
      /\ \A q \in Requests \ {r} : req'[q] = req[q] /\ log'[q] = log[q]
  BY <1>3, <1>4 DEF CompIInv, CompTypes
<1>7. UNCHANGED <<recs, granted, sars>> /\ FixturesOK' /\ sars \subseteq Users
  BY SameFixtures DEF Begin, CompIInv, CompTypes
<1>8. QED
  BY <1>5, <1>6, <1>7, SameTables

(* A request that only moves, to n, with the tables and its log untouched. *)
LEMMA OnlyMoves ==
  ASSUME CompIInv, NEW r \in Requests, NEW n \in ReqType,
         req' = [req EXCEPT ![r] = n], UNCHANGED <<recs, log, granted>>,
         sars' \subseteq Users, FixturesOK',
         ReqOK(n, log[r], recs, granted)
  PROVE  CompIInv'
<1>1. /\ req' \in [Requests -> ReqType] /\ req'[r] = n
      /\ log' \in [Requests -> 0..1]
      /\ \A q \in Requests \ {r} : req'[q] = req[q] /\ log'[q] = log[q]
  BY DEF CompIInv, CompTypes
<1>2. ReqOK(req'[r], log'[r], recs', granted')
  BY <1>1
<1>3. QED
  BY <1>1, <1>2, SameTables

(* The same for Goto.                                                      *)
LEMMA OnlyGoes ==
  ASSUME CompIInv, NEW r \in Requests, NEW p \in Done \cup Steps, Goto(r, p),
         UNCHANGED <<recs, log, granted>>,
         sars' \subseteq Users, FixturesOK',
         ReqOK(req'[r], log[r], recs, granted)
  PROVE  CompIInv'
<1>1. /\ req' \in [Requests -> ReqType]
      /\ \A q \in Requests \ {r} : req'[q] = req[q]
  BY GotoRecord DEF CompIInv
<1>2. /\ log' \in [Requests -> 0..1]
      /\ \A q \in Requests \ {r} : log'[q] = log[q]
  BY DEF CompIInv, CompTypes
<1>3. ReqOK(req'[r], log'[r], recs', granted')
  OBVIOUS
<1>4. QED
  BY <1>1, <1>2, <1>3, SameTables

LEMMA SelectRecordIInv ==
  ASSUME CompIInv, NEW r \in Requests, SelectRecord(r)
  PROVE  CompIInv'
<1> DEFINE k == Len(recs[req[r].u])
           n == [req[r] EXCEPT !.pc = "commit", !.idx = k]
<1>1. /\ req[r] \in ReqType /\ req[r].pc = "select" /\ req[r].u \in Users
      /\ req[r].kind \in {"submit", "approve"} /\ log[r] = 0 /\ k \in Nat
  BY DEF CompIInv, CompTypes, ReqOK, Steps, SelectRecord
<1>2. sars' \subseteq Users /\ FixturesOK'
  BY SameFixtures DEF CompIInv, CompTypes, SelectRecord
<1>3. UNCHANGED <<recs, log, granted>>
  BY DEF SelectRecord
<1>4. CASE Goto(r, "error")
  <2>1. req'[r].pc \in {"error", "idle"}
    BY <1>4, GotoRecord DEF CompIInv, Done
  <2>2. ReqOK(req'[r], log[r], recs, granted)
    BY <2>1, EndedOK
  <2>3. QED
    BY <1>2, <1>3, <1>4, <2>2, OnlyGoes DEF Done
<1>5. CASE /\ ~(k = 0 /\ req[r].kind = "approve")
           /\ req' = [req EXCEPT ![r].pc = "commit", ![r].idx = k]
  <2>1. /\ n \in ReqType /\ n.pc = "commit" /\ n.idx = k /\ n.u = req[r].u
        /\ n.kind = req[r].kind
    BY <1>1, ZenonT(60) DEF ReqType, Steps
  <2>2. req' = [req EXCEPT ![r] = n]
    BY <1>5, <1>1 DEF CompIInv, CompTypes
  <2> HIDE DEF n
  <2>3. ReqOK(n, log[r], recs, granted)
    BY <1>1, <1>5, <2>1 DEF ReqOK, Past, Steps, AllKinds
  <2>4. QED
    BY <1>2, <1>3, <2>1, <2>2, <2>3, OnlyMoves
<1>6. QED
  BY <1>4, <1>5 DEF SelectRecord

LEMMA CommitSubmitIInv ==
  ASSUME CompIInv, NEW r \in Requests, CommitSubmit(r)
  PROVE  CompIInv'
<1> DEFINE u == req[r].u
           i == req[r].idx
           x == Record("EN_COURS", 1, "FAIBLE", TRUE)
           y == [recs[u][i] EXCEPT !.status = "EN_COURS"]
           s == IF i = 0 THEN Append(recs[u], x) ELSE [recs[u] EXCEPT ![i] = y]
<1>1. /\ req[r] \in ReqType /\ u \in Users /\ recs[u] \in Seq(RecordType)
      /\ i \in 0..Len(recs[u])
  BY DEF CompIInv, CompTypes, ReqOK, Steps, CommitSubmit, SubmitAtLevel
<1>2. x \in RecordType /\ x.level = 1
  BY DEF RecordType, Record
<1>3. i # 0 => y \in RecordType /\ y.level = recs[u][i].level
  <2> HAVE i # 0
  <2>1. recs[u][i] \in RecordType
    BY <1>1
  <2>2. QED
    BY <2>1 DEF RecordType
<1>4. recs' = [recs EXCEPT ![u] = s]
  BY DEF CommitSubmit, SubmitAtLevel
<1> HIDE DEF x, y
<1>5. /\ s \in Seq(RecordType) /\ Len(s) >= Len(recs[u])
      /\ \A j \in 1..Len(s) : s[j].level = 1
                               \/ (j <= Len(recs[u]) /\ s[j].level = recs[u][j].level)
  <2>1. CASE i = 0
    BY <1>1, <1>2, <2>1
  <2>2. CASE i # 0
    BY <1>1, <1>3, <2>2
  <2>3. QED
    BY <2>1, <2>2
<1> HIDE DEF s, i, u
<1>6. Goto(r, "ok") /\ UNCHANGED <<sars, log, granted>> /\ FixturesOK'
  BY SameFixtures DEF CommitSubmit, SubmitAtLevel, CompIInv
<1>7. /\ req' \in [Requests -> ReqType] /\ req'[r].pc \in {"ok", "idle"}
      /\ \A q \in Requests \ {r} : req'[q] = req[q]
  BY <1>6, GotoRecord DEF CompIInv, Done
<1>8. CompTypes'
  BY <1>1, <1>4, <1>5, <1>6, <1>7 DEF CompIInv, CompTypes
<1>9. LevelsGranted'
  BY <1>1, <1>4, <1>5, <1>6 DEF CompIInv, CompTypes, LevelsGranted, REQUIRED_LEVEL
<1>10. \A v \in Users : Len(recs[v]) <= Len(recs'[v]) /\ granted[v] <= granted'[v]
  BY <1>1, <1>4, <1>5, <1>6 DEF CompIInv, CompTypes
<1>11. ReqOK(req'[r], log'[r], recs', granted')
  BY <1>7, EndedOK
<1>12. \A q \in Requests \ {r} : req'[q] = req[q] /\ log'[q] = log[q]
  BY <1>6, <1>7
<1>13. QED
  BY <1>8, <1>9, <1>10, <1>11, <1>12, OneRequest

(* An approval that the database takes.                                    *)
LEMMA ApprovedIInv ==
  ASSUME CompIInv, NEW r \in Requests, NEW level \in Levels,
         NEW status \in {"APPROUVE", "VERIFIE"}, CommitApprove(r, level, status),
         ~(SqlSchema /\ status = "VERIFIE")
  PROVE  CompIInv'
<1> DEFINE u == req[r].u
           i == req[r].idx
           x == Record(status, level, recs[u][i].risk, TRUE)
           s == [recs[u] EXCEPT ![i] = x]
           g == IF granted[u] >= level THEN granted[u] ELSE level
<1>0. level \in Nat
  BY ComplianceAssumption
<1>1. /\ req[r] \in ReqType /\ u \in Users /\ recs[u] \in Seq(RecordType)
      /\ i \in 1..Len(recs[u]) /\ granted[u] \in Nat
  BY DEF CompIInv, CompTypes, ReqOK, Steps, CommitApprove
<1>2. x \in RecordType /\ x.level = level
  <2>1. recs[u][i] \in RecordType
    BY <1>1
  <2>2. QED
    BY <2>1 DEF RecordType, Record
<1>3. recs' = [recs EXCEPT ![u] = s]
  BY <1>1 DEF CommitApprove
<1>4. granted' = [granted EXCEPT ![u] = g]
  <2>1. Max({granted[u], level}) = g
    BY <1>0, <1>1, MaxPair
  <2>2. granted' = [granted EXCEPT ![u] = Max({granted[u], level})]
    BY DEF CommitApprove
  <2>3. QED
    BY <2>1, <2>2
<1>5. g \in Nat /\ g >= level /\ g >= granted[u]
  BY <1>0, <1>1
<1> HIDE DEF x, g
<1>6. /\ s \in Seq(RecordType) /\ Len(s) = Len(recs[u])
      /\ \A j \in 1..Len(s) : s[j].level = level \/ s[j].level = recs[u][j].level
  BY <1>1, <1>2
<1> HIDE DEF s, i, u
<1>7. Goto(r, "ok") /\ UNCHANGED <<sars, log>> /\ FixturesOK'
  BY SameFixtures DEF CommitApprove, CompIInv
<1>8. /\ req' \in [Requests -> ReqType] /\ req'[r].pc \in {"ok", "idle"}
      /\ \A q \in Requests \ {r} : req'[q] = req[q]
  BY <1>7, GotoRecord DEF CompIInv, Done
<1>9. CompTypes'
  BY <1>1, <1>3, <1>4, <1>5, <1>6, <1>7, <1>8 DEF CompIInv, CompTypes
<1>10. \A v \in Users : Len(recs[v]) <= Len(recs'[v]) /\ granted[v] <= granted'[v]
  BY <1>1, <1>3, <1>4, <1>5, <1>6 DEF CompIInv, CompTypes
<1>11. LevelsGranted'
  <2> SUFFICES ASSUME NEW v \in Users, NEW j \in 1..Len(recs'[v]),
                      recs'[v][j].level >= REQUIRED_LEVEL
               PROVE  granted'[v] >= REQUIRED_LEVEL
    BY DEF LevelsGranted
  <2>1. CASE v = u
    <3>1. recs'[u] = s /\ granted'[u] = g
      BY <1>1, <1>3, <1>4 DEF CompIInv, CompTypes
    <3>2. j \in 1..Len(s) /\ s[j].level >= REQUIRED_LEVEL
      BY <2>1, <3>1
    <3>3. level \in Nat /\ granted[u] \in Nat /\ REQUIRED_LEVEL \in Nat
      BY <1>0, <1>1 DEF CompIInv, CompTypes, REQUIRED_LEVEL
    <3>4. level >= REQUIRED_LEVEL \/ granted[u] >= REQUIRED_LEVEL
      BY <1>1, <1>6, <3>2 DEF CompIInv, LevelsGranted
    <3>5. g >= REQUIRED_LEVEL
      BY <1>5, <3>3, <3>4
    <3>6. QED
      BY <2>1, <3>1, <3>5
  <2>2. CASE v # u
    BY <1>1, <1>3, <1>4, <2>2 DEF CompIInv, CompTypes, LevelsGranted
  <2>3. QED
    BY <2>1, <2>2
<1>12. ReqOK(req'[r], log'[r], recs', granted')
  BY <1>8, EndedOK
<1>13. \A q \in Requests \ {r} : req'[q] = req[q] /\ log'[q] = log[q]
  BY <1>7, <1>8
<1>14. QED
  BY <1>9, <1>10, <1>11, <1>12, <1>13, OneRequest

LEMMA CommitApproveIInv ==
  ASSUME CompIInv, NEW r \in Requests, NEW level \in Levels,
         NEW status \in {"APPROUVE", "VERIFIE"}, CommitApprove(r, level, status)
  PROVE  CompIInv'
<1>1. CASE ~(SqlSchema /\ status = "VERIFIE")
  BY <1>1, ApprovedIInv
<1>2. CASE SqlSchema /\ status = "VERIFIE"
  <2>1. Goto(r, "error") /\ UNCHANGED <<recs, granted, sars, log>> /\ FixturesOK'
    BY <1>2, SameFixtures DEF CommitApprove, CompIInv
  <2>2. req'[r].pc \in {"error", "idle"}
    BY <2>1, GotoRecord DEF CompIInv, Done
  <2>3. ReqOK(req'[r], log[r], recs, granted)
    BY <2>2, EndedOK
  <2>4. sars' \subseteq Users
    BY <2>1 DEF CompIInv, CompTypes
  <2>5. QED
    BY <2>1, <2>3, <2>4, OnlyGoes DEF Done
<1>3. QED
  BY <1>1, <1>2

LEMMA VerifyKycIInv ==
  ASSUME CompIInv, NEW r \in Requests, VerifyKyc(r)
  PROVE  CompIInv'
<1> DEFINE u == req[r].u
           t == IF recs[u] = <<>> THEN "error" ELSE "blocked"
           p == IF recs[u] # <<>> /\ KycOk(u) THEN "screen" ELSE "block"
           m == [req[r] EXCEPT !.then = t]
           n == [m EXCEPT !.pc = p]
<1>1. /\ req[r] \in ReqType /\ u \in Users /\ req[r].kind = "check" /\ log[r] = 0
      /\ recs[u] \in Seq(RecordType)
  BY DEF CompIInv, CompTypes, ReqOK, Steps, VerifyKyc, KycRefusal
<1>2. p = "screen" => t = "blocked" /\ granted[u] >= REQUIRED_LEVEL
  <2> HAVE p = "screen"
  <2>1. recs[u] # <<>> /\ recs[u][Len(recs[u])].level >= REQUIRED_LEVEL
    BY DEF KycOk, Newest
  <2>2. Len(recs[u]) \in 1..Len(recs[u])
    BY <1>1, <2>1
  <2>3. QED
    BY <1>1, <2>1, <2>2 DEF CompIInv, LevelsGranted
<1>3. p \in {"screen", "block"} /\ t \in {"error", "blocked"}
  OBVIOUS
<1>4. req' = [req EXCEPT ![r] = n]
  BY <1>1 DEF VerifyKyc, KycRefusal, CompIInv, CompTypes
<1> HIDE DEF p, t
<1>5. m \in ReqType /\ m.then = t /\ m.u = u /\ m.kind = "check"
  BY <1>1, <1>3, ZenonT(60) DEF ReqType
<1> HIDE DEF m, u
<1>6. n \in ReqType /\ n.pc = p /\ n.then = t /\ n.u = u /\ n.kind = "check"
  BY <1>3, <1>5 DEF ReqType, Steps
<1> HIDE DEF n
<1>7. ReqOK(n, log[r], recs, granted)
  BY <1>1, <1>2, <1>3, <1>6 DEF ReqOK, Past, Steps, AllKinds
<1>8. /\ UNCHANGED <<recs, log, granted>>
      /\ sars' \subseteq Users /\ FixturesOK'
  BY SameFixtures DEF VerifyKyc, KycRefusal, CompIInv, CompTypes
<1>9. QED
  BY <1>4, <1>6, <1>7, <1>8, OnlyMoves

-----------------------------------------------------------------------------
(* What _read_fixtures leaves in memory is the newest trusted manifest.    *)
LEMMA LoadFinds ==
  ASSUME CompTypes, NEW f \in Files \cup {None}
  PROVE  LET new == IF Trusted(f) THEN f.data ELSE seen
         IN  /\ Load(f) \in [data : Manifests \cup {None}, mtime : Nat]
             /\ new \in Manifests \cup {None} /\ Load(f).data = new
             /\ new # None => Load(f).mtime = new.mtime
<1>1. FixturesOK
  BY DEF CompTypes
<1>2. CASE ~Trusted(f)
  BY <1>1, <1>2 DEF Load, FixturesOK
<1>3. CASE Trusted(f)
  <2>1. f \in Files /\ f.data \in Manifests /\ f.data.mtime \in Nat
    <3>1. f \in Files
      BY <1>3 DEF Trusted
    <3>2. f.data \in Manifests
      BY <3>1 DEF Files
    <3>3. f.data \in ManifestType
      BY <3>2, ComplianceAssumption
    <3>4. QED
      BY <3>1, <3>2, <3>3 DEF ManifestType
  <2>2. CASE ~Fresh(f)
    BY <1>3, <2>1, <2>2 DEF Load
  <2>3. CASE Fresh(f)
    <3>1. loaded.data # None /\ loaded.mtime = f.data.mtime
      BY <2>3 DEF Fresh
    <3>2. seen \in Manifests /\ loaded.data = seen /\ seen.mtime = f.data.mtime
      BY <1>1, <3>1 DEF FixturesOK
    <3>3. seen = f.data
      BY <2>1, <3>2, ComplianceAssumption
    <3>4. Load(f) = loaded
      BY <2>3 DEF Load
    <3>5. QED
      BY <1>1, <1>3, <2>1, <3>1, <3>2, <3>3, <3>4 DEF FixturesOK
  <2>4. QED
    BY <2>2, <2>3
<1>4. QED
  BY <1>2, <1>3

LEMMA ScoreType ==
  ASSUME NEW data \in Manifests \cup {None}, NEW u \in Users, NEW a \in Amounts \cup {0}
  PROVE  AmlScore(u, a, data) \in 0..100
<1>1. BaseScore(u, data) \in 0..100
  <2>1. CASE data = None
    BY <2>1 DEF BaseScore
  <2>2. CASE data # None
    <3>1. data \in ManifestType
      BY <2>2, ComplianceAssumption
    <3>2. data.score \in [Users -> 0..100]
      BY <3>1 DEF ManifestType
    <3>3. QED
      BY <2>2, <3>2 DEF BaseScore
  <2>3. QED
    BY <2>1, <2>2
<1>2. a \in Nat
  BY ComplianceAssumption
<1> DEFINE b == BaseScore(u, data) + a
<1>3. b \in Nat
  BY <1>1, <1>2
<1> HIDE DEF b
<1>4. Min({100, b}) = IF 100 <= b THEN 100 ELSE b
  BY <1>3, MinPair
<1>5. AmlScore(u, a, data) = Min({100, b})
  BY DEF AmlScore, b
<1>6. QED
  BY <1>3, <1>4, <1>5

(* Where a scored request goes.                                            *)
LEMMA AfterScoreStep ==
  ASSUME NEW r \in Requests, NEW score \in 0..100
  PROVE  /\ req[r].kind = "check" => AfterScore(r, score) \in {"mica", "sar", "block"}
         /\ req[r].kind # "check" => AfterScore(r, score) \in {"sar", "ok"}
BY DEF AfterScore

(* A score computed from the manifest data in memory.                      *)
LEMMA ScoreIInv ==
  ASSUME CompIInv, NEW r \in Requests, NEW data \in Manifests \cup {None}, Score(r, data),
         UNCHANGED <<recs, log, granted>>, sars' \subseteq Users, FixturesOK'
  PROVE  CompIInv'
<1> DEFINE u == req[r].u
<1>0. /\ req[r] \in ReqType /\ ReqOK(req[r], log[r], recs, granted)
      /\ req \in [Requests -> ReqType]
  BY DEF CompIInv, CompTypes
<1> DEFINE sc == AmlScore(u, req[r].amount, data)
           p == IF sc > RecordAbove /\ recs[u] # <<>> THEN "rate" ELSE AfterScore(r, sc)
           m1 == [req[r] EXCEPT !.score = sc]
           m2 == [m1 EXCEPT !.idx = Len(recs[u])]
           n == [m2 EXCEPT !.pc = p]
<1>1. req[r].pc \in {"score", "screen"}
  BY DEF Score
<1>2. /\ u \in Users /\ recs[u] \in Seq(RecordType) /\ req[r].amount \in Amounts \cup {0}
      /\ log[r] = 0 /\ req[r].kind \in AllKinds
      /\ req[r].pc = "score" => req[r].kind # "check"
      /\ req[r].pc = "screen" => /\ req[r].kind = "check" /\ req[r].then = "blocked"
                                 /\ granted[u] >= REQUIRED_LEVEL
  BY <1>0, <1>1 DEF ReqOK, Past, Steps, ReqType, CompIInv, CompTypes
<1>3. sc \in 0..100
  BY <1>2, ScoreType, ZenonT(60)
<1>4. (p = "rate" /\ Len(recs[u]) \in 1..Len(recs[u])) \/ p = AfterScore(r, sc)
  <2>1. recs[u] # <<>> => Len(recs[u]) \in 1..Len(recs[u])
    BY <1>2
  <2>2. QED
    BY <2>1
<1>5. req' = [req EXCEPT ![r] = n]
  BY <1>0 DEF Score
<1> HIDE DEF sc, p
<1>6. /\ req[r].kind = "check" => p \in {"rate", "mica", "sar", "block"}
      /\ req[r].kind # "check" => p \in {"rate", "sar", "ok"}
      /\ p = "rate" => Len(recs[u]) \in 1..Len(recs[u])
  BY <1>3, <1>4, AfterScoreStep
<1>7. m1 \in ReqType /\ m1.kind = req[r].kind /\ m1.u = u /\ m1.then = req[r].then
  BY <1>0, <1>3 DEF ReqType
<1> HIDE DEF m1, u
<1>8. /\ m2 \in ReqType /\ m2.kind = req[r].kind /\ m2.u = u /\ m2.then = req[r].then
      /\ m2.idx = Len(recs[u])
  <2>1. Len(recs[u]) \in Nat
    BY <1>2
  <2>2. QED
    BY <1>7, <2>1, ZenonT(60) DEF ReqType
<1> HIDE DEF m2
<1>9. p \in Done \cup Steps
  BY <1>6 DEF Done, Steps
<1>10. /\ n \in ReqType /\ n.kind = req[r].kind /\ n.u = u /\ n.then = req[r].then
       /\ n.idx = Len(recs[u]) /\ n.pc = p
  BY <1>8, <1>9, ZenonT(60) DEF ReqType
<1> HIDE DEF n
<1>11. CASE req[r].kind = "check"
  <2>1. req[r].then = "blocked" /\ granted[u] >= REQUIRED_LEVEL
    BY <1>1, <1>2, <1>11
  <2>2. ReqOK(n, log[r], recs, granted)
    BY <1>2, <1>4, <1>6, <1>10, <1>11, <2>1 DEF ReqOK, Past, Steps, AllKinds
  <2>3. QED
    BY <1>5, <1>10, <2>2, OnlyMoves
<1>12. CASE req[r].kind # "check"
  <2>1. ReqOK(n, log[r], recs, granted)
    BY <1>2, <1>4, <1>6, <1>10, <1>12 DEF ReqOK, Past, Steps, AllKinds
  <2>2. QED
    BY <1>5, <1>10, <2>1, OnlyMoves
<1>13. QED
  BY <1>11, <1>12

LEMMA ScreenIInv ==
  ASSUME CompIInv, NEW r \in Requests, NEW f \in Files \cup {None}, Screen(r, f)
  PROVE  CompIInv'
<1> DEFINE data == Load(f).data
<1>1. data \in Manifests \cup {None}
  BY LoadFinds DEF CompIInv
<1>2. UNCHANGED <<recs, log, granted>> /\ sars' \subseteq Users /\ FixturesOK'
  <2>1. FixturesOK'
    BY LoadFinds DEF Screen, CompIInv, CompTypes, FixturesOK
  <2>2. QED
    BY <2>1 DEF Screen, CompIInv, CompTypes
<1>3. req[r] \in ReqType /\ ReqOK(req[r], log[r], recs, granted)
  BY DEF CompIInv, CompTypes
<1>4. CASE ListedStops(r, data)
  <2>1. req'[r] = [req[r] EXCEPT !.pc = "block"] /\ Goto(r, "block") /\ req[r].pc = "screen"
    BY <1>4, GotoRecord DEF ListedStops, CompIInv, Steps, Done
  <2>2. /\ req'[r].pc = "block" /\ req'[r].kind = req[r].kind /\ req'[r].u = req[r].u
        /\ req'[r].then = req[r].then
    BY <1>3, <2>1 DEF ReqType
  <2>3. ReqOK(req'[r], log[r], recs, granted)
    BY <1>3, <2>1, <2>2 DEF ReqOK, Past, Steps
  <2>4. QED
    BY <1>2, <2>1, <2>3, OnlyGoes DEF Steps
<1>5. CASE Score(r, data)
  BY <1>1, <1>2, <1>5, ScoreIInv
<1>6. QED
  BY <1>4, <1>5 DEF Screen

LEMMA ScreenInWorkerIInv ==
  ASSUME CompIInv, NEW r \in Requests, NEW data \in Manifests \cup {None},
         ScreenInWorker(r, data)
  PROVE  CompIInv'
<1>1. UNCHANGED <<recs, log, granted>> /\ sars' \subseteq Users /\ FixturesOK'
  BY SameFixtures DEF ScreenInWorker, CompIInv, CompTypes
<1>2. QED
  BY <1>1, ScoreIInv DEF ScreenInWorker

-----------------------------------------------------------------------------
(* A rating that the database takes.                                       *)
LEMMA RatedIInv ==
  ASSUME CompIInv, NEW r \in Requests, RateRecord(r),
         ~(SqlSchema /\ Category(req[r].score) = "MOYEN")
  PROVE  CompIInv'
<1> DEFINE u == req[r].u
           i == req[r].idx
           c == Category(req[r].score)
           x == [recs[u][i] EXCEPT !.risk = c]
           s == [recs[u] EXCEPT ![i] = x]
           p == AfterScore(r, req[r].score)
<1>1. /\ req[r] \in ReqType /\ ReqOK(req[r], log[r], recs, granted) /\ req[r].pc = "rate"
      /\ req[r].score \in 0..100
  BY DEF CompIInv, CompTypes, RateRecord, ReqType
<1>2. /\ u \in Users /\ recs[u] \in Seq(RecordType) /\ i \in 1..Len(recs[u])
      /\ log[r] = 0 /\ req[r].kind \in AllKinds
      /\ req[r].kind = "check" => req[r].then = "blocked" /\ granted[u] >= REQUIRED_LEVEL
  BY <1>1 DEF ReqOK, Past, Steps, CompIInv, CompTypes
<1>3. c \in {"FAIBLE", "MOYEN", "ELEVE", "CRITIQUE"}
  BY <1>1 DEF Category, MAX_AML_SCORE, SAR_THRESHOLD
<1>4. recs' = [recs EXCEPT ![u] = s]
  BY <1>2 DEF RateRecord
<1> HIDE DEF c
<1>5. x \in RecordType /\ x.level = recs[u][i].level
  <2>1. recs[u][i] \in RecordType
    BY <1>2
  <2>2. QED
    BY <1>3, <2>1 DEF RecordType
<1> HIDE DEF x
<1>6. /\ s \in Seq(RecordType) /\ Len(s) = Len(recs[u])
      /\ \A j \in 1..Len(s) : s[j].level = recs[u][j].level
  BY <1>2, <1>5
<1> HIDE DEF s, i
<1>7. Goto(r, p) /\ UNCHANGED <<sars, log, granted>> /\ FixturesOK'
  BY SameFixtures DEF RateRecord, CompIInv
<1>8. /\ req[r].kind = "check" => p \in {"mica", "sar", "block"}
      /\ req[r].kind # "check" => p \in {"sar", "ok"}
  BY <1>1, AfterScoreStep
<1> HIDE DEF p
<1>9. p \in Done \cup Steps
  BY <1>8 DEF Done, Steps
<1>10. /\ req' \in [Requests -> ReqType]
       /\ p \in Done => req'[r].pc \in {p, "idle"}
       /\ \A q \in Requests \ {r} : req'[q] = req[q]
       /\ p \notin Done => req'[r] = [req[r] EXCEPT !.pc = p] /\ req'[r].pc = p
  BY <1>7, <1>9, GotoRecord DEF CompIInv
<1>11. p \notin Done => /\ req'[r].kind = req[r].kind /\ req'[r].then = req[r].then
                         /\ req'[r].u = u
  BY <1>1, <1>10 DEF ReqType
<1> HIDE DEF u
<1>12. CompTypes'
  BY <1>2, <1>4, <1>6, <1>7, <1>10 DEF CompIInv, CompTypes
<1>13. LevelsGranted'
  BY <1>2, <1>4, <1>6, <1>7 DEF CompIInv, CompTypes, LevelsGranted
<1>14. \A v \in Users : Len(recs[v]) <= Len(recs'[v]) /\ granted[v] <= granted'[v]
  BY <1>2, <1>4, <1>6, <1>7 DEF CompIInv, CompTypes
<1>15. \A q \in Requests \ {r} : req'[q] = req[q] /\ log'[q] = log[q]
  BY <1>7, <1>10
<1>16. ReqOK(req'[r], log[r], recs', granted)
  <2>1. CASE p = "ok"
    BY <1>10, <2>1, EndedOK DEF Done
  <2>2. CASE p # "ok"
    <3>1. p \notin Done
      BY <1>8, <2>2 DEF Done
    <3>2. QED
      BY <1>2, <1>8, <1>10, <1>11, <2>2, <3>1 DEF ReqOK, Past, Steps
  <2>3. QED
    BY <2>1, <2>2
<1>17. QED
  BY <1>7, <1>12, <1>13, <1>14, <1>15, <1>16, OneRequest

LEMMA RateRecordIInv ==
  ASSUME CompIInv, NEW r \in Requests, RateRecord(r)
  PROVE  CompIInv'
<1> DEFINE refused == SqlSchema /\ Category(req[r].score) = "MOYEN"
<1>1. CASE ~refused
  BY <1>1, RatedIInv
<1>2. CASE refused
  <2>1. Goto(r, "error") /\ UNCHANGED <<recs, granted, sars, log>> /\ FixturesOK'
    BY <1>2, SameFixtures DEF RateRecord, CompIInv
  <2>2. req'[r].pc \in {"error", "idle"}
    BY <2>1, GotoRecord DEF CompIInv, Done
  <2>3. ReqOK(req'[r], log[r], recs, granted)
    BY <2>2, EndedOK
  <2>4. sars' \subseteq Users
    BY <2>1 DEF CompIInv, CompTypes
  <2>5. QED
    BY <2>1, <2>3, <2>4, OnlyGoes DEF Done
<1>3. QED
  BY <1>1, <1>2

LEMMA GenerateSarIInv ==
  ASSUME CompIInv, NEW r \in Requests, GenerateSar(r)
  PROVE  CompIInv'
<1>1. /\ req[r] \in ReqType /\ req[r].pc = "sar" /\ ReqOK(req[r], log[r], recs, granted)
      /\ sars \subseteq Users
  BY DEF CompIInv, CompTypes, GenerateSar
<1>2. req[r].u \in Users /\ log[r] = 0 /\ (req[r].kind = "check" => req[r].then = "blocked")
  BY <1>1 DEF ReqOK, Past, Steps
<1>3. PICK p \in {"error", "block", "ok"} :
        Goto(r, p) /\ (p = "block" => req[r].kind = "check")
  BY DEF GenerateSar
<1>4. UNCHANGED <<recs, log, granted>> /\ sars' \subseteq Users /\ FixturesOK'
  BY <1>1, <1>2, SameFixtures DEF GenerateSar, CompIInv
<1>5. p \in Done \cup Steps
  BY DEF Done, Steps
<1>6. /\ p # "block" => req'[r].pc \in {p, "idle"}
      /\ p = "block" => req'[r] = [req[r] EXCEPT !.pc = p] /\ req'[r].pc = p
  BY <1>3, <1>5, GotoRecord DEF CompIInv, Done
<1>7. ReqOK(req'[r], log[r], recs, granted)
  <2>1. CASE p # "block"
    BY <1>6, <2>1, EndedOK
  <2>2. CASE p = "block"
    <3>1. /\ req'[r].kind = "check" /\ req'[r].then = "blocked"
          /\ req'[r].u = req[r].u
      BY <1>1, <1>2, <1>3, <1>6, <2>2 DEF ReqType
    <3>2. QED
      BY <1>2, <1>6, <2>2, <3>1 DEF ReqOK, Past, Steps, AllKinds
  <2>3. QED
    BY <2>1, <2>2
<1>8. QED
  BY <1>3, <1>4, <1>5, <1>7, OnlyGoes

(* The gate's two ways to an answer, which write the row of the decision.  *)
LEMMA DecideIInv ==
  ASSUME CompIInv, NEW r \in Requests, NEW p \in {"error", "blocked", "passed"},
         Goto(r, p), log' = [log EXCEPT ![r] = @ + 1], log[r] = 0, req[r].kind = "check",
         UNCHANGED <<recs, sars, fixtures, granted>>,
         p = "passed" => req[r].u \in Users /\ granted[req[r].u] >= REQUIRED_LEVEL
  PROVE  CompIInv'
<1>1. /\ req' \in [Requests -> ReqType] /\ req'[r].pc = p /\ req'[r].u = req[r].u
      /\ \A q \in Requests \ {r} : req'[q] = req[q]
  BY GotoRecord DEF CompIInv, Done
<1>2. /\ log' \in [Requests -> 0..1] /\ log'[r] = 1
      /\ \A q \in Requests \ {r} : log'[q] = log[q]
  BY DEF CompIInv, CompTypes
<1>3. ReqOK(req'[r], log'[r], recs', granted')
  BY <1>1, <1>2 DEF ReqOK, Past, Steps
<1>4. sars' \subseteq Users /\ FixturesOK'
  BY SameFixtures DEF CompIInv, CompTypes
<1>5. QED
  BY <1>1, <1>2, <1>3, <1>4, SameTables

LEMMA LogBlockIInv ==
  ASSUME CompIInv, NEW r \in Requests, LogBlock(r)
  PROVE  CompIInv'
<1>1. req[r].then \in {"error", "blocked"} /\ log[r] = 0 /\ req[r].kind = "check"
  BY DEF CompIInv, ReqOK, Steps, LogBlock
<1>2. QED
  BY <1>1, DecideIInv DEF LogBlock

LEMMA LogPassIInv ==
  ASSUME CompIInv, NEW r \in Requests, LogPass(r)
  PROVE  CompIInv'
<1>1. /\ req[r].u \in Users /\ log[r] = 0 /\ req[r].kind = "check"
      /\ granted[req[r].u] >= REQUIRED_LEVEL
  BY DEF CompIInv, ReqOK, Past, Steps, LogPass
<1>2. QED
  BY <1>1, DecideIInv DEF LogPass

LEMMA CheckMicaIInv ==
  ASSUME CompIInv, NEW r \in Requests, CheckMica(r)
  PROVE  CompIInv'
<1>1. /\ req[r] \in ReqType /\ req[r].pc = "mica" /\ ReqOK(req[r], log[r], recs, granted)
  BY DEF CompIInv, CompTypes, CheckMica
<1>2. Goto(r, "pass") /\ UNCHANGED <<recs, log, granted>>
      /\ sars' \subseteq Users /\ FixturesOK'
  BY SameFixtures DEF CheckMica, CompIInv, CompTypes
<1>3. req'[r] = [req[r] EXCEPT !.pc = "pass"]
  BY <1>2, GotoRecord DEF CompIInv, Done, Steps
<1>4. /\ req'[r].pc = "pass" /\ req'[r].kind = req[r].kind /\ req'[r].u = req[r].u
      /\ req'[r].then = req[r].then
  BY <1>1, <1>3 DEF ReqType
<1>5. ReqOK(req'[r], log[r], recs, granted)
  BY <1>1, <1>4 DEF ReqOK, Past, Steps
<1>6. QED
  BY <1>2, <1>5, OnlyGoes DEF Steps

LEMMA DbFailsIInv ==
  ASSUME CompIInv, NEW r \in Requests, DbFails(r)
  PROVE  CompIInv'
<1>1. req' = [req EXCEPT ![r] = Idle] /\ UNCHANGED <<recs, log, granted>>
      /\ sars' \subseteq Users /\ FixturesOK'
  BY SameFixtures DEF DbFails, CompIInv, CompTypes
<1>2. ReqOK(Idle, log[r], recs, granted)
  BY IdleType, EndedOK
<1>3. QED
  BY <1>1, <1>2, IdleType, OnlyMoves

LEMMA EditFileIInv ==
  ASSUME CompIInv, NEW f \in Files \cup {None}, EditFile(f)
  PROVE  CompIInv'
<1>1. FixturesOK'
  BY DEF EditFile, CompIInv, CompTypes, FixturesOK
<1>2. QED
  BY <1>1 DEF EditFile, CompIInv, CompTypes, LevelsGranted, ReqOK

LEMMA RestartIInv == CompIInv /\ Restart => CompIInv'
<1> SUFFICES ASSUME CompIInv, Restart PROVE CompIInv'
  OBVIOUS
<1>1. FixturesOK'
  BY DEF Restart, CompIInv, CompTypes, FixturesOK, NothingLoaded
<1>2. req' \in [Requests -> ReqType]
  BY IdleType DEF Restart, CompIInv, CompTypes
<1>3. CompTypes' /\ LevelsGranted'
  BY <1>1, <1>2 DEF Restart, CompIInv, CompTypes, LevelsGranted
<1>4. ASSUME NEW r \in Requests PROVE ReqOK(req'[r], log'[r], recs', granted')
  <2>1. UNCHANGED <<recs, log, granted>>
    BY DEF Restart
  <2>2. CASE req'[r] = Idle
    BY <2>2, IdleType, EndedOK
  <2>3. CASE req'[r] = req[r]
    BY <2>1, <2>3 DEF CompIInv
  <2>4. QED
    BY <2>2, <2>3 DEF Restart
<1>5. QED
  BY <1>3, <1>4 DEF CompIInv

LEMMA CompStepIInv == CompIInv /\ [CompNext]_compVars => CompIInv'
<1> SUFFICES ASSUME CompIInv, [CompNext]_compVars PROVE CompIInv'
  OBVIOUS
<1>1. CASE UNCHANGED compVars
  BY <1>1 DEF compVars, fixtures, CompIInv, CompTypes, FixturesOK, LevelsGranted, ReqOK
<1>2. ASSUME NEW u \in Users, NEW i \in DOMAIN recs[u], ExpireRecord(u, i)
      PROVE  CompIInv'
  BY <1>2, ExpireRecordIInv
<1>3. ASSUME NEW r \in Requests, RequestStep(r) PROVE CompIInv'
  <2>1. ASSUME NEW f \in {file, None}, Screen(r, f) PROVE CompIInv'
    <3>1. f \in Files \cup {None}
      BY DEF CompIInv, CompTypes, FixturesOK
    <3>2. QED
      BY <2>1, <3>1, ScreenIInv
  <2>2. QED
    BY <1>3, <2>1, SelectRecordIInv, CommitSubmitIInv, VerifyKycIInv, RateRecordIInv,
       GenerateSarIInv, LogBlockIInv, CheckMicaIInv, LogPassIInv, DbFailsIInv,
       ScreenInWorkerIInv, CommitApproveIInv DEF RequestStep
<1>4. ASSUME NEW r \in Requests, NEW kind \in Kinds, NEW u \in Users,
             NEW amount \in IF kind \in {"check", "screening"} THEN Amounts ELSE {0},
             Begin(r, kind, u, amount)
      PROVE  CompIInv'
  <2>1. amount \in Amounts \cup {0}
    OBVIOUS
  <2>2. QED
    BY <1>4, <2>1, BeginIInv
<1>5. QED
  BY <1>1, <1>2, <1>3, <1>4, EditFileIInv, RestartIInv DEF CompNext, Serving

LEMMA CompImplied ==
  CompIInv => CompTypeOK /\ GateNeedsApproval /\ DecisionsLogged
<1> SUFFICES ASSUME CompIInv PROVE CompTypeOK /\ GateNeedsApproval /\ DecisionsLogged
  OBVIOUS
<1>1. ASSUME NEW u \in Users, NEW i \in DOMAIN recs[u]
      PROVE  /\ recs[u][i].status \in {"EN_COURS", "APPROUVE", "VERIFIE"}
             /\ recs[u][i].level \in {1} \cup Levels
             /\ recs[u][i].risk \in {"FAIBLE", "MOYEN", "ELEVE", "CRITIQUE"}
  <2>1. recs[u][i] \in RecordType
    BY DEF CompIInv, CompTypes
  <2>2. QED
    BY <2>1 DEF RecordType
<1>2. ASSUME NEW r \in Requests, req[r].pc = "rate"
      PROVE  req[r].idx \in DOMAIN recs[req[r].u]
  BY <1>2 DEF CompIInv, CompTypes, ReqOK, Steps
<1>3. CompTypeOK
  BY <1>1, <1>2 DEF CompTypeOK, CompIInv, CompTypes, FixturesOK
<1>4. GateNeedsApproval
  BY DEF GateNeedsApproval, CompIInv, ReqOK
<1>5. DecisionsLogged
  BY DEF DecisionsLogged, CompIInv, ReqOK
<1>6. QED
  BY <1>3, <1>4, <1>5

-----------------------------------------------------------------------------
(* Whatever the interleaving of submissions, approvals, expiries, double   *)
(* inserts and failing round trips: no transfer passes full_check unless   *)
(* an officer once granted its recipient the required level.               *)
THEOREM ComplianceGate == CompSpec => [](CompTypeOK /\ GateNeedsApproval)
<1>1. CompInit => CompIInv
  BY CompInitIInv
<1>2. CompIInv /\ [CompNext]_compVars => CompIInv'
  BY CompStepIInv
<1>3. CompIInv => CompTypeOK /\ GateNeedsApproval
  BY CompImplied
<1>4. QED
  BY <1>1, <1>2, <1>3, PTL DEF CompSpec

(* Every path of full_check to a decision writes exactly one audit row.    *)
THEOREM GateIsLogged == CompSpec => []DecisionsLogged
<1>1. CompInit => CompIInv
  BY CompInitIInv
<1>2. CompIInv /\ [CompNext]_compVars => CompIInv'
  BY CompStepIInv
<1>3. CompIInv => DecisionsLogged
  BY CompImplied
<1>4. QED
  BY <1>1, <1>2, <1>3, PTL DEF CompSpec

(* No step takes a grant back.                                             *)
LEMMA GrantsRise ==
  ASSUME CompIInv, [CompNext]_compVars
  PROVE  \A u \in Users : granted[u] <= granted'[u]
<1>0. \A u \in Users : granted[u] \in Nat
  BY DEF CompIInv, CompTypes
<1>1. CASE UNCHANGED granted
  BY <1>0, <1>1
<1>2. ASSUME NEW r \in Requests, NEW level \in Levels,
             NEW status \in {"APPROUVE", "VERIFIE"}, CommitApprove(r, level, status)
      PROVE  \A u \in Users : granted[u] <= granted'[u]
  <2>1. level \in Nat /\ req[r].u \in Users
    BY <1>2, ComplianceAssumption DEF CompIInv, ReqOK, Steps, CommitApprove
  <2> DEFINE m == Max({granted[req[r].u], level})
  <2>2. m \in Nat /\ m >= granted[req[r].u]
    BY <1>0, <2>1, MaxPair
  <2>3. UNCHANGED granted \/ granted' = [granted EXCEPT ![req[r].u] = m]
    BY <1>2 DEF CommitApprove
  <2> HIDE DEF m
  <2>4. CASE UNCHANGED granted
    BY <1>0, <2>4
  <2>5. CASE granted' = [granted EXCEPT ![req[r].u] = m]
    BY <1>0, <2>1, <2>2, <2>5 DEF CompIInv, CompTypes
  <2>6. QED
    BY <2>3, <2>4, <2>5
<1>3. UNCHANGED granted
      \/ (\E r \in Requests, level \in Levels, status \in {"APPROUVE", "VERIFIE"} :
            CommitApprove(r, level, status))
  <2>1. ASSUME NEW r \in Requests,
               \/ SelectRecord(r) \/ CommitSubmit(r) \/ VerifyKyc(r)
               \/ RateRecord(r) \/ GenerateSar(r) \/ LogBlock(r) \/ CheckMica(r)
               \/ LogPass(r) \/ DbFails(r)
               \/ \E f : Screen(r, f)
               \/ \E data : ScreenInWorker(r, data)
        PROVE  UNCHANGED granted
    BY <2>1 DEF SelectRecord, CommitSubmit, SubmitAtLevel, VerifyKyc, KycRefusal,
       RateRecord, GenerateSar, LogBlock, CheckMica, LogPass, DbFails, Screen,
       ScreenInWorker
  <2>2. ASSUME NEW u \in Users, NEW i, ExpireRecord(u, i)
        PROVE  UNCHANGED granted
    BY <2>2 DEF ExpireRecord
  <2>3. ASSUME NEW r \in Requests, NEW kind, NEW u, NEW amount,
               Begin(r, kind, u, amount)
        PROVE  UNCHANGED granted
    BY <2>3 DEF Begin
  <2>4. ASSUME NEW f, EditFile(f) PROVE UNCHANGED granted
    BY <2>4 DEF EditFile
  <2>5. (UNCHANGED compVars => UNCHANGED granted) /\ (Restart => UNCHANGED granted)
    BY DEF compVars, Restart
  <2>6. QED
    BY <2>1, <2>2, <2>3, <2>4, <2>5, SMTT(40) DEF CompNext, Serving, RequestStep
<1>4. QED
  BY <1>1, <1>2, <1>3

(* A request is moved by its own steps, by its successor and by a restart. *)
LEMMA WhoMoves ==
  ASSUME CompIInv, [CompNext]_compVars, NEW r \in Requests, req[r].pc = "screen"
  PROVE  \/ req'[r] = req[r] \/ req'[r].pc = "idle"
         \/ \E f \in {file, None} : Screen(r, f)
<1>1. req \in [Requests -> ReqType] /\ req[r].kind = "check" /\ req[r].pc = "screen"
  BY DEF CompIInv, CompTypes, ReqOK
<1>2. ASSUME NEW q \in Requests \ {r}, NEW p, Goto(q, p) PROVE req'[r] = req[r]
  BY <1>1, <1>2 DEF Goto
<1>3. ASSUME NEW q \in Requests \ {r}, RequestStep(q) PROVE req'[r] = req[r]
  <2>1. ASSUME \/ CommitSubmit(q) \/ RateRecord(q) \/ GenerateSar(q)
               \/ LogBlock(q) \/ CheckMica(q) \/ LogPass(q)
               \/ \E level, status : CommitApprove(q, level, status)
        PROVE  req'[r] = req[r]
    BY <1>2, <2>1 DEF CommitSubmit, SubmitAtLevel, RateRecord, GenerateSar,
       LogBlock, CheckMica, LogPass, CommitApprove
  <2>2. ASSUME SelectRecord(q) \/ VerifyKyc(q) \/ DbFails(q) PROVE req'[r] = req[r]
    BY <1>1, <1>2, <2>2 DEF SelectRecord, VerifyKyc, KycRefusal, DbFails
  <2>3. ASSUME NEW data, ListedStops(q, data) \/ Score(q, data) PROVE req'[r] = req[r]
    BY <1>1, <1>2, <2>3 DEF ListedStops, Score
  <2>4. ASSUME NEW f, Screen(q, f) PROVE req'[r] = req[r]
    BY <2>3, <2>4 DEF Screen
  <2>5. ASSUME NEW data, ScreenInWorker(q, data) PROVE req'[r] = req[r]
    BY <2>3, <2>5 DEF ScreenInWorker
  <2>6. QED
    BY <1>3, <2>1, <2>2, <2>4, <2>5, SMTT(40) DEF RequestStep
<1>4. ASSUME NEW q \in Requests, NEW kind, NEW u, NEW amount, Begin(q, kind, u, amount)
      PROVE  req'[r] = req[r]
  <2>1. q # r
    BY <1>1, <1>4 DEF Begin, Done
  <2>2. QED
    BY <1>1, <1>4, <2>1 DEF Begin
<1>5. ASSUME RequestStep(r)
      PROVE  req'[r].pc = "idle" \/ \E f \in {file, None} : Screen(r, f)
  <2>1. DbFails(r) => req'[r].pc = "idle"
    BY <1>1, IdleType DEF DbFails
  <2>2. ~(\/ SelectRecord(r) \/ CommitSubmit(r) \/ VerifyKyc(r)
          \/ RateRecord(r) \/ GenerateSar(r) \/ LogBlock(r) \/ CheckMica(r)
          \/ LogPass(r) \/ (\E data : ScreenInWorker(r, data))
          \/ (\E level, status : CommitApprove(r, level, status)))
    BY <1>1 DEF SelectRecord, CommitSubmit, SubmitAtLevel, VerifyKyc, KycRefusal,
       RateRecord, GenerateSar, LogBlock, CheckMica, LogPass, ScreenInWorker, CommitApprove
  <2>3. QED
    BY <1>5, <2>1, <2>2 DEF RequestStep
<1>6. ASSUME Restart PROVE req'[r].pc = "idle"
  BY <1>1, <1>6, IdleType DEF Restart
<1>7. ASSUME \/ UNCHANGED compVars
             \/ \E f : EditFile(f)
             \/ \E u, i : ExpireRecord(u, i)
      PROVE  req'[r] = req[r]
  BY <1>7 DEF compVars, EditFile, ExpireRecord
<1>8. QED
  BY <1>3, <1>4, <1>5, <1>6, <1>7 DEF CompNext, Serving

LEMMA ScreenStops ==
  ASSUME CompIInv, NEW r \in Requests, NEW f \in {file, None}, Screen(r, f),
         req[r].pc = "screen", Listed(req[r].u, seen')
  PROVE  req'[r].pc = "block"
<1>1. f \in Files \cup {None} /\ CompTypes
  BY DEF CompIInv, CompTypes, FixturesOK
<1>2. Load(f).data = seen'
  BY <1>1, LoadFinds DEF Screen
<1>3. ListedStops(r, Load(f).data)
  BY <1>2 DEF Screen, Score
<1>4. QED
  BY <1>1, <1>3, GotoRecord DEF ListedStops, Steps, Done

(* What memory holds is what the lists must be checked against: through    *)
(* missing, unsigned, unreadable, replaced and put-back files, a check     *)
(* whose participant is on the newest manifest found signed is stopped.    *)
THEOREM ListedStopped == CompSpec => ListedAreStopped
<1>1. CompInit => CompIInv
  BY CompInitIInv
<1>2. CompIInv /\ [CompNext]_compVars => CompIInv'
  BY CompStepIInv
<1>3. CompIInv /\ [CompNext]_compVars =>
        [\A r \in Requests :
           /\ req[r].pc = "screen" /\ req'[r].pc \notin {"screen", "idle"}
           /\ Listed(req[r].u, seen')
           => req'[r].pc = "block"]_compVars
  BY WhoMoves, ScreenStops
<1>4. QED
  BY <1>1, <1>2, <1>3, PTL DEF CompSpec, ListedAreStopped

-----------------------------------------------------------------------------
(* The credentials.                                                        *)
ZSteps == {"existing", "eligible", "insert", "credential", "proof", "persist"}
CredType ==
  [u : Users, key : Keys, claim : Claims, live : BOOLEAN, revoked : BOOLEAN]
ZReqType ==
  [pc : ZDone \cup {"idle"} \cup ZSteps, u : Users \cup {None}, key : Keys \cup {None},
   cred : Nat, null : Nullifiers \cup {None}, purpose : Purposes \cup {None},
   claim : Claims, dead : BOOLEAN]

RevokedIn(key, cs) == \E c \in 1..Len(cs) : cs[c].key = key /\ cs[c].revoked

(* What a request z to the zkp router may rely on, with credentials cs and *)
(* grants g: it has a user and a key while it issues, a credential and a   *)
(* nullifier while it verifies; the level it signs or has accepted for     *)
(* asset_create was granted; and a key that was revoked when it began is   *)
(* still revoked when the key is checked.                                  *)
Verifying(z) == z.pc \in {"credential", "proof", "persist", "accepted"}
ZOK(z, cs, g) ==
  /\ z.cred \in 0..Len(cs)
  /\ z.pc \in {"existing", "eligible", "insert"} => z.u \in Users /\ z.key \in Keys
  /\ z.pc = "insert" /\ z.claim.level >= REQUIRED_LEVEL => g[z.u] >= REQUIRED_LEVEL
  /\ Verifying(z) => z.cred \in 1..Len(cs) /\ z.null \in Nullifiers
  /\ z.pc = "credential" /\ z.dead => RevokedIn(cs[z.cred].key, cs)
  /\ z.pc \in {"proof", "persist", "accepted"} => ~z.dead
  /\ z.pc \in {"persist", "accepted"} /\ z.purpose = "asset_create" =>
       cs[z.cred].claim.level >= REQUIRED_LEVEL

ZTypes ==
  /\ creds \in Seq(CredType) /\ Len(creds) <= MaxCreds
  /\ used \subseteq Nullifiers
  /\ zreq \in [Holders -> ZReqType] /\ accepted \in [Nullifiers -> Nat]

(* Rows of zkp_nullifiers and acceptances go together.                     *)
AcceptedIsUsed ==
  \A n \in Nullifiers : accepted[n] <= 1 /\ (n \notin used => accepted[n] = 0)

(* A signed level was granted.                                             *)
ClaimsGranted ==
  \A c \in 1..Len(creds) :
    creds[c].claim.level >= REQUIRED_LEVEL => granted[creds[c].u] >= REQUIRED_LEVEL

ZIInv ==
  /\ ZTypes /\ AcceptedIsUsed /\ ClaimsGranted
  /\ \A q \in Holders : ZOK(zreq[q], creds, granted)

(* Rows are only added, revoked and expired; grants only rise.             *)
Grown(cs, cs2, g, g2) ==
  /\ Len(cs) \in Nat /\ Len(cs2) \in Nat /\ Len(cs) <= Len(cs2)
  /\ \A c \in 1..Len(cs) : /\ cs2[c].u = cs[c].u /\ cs2[c].key = cs[c].key
                           /\ cs2[c].claim = cs[c].claim
                           /\ cs[c].revoked => cs2[c].revoked
  /\ \A u \in Users : g[u] \in Nat /\ g2[u] \in Nat /\ g[u] <= g2[u]

LEMMA ZOKGrows ==
  ASSUME NEW z, NEW cs, NEW g, NEW cs2, NEW g2, ZOK(z, cs, g), Grown(cs, cs2, g, g2)
  PROVE  ZOK(z, cs2, g2)
<1>1. z.cred \in 0..Len(cs2) /\ (Verifying(z) => z.cred \in 1..Len(cs2) /\ z.cred \in 1..Len(cs))
  BY DEF ZOK, Grown
<1>2. z.pc = "insert" /\ z.claim.level >= REQUIRED_LEVEL => g2[z.u] >= REQUIRED_LEVEL
  BY DEF ZOK, Grown, REQUIRED_LEVEL
<1>3. z.pc = "credential" /\ z.dead => RevokedIn(cs2[z.cred].key, cs2)
  BY <1>1 DEF ZOK, Grown, RevokedIn, Verifying
<1>4. z.pc \in {"persist", "accepted"} /\ z.purpose = "asset_create" =>
        cs2[z.cred].claim.level >= REQUIRED_LEVEL
  BY <1>1 DEF ZOK, Grown, Verifying
<1>5. QED
  BY <1>1, <1>2, <1>3, <1>4 DEF ZOK

(* Every request but q stays, and the tables only grow.                    *)
LEMMA OneHolder ==
  ASSUME ZIInv, ZTypes', AcceptedIsUsed', ClaimsGranted', NEW q \in Holders,
         Grown(creds, creds', granted, granted'),
         \A p \in Holders \ {q} : zreq'[p] = zreq[p],
         ZOK(zreq'[q], creds', granted')
  PROVE  ZIInv'
<1>1. ASSUME NEW p \in Holders PROVE ZOK(zreq'[p], creds', granted')
  <2>1. CASE p = q
    BY <2>1
  <2>2. CASE p # q
    <3>1. ZOK(zreq[p], creds, granted)
      BY DEF ZIInv
    <3>2. ZOK(zreq[p], creds', granted')
      BY <3>1, ZOKGrows
    <3>3. QED
      BY <2>2, <3>2
  <2>3. QED
    BY <2>1, <2>2
<1>2. QED
  BY <1>1 DEF ZIInv

LEMMA NoHolder ==
  ASSUME ZIInv, ZTypes', AcceptedIsUsed', ClaimsGranted', UNCHANGED zreq,
         Grown(creds, creds', granted, granted')
  PROVE  ZIInv'
<1>1. ASSUME NEW p \in Holders PROVE ZOK(zreq'[p], creds', granted')
  <2>1. ZOK(zreq[p], creds, granted)
    BY DEF ZIInv
  <2>2. QED
    BY <2>1, ZOKGrows
<1>2. QED
  BY <1>1 DEF ZIInv

LEMMA GrownSame ==
  ASSUME CompIInv, ZIInv PROVE Grown(creds, creds, granted, granted)
BY DEF CompIInv, CompTypes, ZIInv, ZTypes, Grown

(* A request that only moves, to z.                                        *)
LEMMA HolderMoves ==
  ASSUME CompIInv, ZIInv, NEW q \in Holders, NEW z \in ZReqType,
         zreq' = [zreq EXCEPT ![q] = z],
         UNCHANGED <<creds, granted, used, accepted>>, ZOK(z, creds, granted)
  PROVE  ZIInv'
<1>1. /\ zreq' \in [Holders -> ZReqType] /\ zreq'[q] = z
      /\ \A p \in Holders \ {q} : zreq'[p] = zreq[p]
  BY DEF ZIInv, ZTypes
<1>2. ZTypes' /\ AcceptedIsUsed' /\ ClaimsGranted'
  BY <1>1 DEF ZIInv, ZTypes, AcceptedIsUsed, ClaimsGranted
<1>3. Grown(creds, creds', granted, granted')
  BY GrownSame
<1>4. ZOK(zreq'[q], creds', granted')
  BY <1>1
<1>5. QED
  BY <1>1, <1>2, <1>3, <1>4, OneHolder

LEMMA ZIdleType == ZIdle \in ZReqType /\ ZIdle.cred = 0 /\ ZIdle.pc = "idle"
<1>1. NoClaim \in Claims
  BY DEF Claims, NoClaim
<1>2. QED
  BY <1>1 DEF ZReqType, ZIdle

(* The record a request becomes by ZGoto, and what its end relies on.      *)
LEMMA ZGotoRecord ==
  ASSUME ZTypes, NEW q \in Holders, NEW p \in ZDone \cup ZSteps, ZGoto(q, p)
  PROVE  \E z \in ZReqType :
           /\ zreq' = [zreq EXCEPT ![q] = z]
           /\ p \in ZDone \ {"accepted"} => z = ZIdle
           /\ p \notin ZDone \ {"accepted"} =>
                /\ z.pc = p /\ z.u = zreq[q].u /\ z.key = zreq[q].key
                /\ z.cred = zreq[q].cred /\ z.null = zreq[q].null
                /\ z.purpose = zreq[q].purpose
                /\ z.claim = zreq[q].claim /\ z.dead = zreq[q].dead
<1> DEFINE z == IF p \in ZDone \ {"accepted"} THEN ZIdle
                ELSE [zreq[q] EXCEPT !.pc = p]
<1>1. zreq[q] \in ZReqType /\ ZIdle \in ZReqType
  BY ZIdleType DEF ZTypes
<1>2. zreq' = [zreq EXCEPT ![q] = z]
  BY DEF ZGoto
<1>3. CASE p \in ZDone \ {"accepted"}
  BY <1>1, <1>2, <1>3
<1>4. CASE p \notin ZDone \ {"accepted"}
  <2>1. z = [zreq[q] EXCEPT !.pc = p]
    BY <1>4
  <2> HIDE DEF z
  <2>2. /\ z \in ZReqType /\ z.pc = p
        /\ z.u = zreq[q].u /\ z.key = zreq[q].key /\ z.cred = zreq[q].cred
        /\ z.null = zreq[q].null /\ z.purpose = zreq[q].purpose
        /\ z.claim = zreq[q].claim /\ z.dead = zreq[q].dead
    BY <1>1, <2>1 DEF ZReqType
  <2>3. QED
    BY <1>2, <1>4, <2>2
<1>5. QED
  BY <1>3, <1>4

LEMMA ZIdleOK ==
  ASSUME ZTypes, NEW g PROVE ZOK(ZIdle, creds, g)
<1>1. Len(creds) \in Nat
  BY DEF ZTypes
<1>2. QED
  BY <1>1, ZIdleType DEF ZOK, Verifying

LEMMA ZInitIInv == Init => CompIInv /\ ZIInv
<1> SUFFICES ASSUME Init PROVE CompIInv /\ ZIInv
  OBVIOUS
<1>1. CompIInv
  BY CompInitIInv DEF Init
<1>2. ZIdle \in ZReqType /\ ZIdle.cred = 0 /\ ZIdle.pc = "idle"
  BY ZIdleType
<1>3. ZTypes /\ AcceptedIsUsed /\ ClaimsGranted /\ Len(creds) = 0
  BY <1>2, CredAssumption DEF Init, ZTypes, AcceptedIsUsed, ClaimsGranted
<1>4. \A q \in Holders : ZOK(zreq[q], creds, granted)
  BY <1>2, <1>3 DEF Init, ZOK, Verifying
<1>5. QED
  BY <1>1, <1>3, <1>4 DEF ZIInv

LEMMA CompKeepsZ ==
  CompIInv /\ ZIInv /\ [CompNext]_compVars /\ UNCHANGED zkVars => ZIInv'
<1> SUFFICES ASSUME CompIInv, ZIInv, [CompNext]_compVars, UNCHANGED zkVars
             PROVE  ZIInv'
  OBVIOUS
<1>1. CompIInv' /\ \A u \in Users : granted[u] <= granted'[u]
  BY CompStepIInv, GrantsRise
<1>2. Grown(creds, creds', granted, granted')
  BY <1>1 DEF CompIInv, CompTypes, ZIInv, ZTypes, Grown, zkVars
<1>3. ZTypes' /\ AcceptedIsUsed'
  BY DEF ZIInv, ZTypes, AcceptedIsUsed, zkVars
<1>4. ClaimsGranted'
  <2> SUFFICES ASSUME NEW c \in 1..Len(creds), creds[c].claim.level >= REQUIRED_LEVEL
               PROVE  granted'[creds[c].u] >= REQUIRED_LEVEL
    BY DEF ClaimsGranted, zkVars
  <2>1. creds[c].u \in Users
    <3>1. creds[c] \in CredType
      BY DEF ZIInv, ZTypes
    <3>2. QED
      BY <3>1 DEF CredType
  <2>2. granted[creds[c].u] >= REQUIRED_LEVEL
    BY DEF ZIInv, ClaimsGranted
  <2>3. QED
    BY <1>2, <2>1, <2>2 DEF Grown, REQUIRED_LEVEL
<1>5. QED
  BY <1>2, <1>3, <1>4, NoHolder DEF zkVars

-----------------------------------------------------------------------------
LEMMA BeginSetupZ ==
  ASSUME CompIInv, ZIInv, NEW q \in Holders, NEW u \in Users, NEW key \in Keys,
         BeginSetup(q, u, key)
  PROVE  ZIInv'
<1> DEFINE z1 == [ZIdle EXCEPT !.pc = "existing"]
           z2 == [z1 EXCEPT !.u = u]
           z == [z2 EXCEPT !.key = key]
<1>1. z1 \in ZReqType /\ z1.pc = "existing" /\ z1.cred = 0
  BY ZIdleType DEF ZReqType, ZSteps
<1>2. zreq' = [zreq EXCEPT ![q] = z]
  BY DEF BeginSetup
<1> HIDE DEF z1
<1>3. z2 \in ZReqType /\ z2.pc = "existing" /\ z2.cred = 0 /\ z2.u = u
  BY <1>1 DEF ZReqType
<1> HIDE DEF z2
<1>4. z \in ZReqType /\ z.pc = "existing" /\ z.cred = 0 /\ z.u = u /\ z.key = key
  BY <1>3 DEF ZReqType
<1> HIDE DEF z
<1>5. Len(creds) \in Nat
  BY DEF ZIInv, ZTypes
<1>6. ZOK(z, creds, granted)
  BY <1>4, <1>5 DEF ZOK, Verifying
<1>7. QED
  BY <1>2, <1>4, <1>6, HolderMoves DEF BeginSetup, compVars

LEMMA BeginVerifyZ ==
  ASSUME CompIInv, ZIInv, NEW q \in Holders, NEW c \in DOMAIN creds,
         NEW n \in Nullifiers, NEW purpose \in Purposes, BeginVerify(q, c, n, purpose)
  PROVE  ZIInv'
<1> DEFINE d == RevokedAmong(creds[c].key, DOMAIN creds)
           z1 == [ZIdle EXCEPT !.pc = "credential"]
           z2 == [z1 EXCEPT !.cred = c]
           z3 == [z2 EXCEPT !.null = n]
           z4 == [z3 EXCEPT !.purpose = purpose]
           z == [z4 EXCEPT !.dead = d]
<1>1. c \in 1..Len(creds) /\ DOMAIN creds = 1..Len(creds) /\ Len(creds) \in Nat
  BY DEF ZIInv, ZTypes
<1>2. d \in BOOLEAN /\ (d => RevokedIn(creds[c].key, creds))
  BY <1>1 DEF RevokedAmong, RevokedIn
<1>3. zreq' = [zreq EXCEPT ![q] = z]
  BY DEF BeginVerify
<1> HIDE DEF d
<1>4. z1 \in ZReqType /\ z1.pc = "credential"
  BY ZIdleType DEF ZReqType, ZSteps
<1> HIDE DEF z1
<1>5. z2 \in ZReqType /\ z2.pc = "credential" /\ z2.cred = c
  BY <1>1, <1>4 DEF ZReqType
<1> HIDE DEF z2
<1>6. z3 \in ZReqType /\ z3.pc = "credential" /\ z3.cred = c /\ z3.null = n
  BY <1>5 DEF ZReqType
<1> HIDE DEF z3
<1>7. z4 \in ZReqType /\ z4.pc = "credential" /\ z4.cred = c /\ z4.null = n
  BY <1>6 DEF ZReqType
<1> HIDE DEF z4
<1>8. z \in ZReqType /\ z.pc = "credential" /\ z.cred = c /\ z.null = n /\ z.dead = d
  BY <1>2, <1>7 DEF ZReqType
<1> HIDE DEF z
<1>9. ZOK(z, creds, granted)
  BY <1>1, <1>2, <1>8 DEF ZOK, Verifying
<1>10. QED
  BY <1>3, <1>8, <1>9, HolderMoves DEF BeginVerify, compVars

LEMMA SelectExistingZ ==
  ASSUME CompIInv, ZIInv, NEW q \in Holders, SelectExisting(q)
  PROVE  ZIInv'
<1>1. zreq[q].pc = "existing" /\ ZOK(zreq[q], creds, granted) /\ zreq[q].pc # "credential"
  BY DEF SelectExisting, ZIInv
<1>2. PICK p \in {"issued", "eligible"} : ZGoto(q, p)
  BY DEF SelectExisting
<1>3. PICK z \in ZReqType :
        /\ zreq' = [zreq EXCEPT ![q] = z]
        /\ p = "issued" => z = ZIdle
        /\ p = "eligible" => /\ z.pc = p /\ z.u = zreq[q].u /\ z.key = zreq[q].key
                             /\ z.cred = zreq[q].cred
  BY <1>2, ZGotoRecord DEF ZIInv, ZDone, ZSteps
<1>4. ZOK(z, creds, granted)
  <2>1. CASE p = "issued"
    BY <1>3, <2>1, ZIdleOK DEF ZIInv
  <2>2. CASE p = "eligible"
    BY <1>1, <1>3, <2>2 DEF ZOK, Verifying
  <2>3. QED
    BY <2>1, <2>2
<1>5. QED
  BY <1>3, <1>4, HolderMoves DEF SelectExisting, compVars

LEMMA CheckEligibilityZ ==
  ASSUME CompIInv, ZIInv, NEW q \in Holders, CheckEligibility(q)
  PROVE  ZIInv'
<1> DEFINE u == zreq[q].u
           cl == IF recs[u] = <<>> THEN NoClaim
                 ELSE [age_ok |-> Newest(u).level >= 2,
                       kyc_ok |-> Newest(u).status = "APPROUVE" /\ Newest(u).live,
                       not_sanctioned |-> TRUE, level |-> Newest(u).level]
           z1 == [zreq[q] EXCEPT !.pc = "insert"]
           z == [z1 EXCEPT !.claim = cl]
<1>1. /\ zreq[q].pc = "eligible" /\ zreq[q] \in ZReqType /\ ZOK(zreq[q], creds, granted)
      /\ u \in Users /\ zreq[q].key \in Keys /\ recs[u] \in Seq(RecordType)
  BY DEF CheckEligibility, ClaimOr, ZIInv, ZTypes, ZOK, CompIInv, CompTypes
<1>2. cl \in Claims /\ (cl.level >= REQUIRED_LEVEL => granted[u] >= REQUIRED_LEVEL)
  <2>1. CASE recs[u] = <<>>
    BY <2>1 DEF NoClaim, Claims, REQUIRED_LEVEL
  <2>2. CASE recs[u] # <<>>
    <3> DEFINE x == Newest(u)
    <3>1. Len(recs[u]) \in 1..Len(recs[u])
      BY <1>1, <2>2
    <3>2. x \in RecordType /\ (x.level >= REQUIRED_LEVEL => granted[u] >= REQUIRED_LEVEL)
      BY <1>1, <3>1 DEF CompIInv, LevelsGranted, Newest
    <3>3. cl = [age_ok |-> x.level >= 2, kyc_ok |-> x.status = "APPROUVE" /\ x.live,
                not_sanctioned |-> TRUE, level |-> x.level]
      BY <2>2
    <3> HIDE DEF x, cl
    <3>4. x.level \in 0..5
      <4>1. x.level \in {1} \cup Levels
        BY <3>2 DEF RecordType
      <4>2. \A l \in Levels : l \in 0..5
        BY ComplianceAssumption
      <4>3. QED
        BY <4>1, <4>2
    <3>5. cl.level = x.level
      BY <3>3
    <3>6. (x.level >= 2) \in BOOLEAN /\ (x.status = "APPROUVE" /\ x.live) \in BOOLEAN
      OBVIOUS
    <3>7. cl \in Claims
      BY <3>3, <3>4, <3>6 DEF Claims
    <3>8. QED
      BY <3>2, <3>5, <3>7
  <2>3. QED
    BY <2>1, <2>2
<1>3. zreq' = [zreq EXCEPT ![q] = z]
  BY DEF CheckEligibility, ClaimOr, ZIInv, ZTypes
<1> HIDE DEF cl
<1>4. /\ z1 \in ZReqType /\ z1.pc = "insert" /\ z1.u = u /\ z1.key = zreq[q].key
      /\ z1.cred = zreq[q].cred
  BY <1>1 DEF ZReqType, ZSteps
<1> HIDE DEF z1, u
<1>5. /\ z \in ZReqType /\ z.pc = "insert" /\ z.u = u /\ z.key = zreq[q].key
      /\ z.cred = zreq[q].cred /\ z.claim = cl
  BY <1>2, <1>4 DEF ZReqType
<1> HIDE DEF z
<1>6. ZOK(z, creds, granted)
  BY <1>1, <1>2, <1>5 DEF ZOK, Verifying
<1>7. QED
  BY <1>3, <1>5, <1>6, HolderMoves DEF CheckEligibility, ClaimOr, compVars

(* A request that ends without an effect.                                  *)
LEMMA EndsZ ==
  ASSUME CompIInv, ZIInv, NEW q \in Holders, ZGoto(q, "error"),
         UNCHANGED <<creds, granted, used, accepted>>
  PROVE  ZIInv'
<1>1. zreq' = [zreq EXCEPT ![q] = ZIdle]
  BY DEF ZGoto, ZDone
<1>2. ZOK(ZIdle, creds, granted)
  BY ZIdleOK DEF ZIInv
<1>3. QED
  BY <1>1, <1>2, ZIdleType, HolderMoves

(* A credential that the database takes.                                   *)
LEMMA InsertedZ ==
  ASSUME CompIInv, ZIInv, NEW q \in Holders, InsertCredential(q),
         ~(SqlSchema /\ KeyTaken(zreq[q].u, zreq[q].key))
  PROVE  ZIInv'
<1> DEFINE x == [u |-> zreq[q].u, key |-> zreq[q].key, claim |-> zreq[q].claim,
                 live |-> TRUE, revoked |-> FALSE]
<1>1. /\ zreq[q].pc = "insert" /\ zreq[q] \in ZReqType /\ ZOK(zreq[q], creds, granted)
      /\ zreq[q].u \in Users /\ zreq[q].key \in Keys /\ Len(creds) < MaxCreds
      /\ creds \in Seq(CredType) /\ Len(creds) \in Nat /\ zreq[q].claim \in Claims
  BY DEF InsertCredential, ZIInv, ZTypes, ZOK, ZReqType
<1>2. x \in CredType /\ x.u = zreq[q].u /\ x.claim = zreq[q].claim
  BY <1>1 DEF CredType
<1>3. creds' = Append(creds, x) /\ UNCHANGED <<compVars, used, accepted>>
  BY DEF InsertCredential
<1> HIDE DEF x
<1>4. /\ creds' \in Seq(CredType) /\ Len(creds') = Len(creds) + 1 /\ Len(creds') <= MaxCreds
      /\ \A c \in 1..Len(creds) : creds'[c] = creds[c]
      /\ creds'[Len(creds) + 1] = x
  BY <1>1, <1>2, <1>3, CredAssumption
<1>5. Grown(creds, creds', granted, granted')
  BY <1>1, <1>3, <1>4 DEF Grown, CompIInv, CompTypes, compVars
<1>6. zreq' = [zreq EXCEPT ![q] = ZIdle]
  BY DEF InsertCredential, ZGoto, ZDone
<1>7. /\ zreq' \in [Holders -> ZReqType] /\ zreq'[q] = ZIdle
      /\ \A p \in Holders \ {q} : zreq'[p] = zreq[p]
  BY <1>6, ZIdleType DEF ZIInv, ZTypes
<1>8. ZTypes' /\ AcceptedIsUsed'
  BY <1>3, <1>4, <1>7 DEF ZIInv, ZTypes, AcceptedIsUsed
<1>9. ClaimsGranted'
  <2> SUFFICES ASSUME NEW c \in 1..Len(creds'), creds'[c].claim.level >= REQUIRED_LEVEL
               PROVE  granted'[creds'[c].u] >= REQUIRED_LEVEL
    BY DEF ClaimsGranted
  <2>1. CASE c \in 1..Len(creds)
    BY <1>3, <1>4, <2>1 DEF ZIInv, ClaimsGranted, compVars
  <2>2. CASE c = Len(creds) + 1
    BY <1>1, <1>2, <1>3, <1>4, <2>2 DEF ZOK, compVars
  <2>3. QED
    BY <1>1, <1>4, <2>1, <2>2
<1>10. ZOK(ZIdle, creds', granted')
  BY <1>1, <1>4, ZIdleType DEF ZOK, Verifying
<1>11. QED
  BY <1>5, <1>7, <1>8, <1>9, <1>10, OneHolder

LEMMA InsertCredentialZ ==
  ASSUME CompIInv, ZIInv, NEW q \in Holders, InsertCredential(q)
  PROVE  ZIInv'
<1> DEFINE refused == SqlSchema /\ KeyTaken(zreq[q].u, zreq[q].key)
<1>1. CASE ~refused
  BY <1>1, InsertedZ
<1>2. CASE refused
  BY <1>2, EndsZ DEF InsertCredential, compVars
<1>3. QED
  BY <1>1, <1>2

LEMMA VerifyCredentialZ ==
  ASSUME CompIInv, ZIInv, NEW q \in Holders, VerifyCredential(q)
  PROVE  ZIInv'
<1> DEFINE key == creds[zreq[q].cred].key
<1>1. /\ zreq[q].pc = "credential" /\ ZOK(zreq[q], creds, granted)
      /\ DOMAIN creds = 1..Len(creds) /\ zreq[q].dead \in BOOLEAN
  BY DEF VerifyCredential, RefusedIfRevoked, ZIInv, ZTypes, ZReqType
<1>2. PICK p \in {"rejected", "proof"} :
        ZGoto(q, p) /\ (p = "proof" => ~RevokedIn(key, creds))
  BY <1>1 DEF VerifyCredential, RefusedIfRevoked, RevokedAmong, RevokedIn
<1>3. PICK z \in ZReqType :
        /\ zreq' = [zreq EXCEPT ![q] = z]
        /\ p = "rejected" => z = ZIdle
        /\ p = "proof" => /\ z.pc = p /\ z.cred = zreq[q].cred /\ z.null = zreq[q].null
                          /\ z.dead = zreq[q].dead
  BY <1>2, ZGotoRecord DEF ZIInv, ZDone, ZSteps
<1>4. ZOK(z, creds, granted)
  <2>1. CASE p = "rejected"
    BY <1>3, <2>1, ZIdleOK DEF ZIInv
  <2>2. CASE p = "proof"
    BY <1>1, <1>2, <1>3, <2>2 DEF ZOK, Verifying
  <2>3. QED
    BY <2>1, <2>2
<1>5. QED
  BY <1>3, <1>4, HolderMoves DEF VerifyCredential, RefusedIfRevoked, compVars

LEMMA VerifyProofZ ==
  ASSUME CompIInv, ZIInv, NEW q \in Holders, NEW prover \in Points,
         VerifyProof(q, prover)
  PROVE  ZIInv'
<1> DEFINE cl == creds[zreq[q].cred].claim
<1>1. zreq[q].pc = "proof" /\ ZOK(zreq[q], creds, granted)
  BY DEF VerifyProof, ZIInv
<1>2. PICK p \in {"rejected", "persist"} :
        ZGoto(q, p) /\ (p = "persist" => Satisfies(cl, zreq[q].purpose))
  BY DEF VerifyProof
<1>3. PICK z \in ZReqType :
        /\ zreq' = [zreq EXCEPT ![q] = z]
        /\ p = "rejected" => z = ZIdle
        /\ p = "persist" => /\ z.pc = p /\ z.cred = zreq[q].cred /\ z.null = zreq[q].null
                            /\ z.dead = zreq[q].dead /\ z.purpose = zreq[q].purpose
  BY <1>2, ZGotoRecord DEF ZIInv, ZDone, ZSteps
<1>4. ZOK(z, creds, granted)
  <2>1. CASE p = "rejected"
    BY <1>3, <2>1, ZIdleOK DEF ZIInv
  <2>2. CASE p = "persist"
    <3>1. zreq[q].purpose = "asset_create" => cl.level >= REQUIRED_LEVEL
      BY <1>2, <2>2 DEF Satisfies, REQUIRED_LEVEL
    <3>2. QED
      BY <1>1, <1>3, <2>2, <3>1 DEF ZOK, Verifying
  <2>3. QED
    BY <2>1, <2>2
<1>5. QED
  BY <1>3, <1>4, HolderMoves DEF VerifyProof, compVars

LEMMA PersistNullifierZ ==
  ASSUME CompIInv, ZIInv, NEW q \in Holders, PersistNullifier(q)
  PROVE  ZIInv'
<1> DEFINE n == zreq[q].null
<1>1. zreq[q].pc = "persist" /\ ZOK(zreq[q], creds, granted) /\ n \in Nullifiers
  BY DEF PersistNullifier, PersistUnless, ZIInv, ZOK, Verifying
<1>2. CASE ZGoto(q, "error") /\ UNCHANGED <<used, accepted>>
  BY <1>2, EndsZ DEF PersistNullifier, PersistUnless, compVars
<1>3. CASE /\ n \notin used /\ used' = used \cup {n}
           /\ accepted' = [accepted EXCEPT ![n] = @ + 1] /\ ZGoto(q, "accepted")
  <2>1. PICK z \in ZReqType :
          /\ zreq' = [zreq EXCEPT ![q] = z] /\ z.pc = "accepted"
          /\ z.cred = zreq[q].cred /\ z.null = zreq[q].null
          /\ z.dead = zreq[q].dead /\ z.purpose = zreq[q].purpose
    BY <1>3, ZGotoRecord DEF ZIInv, ZDone
  <2>2. UNCHANGED <<creds, granted>>
    BY DEF PersistNullifier, PersistUnless, compVars
  <2>3. /\ zreq' \in [Holders -> ZReqType] /\ zreq'[q] = z
        /\ \A p \in Holders \ {q} : zreq'[p] = zreq[p]
    BY <2>1 DEF ZIInv, ZTypes
  <2>4. accepted[n] = 0
    BY <1>1, <1>3 DEF ZIInv, AcceptedIsUsed
  <2>5. AcceptedIsUsed' /\ accepted' \in [Nullifiers -> Nat] /\ used' \subseteq Nullifiers
    BY <1>1, <1>3, <2>4 DEF ZIInv, ZTypes, AcceptedIsUsed
  <2>6. ZTypes' /\ ClaimsGranted'
    BY <2>2, <2>3, <2>5 DEF ZIInv, ZTypes, ClaimsGranted
  <2>7. ZOK(z, creds', granted')
    BY <1>1, <2>1, <2>2 DEF ZOK, Verifying
  <2>8. Grown(creds, creds', granted, granted')
    BY <2>2, GrownSame
  <2>9. QED
    BY <2>3, <2>5, <2>6, <2>7, <2>8, OneHolder
<1>4. QED
  BY <1>2, <1>3 DEF PersistNullifier, PersistUnless

LEMMA ZDbFailsZ ==
  ASSUME CompIInv, ZIInv, NEW q \in Holders, ZDbFails(q)
  PROVE  ZIInv'
BY EndsZ DEF ZDbFails, compVars

LEMMA RestartAllZ ==
  ASSUME CompIInv, ZIInv, RestartAll
  PROVE  ZIInv'
<1>1. zreq' = [q \in Holders |-> ZIdle] /\ UNCHANGED <<creds, used, accepted, granted>>
  BY DEF RestartAll, Restart
<1>2. ZTypes' /\ AcceptedIsUsed' /\ ClaimsGranted'
  BY <1>1, ZIdleType DEF ZIInv, ZTypes, AcceptedIsUsed, ClaimsGranted
<1>3. ZOK(ZIdle, creds, granted)
  BY ZIdleOK DEF ZIInv
<1>4. QED
  BY <1>1, <1>2, <1>3 DEF ZIInv

(* Revocation, erasure and expiry rewrite rows and keep their claims.      *)
LEMMA RowsRewritten ==
  ASSUME CompIInv, ZIInv, creds' \in Seq(CredType), Len(creds') = Len(creds),
         UNCHANGED <<granted, used, zreq, accepted>>,
         \A c \in 1..Len(creds) :
           /\ creds'[c].u = creds[c].u /\ creds'[c].key = creds[c].key
           /\ creds'[c].claim = creds[c].claim
           /\ creds[c].revoked => creds'[c].revoked
  PROVE  ZIInv'
<1>1. Grown(creds, creds', granted, granted')
  BY DEF Grown, CompIInv, CompTypes, ZIInv, ZTypes
<1>2. ZTypes' /\ AcceptedIsUsed' /\ ClaimsGranted'
  BY DEF ZIInv, ZTypes, AcceptedIsUsed, ClaimsGranted
<1>3. QED
  BY <1>1, <1>2, NoHolder

LEMMA RevokeZ ==
  ASSUME CompIInv, ZIInv, NEW c \in DOMAIN creds, Revoke(c) \/ ExpireCredential(c)
  PROVE  ZIInv'
<1>1. creds \in Seq(CredType) /\ c \in 1..Len(creds) /\ creds[c] \in CredType
  BY DEF ZIInv, ZTypes
<1>2. PICK x \in CredType : /\ creds' = [creds EXCEPT ![c] = x]
                            /\ x.u = creds[c].u /\ x.key = creds[c].key
                            /\ x.claim = creds[c].claim
                            /\ creds[c].revoked => x.revoked
  <2>1. CASE Revoke(c)
    <3> DEFINE x == [creds[c] EXCEPT !.revoked = TRUE]
    <3>1. creds' = [creds EXCEPT ![c] = x]
      BY <2>1 DEF Revoke
    <3>2. /\ x \in CredType /\ x.u = creds[c].u /\ x.key = creds[c].key
          /\ x.claim = creds[c].claim /\ x.revoked
      BY <1>1 DEF CredType
    <3>3. QED
      BY <3>1, <3>2
  <2>2. CASE ExpireCredential(c)
    <3> DEFINE x == [creds[c] EXCEPT !.live = FALSE]
    <3>1. creds' = [creds EXCEPT ![c] = x]
      BY <2>2 DEF ExpireCredential
    <3>2. /\ x \in CredType /\ x.u = creds[c].u /\ x.key = creds[c].key
          /\ x.claim = creds[c].claim /\ x.revoked = creds[c].revoked
      BY <1>1 DEF CredType
    <3>3. QED
      BY <3>1, <3>2
  <2>3. QED
    BY <2>1, <2>2
<1>3. UNCHANGED <<granted, used, zreq, accepted>>
  BY DEF Revoke, ExpireCredential, compVars
<1>4. creds' \in Seq(CredType) /\ Len(creds') = Len(creds)
  BY <1>1, <1>2
<1>5. \A d \in 1..Len(creds) :
        /\ creds'[d].u = creds[d].u /\ creds'[d].key = creds[d].key
        /\ creds'[d].claim = creds[d].claim /\ (creds[d].revoked => creds'[d].revoked)
  BY <1>1, <1>2
<1>6. QED
  BY <1>3, <1>4, <1>5, RowsRewritten

LEMMA EraseZ ==
  ASSUME CompIInv, ZIInv, NEW u \in Users, Erase(u)
  PROVE  ZIInv'
<1> DEFINE x(c) == IF creds[c].u = u THEN [creds[c] EXCEPT !.revoked = TRUE] ELSE creds[c]
<1>1. creds \in Seq(CredType) /\ DOMAIN creds = 1..Len(creds) /\ Len(creds) \in Nat
  BY DEF ZIInv, ZTypes
<1>2. ASSUME NEW c \in 1..Len(creds)
      PROVE  /\ x(c) \in CredType /\ x(c).u = creds[c].u /\ x(c).key = creds[c].key
             /\ x(c).claim = creds[c].claim /\ (creds[c].revoked => x(c).revoked)
  <2>1. creds[c] \in CredType
    BY <1>1
  <2>2. QED
    BY <2>1 DEF CredType
<1>3. creds' = [c \in 1..Len(creds) |-> x(c)] /\ UNCHANGED <<granted, used, zreq, accepted>>
  BY <1>1 DEF Erase, compVars
<1> HIDE DEF x
<1>4. creds' \in Seq(CredType) /\ Len(creds') = Len(creds)
  BY <1>1, <1>2, <1>3
<1>5. \A c \in 1..Len(creds) :
        /\ creds'[c].u = creds[c].u /\ creds'[c].key = creds[c].key
        /\ creds'[c].claim = creds[c].claim /\ (creds[c].revoked => creds'[c].revoked)
  BY <1>2, <1>3
<1>6. QED
  BY <1>3, <1>4, <1>5, RowsRewritten

LEMMA ZStepIInv == CompIInv /\ ZIInv /\ [Next]_vars => (CompIInv /\ ZIInv)'
<1> SUFFICES ASSUME CompIInv, ZIInv, [Next]_vars PROVE CompIInv' /\ ZIInv'
  OBVIOUS
<1>1. CompIInv'
  <2>1. [CompNext]_compVars
    BY DEF Next, CompNext, RestartAll, vars, HolderStep, BeginSetup, BeginVerify, SelectExisting,
       CheckEligibility, ClaimOr, InsertCredential, VerifyCredential,
       RefusedIfRevoked, VerifyProof, PersistNullifier, PersistUnless, ZDbFails,
       Revoke, ExpireCredential, Erase
  <2>2. QED
    BY <2>1, CompStepIInv, SMTT(40)
<1>2. CASE UNCHANGED vars
  <2>1. [CompNext]_compVars /\ UNCHANGED zkVars
    BY <1>2 DEF vars
  <2>2. QED
    BY <1>1, <2>1, CompKeepsZ
<1>3. CASE Serving /\ UNCHANGED zkVars
  <2>1. [CompNext]_compVars /\ UNCHANGED zkVars
    BY <1>3 DEF CompNext
  <2>2. QED
    BY <1>1, <2>1, CompKeepsZ
<1>4. ASSUME NEW q \in Holders, HolderStep(q) PROVE ZIInv'
  BY <1>4, SelectExistingZ, CheckEligibilityZ, InsertCredentialZ, VerifyCredentialZ,
     VerifyProofZ, PersistNullifierZ, ZDbFailsZ DEF HolderStep
<1>5. ASSUME NEW q \in Holders,
             \/ \E u \in Users, key \in Keys : BeginSetup(q, u, key)
             \/ \E c \in DOMAIN creds, n \in Nullifiers, purpose \in Purposes :
                  BeginVerify(q, c, n, purpose)
      PROVE  ZIInv'
  BY <1>5, BeginSetupZ, BeginVerifyZ
<1>6. ASSUME NEW c \in DOMAIN creds, Revoke(c) \/ ExpireCredential(c)
      PROVE  ZIInv'
  BY <1>6, RevokeZ
<1>7. ASSUME NEW u \in Users, Erase(u) PROVE ZIInv'
  BY <1>7, EraseZ
<1>8. QED
  BY <1>1, <1>2, <1>3, <1>4, <1>5, <1>6, <1>7, RestartAllZ DEF Next

LEMMA ZImplied == CompIInv /\ ZIInv => TypeOK /\ NullifierOnce /\ AcceptanceIsEarned
<1> SUFFICES ASSUME CompIInv, ZIInv PROVE TypeOK /\ NullifierOnce /\ AcceptanceIsEarned
  OBVIOUS
<1>1. TypeOK
  <2>1. \A q \in Holders : zreq[q].cred \in 0..Len(creds) /\ zreq[q].claim \in Claims
    BY DEF ZIInv, ZTypes, ZOK, ZReqType
  <2>2. QED
    BY <2>1, CompImplied DEF TypeOK, ZIInv, ZTypes
<1>2. NullifierOnce
  BY DEF NullifierOnce, ZIInv, AcceptedIsUsed
<1>3. AcceptanceIsEarned
  BY DEF AcceptanceIsEarned, ZIInv, ZOK, Verifying, ClaimsGranted
<1>4. QED
  BY <1>1, <1>2, <1>3

(* Compliance and the zkp router keep their types together; a claim that   *)
(* is signed is always the claim of a record, or empty.                    *)
THEOREM CredentialTypes == Spec => []TypeOK
<1>1. Init => CompIInv /\ ZIInv
  BY ZInitIInv
<1>2. CompIInv /\ ZIInv /\ [Next]_vars => (CompIInv /\ ZIInv)'
  BY ZStepIInv
<1>3. CompIInv /\ ZIInv => TypeOK
  BY ZImplied
<1>4. QED
  BY <1>1, <1>2, <1>3, PTL DEF Spec

(* The unique column makes a nullifier acceptable once, though the check   *)
(* and the insert of verify_proof are separate steps.                      *)
THEOREM NullifierIsSpentOnce == Spec => []NullifierOnce
<1>1. Init => CompIInv /\ ZIInv
  BY ZInitIInv
<1>2. CompIInv /\ ZIInv /\ [Next]_vars => (CompIInv /\ ZIInv)'
  BY ZStepIInv
<1>3. CompIInv /\ ZIInv => NullifierOnce
  BY ZImplied
<1>4. QED
  BY <1>1, <1>2, <1>3, PTL DEF Spec

(* verify_proof accepts nothing for a text of a key that was revoked       *)
(* before it began, whichever point the text denotes and whichever of the  *)
(* two schemas the tables follow, and asset_create only for a level an     *)
(* officer granted, whatever was issued, erased, approved or expired       *)
(* meanwhile.                                                              *)
THEOREM AcceptanceEarned == Spec => []AcceptanceIsEarned
<1>1. Init => CompIInv /\ ZIInv
  BY ZInitIInv
<1>2. CompIInv /\ ZIInv /\ [Next]_vars => (CompIInv /\ ZIInv)'
  BY ZStepIInv
<1>3. CompIInv /\ ZIInv => AcceptanceIsEarned
  BY ZImplied
<1>4. QED
  BY <1>1, <1>2, <1>3, PTL DEF Spec


-----------------------------------------------------------------------------
(* Sessions.  A request that carries a token carries one that was issued;  *)
(* the key of a token whose logout is under way or answered outlives it;   *)
(* and a request with such a token that found no key came after its exp.   *)

FrontSteps == {"blacklist", "mark"}
HandlerSteps == {"select", "purge", "erase", "emark", "ekc", "lblack", "lmark", "lkc"}
CallbackSteps == {"state", "delstate", "exchange"}
Covered(t) == blacklist[t] >= Exp(t)
Anonymised == erased => ~user.active /\ ~user.email

(* A request at step p with the local variables l.                         *)
Carries(p, l) ==
  /\ p \in FrontSteps => l.front = "http"
  /\ p \in FrontSteps \cup HandlerSteps => l.t \in Tokens
  /\ p \in CallbackSteps => l.login \in Logins
  /\ p \in CallbackSteps \cup {"find", "commit"} => l.front = "public"

Caught(p, l) ==
  /\ l.late /\ p \in FrontSteps \cup HandlerSteps => l.t \in out
  /\ l.late /\ ~l.black /\ p = "mark" => now >= Exp(l.t)
  /\ l.late /\ l.front = "http" /\ p \in HandlerSteps => now >= Exp(l.t)
  /\ p \in {"lmark", "lkc"} => Covered(l.t)
  /\ l.late /\ p \in CallbackSteps \cup {"find"} => erased
  /\ p = "commit" => ~l.late

Fine(p, l) ==
  /\ p \in SessionSteps \cup {"idle", "done"} /\ l \in Locs
  /\ Carries(p, l) /\ Caught(p, l)

WorldOK ==
  /\ now \in 0..MaxTime /\ kcUser \in BOOLEAN
  /\ tok \in Seq([sid : Sids, iat : 0..MaxTime])
  /\ Len(tok) <= MaxTokens
  /\ kcLive \subseteq Sids /\ out \subseteq Tokens /\ states \subseteq Logins
  /\ code \in [Logins -> {"unused", "issued", "redeemed"}]
  /\ blacklist \in [1..MaxTokens -> Nat]
  /\ mark \in [iat : Nat, until : Nat]
  /\ user \in [sub : BOOLEAN, active : BOOLEAN, email : BOOLEAN]
  /\ erased \in BOOLEAN
  /\ Anonymised
  /\ \A t \in out : Covered(t)

ReqsFine ==
  /\ DOMAIN pc = Reqs /\ DOMAIN loc = Reqs
  /\ pc \in [Reqs -> SessionSteps \cup {"idle", "done"}] /\ loc \in [Reqs -> Locs]
  /\ \A r \in Reqs : Fine(pc[r], loc[r])

SeInv == WorldOK /\ ReqsFine

(* What every step leaves true: time goes on, tokens are only added, keys  *)
(* that cover a token go on covering it, and answers are remembered.       *)
Grows ==
  /\ now' \in 0..MaxTime /\ now' >= now
  /\ Len(tok') >= Len(tok) /\ \A t \in 1..Len(tok) : tok'[t] = tok[t]
  /\ \A t \in 1..Len(tok) : Covered(t) => Covered(t)'
  /\ out \subseteq out' /\ (erased => erased')

LEMMA WorldFacts ==
  ASSUME WorldOK
  PROVE  /\ Len(tok) \in Nat /\ Len(tok) <= MaxTokens
         /\ now \in Nat /\ MaxTime \in Nat /\ MaxTokens \in Nat
         /\ \A t \in 1..Len(tok) :
              /\ tok[t] \in [sid : Sids, iat : 0..MaxTime]
              /\ tok[t].iat \in 0..MaxTime /\ Exp(t) \in Nat
              /\ t \in 1..MaxTokens /\ blacklist[t] \in Nat
<1>1. /\ tok \in Seq([sid : Sids, iat : 0..MaxTime]) /\ Len(tok) \in Nat
      /\ Len(tok) <= MaxTokens /\ now \in Nat
      /\ MaxTime \in Nat /\ MaxTokens \in Nat /\ Lifespan \in Nat
      /\ blacklist \in [1..MaxTokens -> Nat]
  BY SessionsAssumption DEF WorldOK
<1>2. ASSUME NEW t \in 1..Len(tok)
      PROVE  tok[t] \in [sid : Sids, iat : 0..MaxTime]
  BY <1>1, ElementOfSeq
<1>3. ASSUME NEW t \in 1..Len(tok)
      PROVE  tok[t].iat \in 0..MaxTime /\ Exp(t) \in Nat
  <2>1. PICK v : v = tok[t].iat
    OBVIOUS
  <2>2. v \in 0..MaxTime
    BY <1>2, <1>3, <2>1
  <2>3. v + Lifespan \in Nat
    BY <1>1, <2>2
  <2>4. QED
    BY <2>1, <2>2, <2>3 DEF Exp
<1>4. ASSUME NEW t \in 1..Len(tok)
      PROVE  t \in 1..MaxTokens /\ blacklist[t] \in Nat
  BY <1>1
<1>5. QED
  BY <1>1, <1>2, <1>3, <1>4

LEMMA NoLocIsFine ==
  /\ NoLoc \in Locs /\ Fine("done", NoLoc) /\ Fine("idle", NoLoc)
<1>1. NoLoc \in Locs
  BY SessionsAssumption DEF NoLoc, Locs
<1>2. QED
  BY <1>1 DEF Fine, Carries, Caught, FrontSteps, HandlerSteps, CallbackSteps

LEMMA FineGrows ==
  ASSUME WorldOK, Grows, NEW p, NEW l, Fine(p, l)
  PROVE  Fine(p, l)'
<1>1. ASSUME NEW t \in Tokens
      PROVE  t \in Tokens' /\ Exp(t)' = Exp(t) /\ Exp(t) \in Nat
  <2>1. t \in 1..Len(tok) /\ Len(tok) \in Nat /\ Exp(t) \in Nat
    BY WorldFacts DEF Tokens
  <2>2. tok'[t] = tok[t] /\ Len(tok') >= Len(tok)
    BY <2>1 DEF Grows
  <2>3. t \in 1..Len(tok')
    BY <2>1, <2>2
  <2>4. QED
    BY <2>1, <2>2, <2>3 DEF Tokens, Exp
<1>2. Carries(p, l)'
  BY <1>1 DEF Fine, Carries
<1>3. \A t \in Tokens : now >= Exp(t) => now' >= Exp(t)'
  BY <1>1, WorldFacts DEF Grows
<1>4. \A t \in Tokens : Covered(t) => Covered(t)'
  BY DEF Tokens, Grows
<1>5. \A t \in out : t \in out'
  BY DEF Grows
<1>6. p \in FrontSteps \cup HandlerSteps => l.t \in Tokens
  BY DEF Fine, Carries
<1>7. Caught(p, l)'
  <2>1. Caught(p, l)
    BY DEF Fine
  <2>2. l.late /\ p \in FrontSteps \cup HandlerSteps => l.t \in out'
    BY <1>5, <2>1 DEF Caught
  <2>3. l.late /\ ~l.black /\ p = "mark" => now' >= Exp(l.t)'
    BY <1>3, <1>6, <2>1 DEF Caught, FrontSteps
  <2>4. l.late /\ l.front = "http" /\ p \in HandlerSteps => now' >= Exp(l.t)'
    BY <1>3, <1>6, <2>1 DEF Caught
  <2>5. p \in {"lmark", "lkc"} => Covered(l.t)'
    BY <1>4, <1>6, <2>1 DEF Caught, HandlerSteps
  <2>6. /\ l.late /\ p \in CallbackSteps \cup {"find"} => erased'
        /\ p = "commit" => ~l.late
    BY <2>1 DEF Caught, Grows
  <2>7. QED
    BY <2>2, <2>3, <2>4, <2>5, <2>6 DEF Caught
<1>8. QED
  BY <1>2, <1>7 DEF Fine

(* No request moves.                                                       *)
LEMMA ReqsKept ==
  ASSUME WorldOK, ReqsFine, Grows, pc' = pc, loc' = loc
  PROVE  ReqsFine'
<1>1. \A r \in Reqs : Fine(pc[r], loc[r])'
  BY FineGrows DEF ReqsFine
<1>2. QED
  BY <1>1 DEF ReqsFine

(* One request moves.                                                      *)
LEMMA ReqMoves ==
  ASSUME WorldOK, ReqsFine, Grows, NEW r \in Reqs, NEW p, NEW l,
         Proceed(r, p, l), p # "done" => Fine(p, l)'
  PROVE  ReqsFine'
<1>1. PICK k : /\ k = IF p = "done" THEN NoLoc ELSE l
               /\ pc' = [pc EXCEPT ![r] = p] /\ loc' = [loc EXCEPT ![r] = k]
  BY DEF Proceed
<1>2. Fine("done", NoLoc)'
  BY NoLocIsFine, FineGrows
<1>3. Fine(p, k)'
  BY <1>1, <1>2
<1>4. p \in SessionSteps \cup {"idle", "done"} /\ k \in Locs
  BY <1>3 DEF Fine
<1>5. /\ pc' \in [Reqs -> SessionSteps \cup {"idle", "done"}]
      /\ loc' \in [Reqs -> Locs]
      /\ pc'[r] = p /\ loc'[r] = k
      /\ \A q \in Reqs : q # r => pc'[q] = pc[q] /\ loc'[q] = loc[q]
  BY <1>1, <1>4 DEF ReqsFine
<1>6. ASSUME NEW q \in Reqs, q # r
      PROVE  Fine(pc[q], loc[q])'
  <2>1. PICK pq, lq : pq = pc[q] /\ lq = loc[q]
    OBVIOUS
  <2>2. Fine(pq, lq)'
    BY <2>1, FineGrows DEF ReqsFine
  <2>3. QED
    BY <1>5, <1>6, <2>1, <2>2
<1>7. Fine(pc[r], loc[r])'
  BY <1>3, <1>5
<1>8. QED
  BY <1>5, <1>6, <1>7 DEF ReqsFine


(* The local variables of a request, changed in one field.                 *)
LEMMA LocFields ==
  ASSUME NEW l \in Locs
  PROVE  /\ l.t \in 0..MaxTokens /\ l.black \in BOOLEAN /\ l.at \in Nat
         /\ l.linked \in BOOLEAN /\ l.late \in BOOLEAN
BY DEF Locs

LEMMA SetBlack ==
  ASSUME NEW l \in Locs, NEW b \in BOOLEAN, NEW k, k = [l EXCEPT !.black = b]
  PROVE  /\ k \in Locs /\ k.front = l.front /\ k.op = l.op /\ k.t = l.t
         /\ k.login = l.login /\ k.late = l.late /\ k.black = b
BY DEF Locs

LEMMA SetAt ==
  ASSUME NEW l \in Locs, NEW b \in Nat, NEW k, k = [l EXCEPT !.at = b]
  PROVE  /\ k \in Locs /\ k.front = l.front /\ k.op = l.op /\ k.t = l.t
         /\ k.login = l.login /\ k.late = l.late /\ k.black = l.black /\ k.at = b
BY DEF Locs

LEMMA SetLinked ==
  ASSUME NEW l \in Locs, NEW b \in BOOLEAN, NEW k, k = [l EXCEPT !.linked = b]
  PROVE  /\ k \in Locs /\ k.front = l.front /\ k.op = l.op /\ k.t = l.t
         /\ k.login = l.login /\ k.late = l.late /\ k.black = l.black
BY DEF Locs

LEMMA SetToken ==
  ASSUME NEW l \in Locs, NEW b \in 0..MaxTokens, NEW k, k = [l EXCEPT !.t = b]
  PROVE  /\ k \in Locs /\ k.front = l.front /\ k.op = l.op /\ k.t = b
         /\ k.login = l.login /\ k.late = l.late /\ k.black = l.black
BY DEF Locs

(* Steps that touch no store.                                              *)
LEMMA SameWorld ==
  ASSUME WorldOK, UNCHANGED <<now, tok, kcVars, redisVars, user, history>>
  PROVE  WorldOK' /\ Grows
<1>1. /\ now' = now /\ tok' = tok /\ kcUser' = kcUser /\ kcLive' = kcLive
      /\ code' = code /\ states' = states /\ blacklist' = blacklist
      /\ mark' = mark /\ user' = user /\ out' = out /\ erased' = erased
  BY DEF kcVars, redisVars, history
<1>2. \A t : (Covered(t)' <=> Covered(t))
  BY <1>1 DEF Covered, Exp
<1>3. Grows
  BY <1>1, <1>2, WorldFacts DEF Grows, WorldOK
<1>4. WorldOK'
  BY <1>1, <1>2 DEF WorldOK, Anonymised, Tokens
<1>5. QED
  BY <1>3, <1>4

LEMMA QuietReq ==
  ASSUME SeInv, UNCHANGED <<now, tok, kcVars, redisVars, user, history>>,
         NEW r \in Reqs, NEW p, NEW l, Proceed(r, p, l), p # "done" => Fine(p, l)
  PROVE  SeInv'
<1>1. WorldOK /\ ReqsFine /\ WorldOK' /\ Grows
  BY SameWorld DEF SeInv
<1>2. p # "done" => Fine(p, l)'
  BY <1>1, FineGrows
<1>3. QED
  BY <1>1, <1>2, ReqMoves DEF SeInv

LEMMA ReqFacts ==
  ASSUME SeInv, NEW r \in Reqs
  PROVE  /\ Fine(pc[r], loc[r]) /\ loc[r] \in Locs
         /\ Carries(pc[r], loc[r]) /\ Caught(pc[r], loc[r])
BY DEF SeInv, ReqsFine, Fine

LEMMA FrontInv ==
  ASSUME SeInv, NEW r \in Reqs, ReadBlacklist(r) \/ ReadMark(r)
  PROVE  SeInv'
<1>1. WorldOK /\ UNCHANGED <<now, tok, kcVars, redisVars, user, history>>
  BY DEF SeInv, ReadBlacklist, ReadMark
<1>2. PICK l, t : l \in Locs /\ l = loc[r] /\ t = l.t
  BY ReqFacts
<1>3. Carries(pc[r], l) /\ Caught(pc[r], l)
  BY <1>2, ReqFacts
<1>4. CASE ReadBlacklist(r)
  <2>1. pc[r] = "blacklist"
    BY <1>4 DEF ReadBlacklist
  <2>2. /\ l.front = "http" /\ t \in Tokens
        /\ l.late => t \in out
    BY <1>2, <1>3, <2>1 DEF Carries, Caught, FrontSteps
  <2>3. PICK b \in BOOLEAN : /\ b <=> now < blacklist[t]
                             /\ Proceed(r, "mark", [l EXCEPT !.black = b])
    <3>1. Proceed(r, "mark", [l EXCEPT !.black = now < blacklist[t]])
      BY <1>2, <1>4 DEF ReadBlacklist
    <3>2. CASE now < blacklist[t]
      <4>1. (now < blacklist[t]) = TRUE
        BY <3>2
      <4>2. Proceed(r, "mark", [l EXCEPT !.black = TRUE])
        BY <3>1, <4>1
      <4>3. QED
        BY <3>2, <4>2
    <3>3. CASE ~(now < blacklist[t])
      <4>1. (now < blacklist[t]) = FALSE
        BY <3>3
      <4>2. Proceed(r, "mark", [l EXCEPT !.black = FALSE])
        BY <3>1, <4>1
      <4>3. QED
        BY <3>3, <4>2
    <3>4. QED
      BY <3>2, <3>3
  <2>4. PICK k : k = [l EXCEPT !.black = b]
    OBVIOUS
  <2>5. /\ k \in Locs /\ k.front = l.front /\ k.t = t
        /\ k.login = l.login /\ k.late = l.late /\ k.black = b
    BY <1>2, <2>4, SetBlack
  <2>6. ASSUME k.late, ~k.black
        PROVE  now >= Exp(t)
    <3>1. t \in out /\ Covered(t)
      BY <1>1, <2>2, <2>5, <2>6 DEF WorldOK
    <3>2. ~(now < blacklist[t])
      BY <2>3, <2>5, <2>6
    <3>3. now \in Nat /\ Exp(t) \in Nat /\ blacklist[t] \in Nat
      BY <1>1, <2>2, WorldFacts DEF Tokens
    <3>4. QED
      BY <3>1, <3>2, <3>3 DEF Covered
  <2>7. Fine("mark", k)
    BY <2>2, <2>5, <2>6
    DEF Fine, Carries, Caught, FrontSteps, HandlerSteps, CallbackSteps, SessionSteps
  <2>8. Proceed(r, "mark", k)
    BY <2>3, <2>4
  <2>9. QED
    BY <1>1, <2>7, <2>8, QuietReq
<1>5. CASE ReadMark(r)
  <2>1. pc[r] = "mark"
    BY <1>5 DEF ReadMark
  <2>2. CASE l.black \/ Marked(t)
    <3>1. Proceed(r, "done", NoLoc)
      BY <1>2, <1>5, <2>2 DEF ReadMark
    <3>2. QED
      BY <1>1, <3>1, QuietReq
  <2>3. CASE ~(l.black \/ Marked(t))
    <3>1. Proceed(r, Handler(l.op), l)
      BY <1>2, <1>5, <2>3 DEF ReadMark
    <3>2. Handler(l.op) \in {"lblack", "select"}
      BY DEF Handler
    <3>3. PICK p \in {"lblack", "select"} : p = Handler(l.op)
      BY <3>2
    <3>4. /\ l.t \in Tokens /\ l.late => l.t \in out
          /\ l.late => now >= Exp(l.t)
      BY <1>2, <1>3, <2>1, <2>3 DEF Carries, Caught, FrontSteps
    <3>5. Fine(p, l)
      BY <1>2, <1>3, <2>1, <3>4
      DEF Fine, Carries, Caught, FrontSteps, HandlerSteps, CallbackSteps, SessionSteps
    <3>6. QED
      BY <1>1, <3>1, <3>3, <3>5, QuietReq
  <2>4. QED
    BY <2>2, <2>3
<1>6. QED
  BY <1>4, <1>5


LEMMA StartInv ==
  ASSUME SeInv, NEW r \in Reqs, NEW f \in {"http", "grpc"},
         NEW op \in {"me", "logout", "erase"}, NEW t \in 1..Len(tok),
         Start(r, f, op, t)
  PROVE  SeInv'
<1>1. WorldOK /\ UNCHANGED <<now, tok, kcVars, redisVars, user, history>>
  BY DEF SeInv, Start
<1>2. t \in Tokens /\ t \in 0..MaxTokens
  BY <1>1, WorldFacts DEF Tokens
<1>0. PICK a \in Nat : a = IF op = "erase" THEN now ELSE 0
  BY <1>1, WorldFacts
<1>3. PICK b \in BOOLEAN :
        /\ b <=> t \in out
        /\ Validate(r, [NoLoc EXCEPT !.front = f, !.op = op, !.t = t,
                                     !.late = b, !.at = a])
  <2>1. Validate(r, [NoLoc EXCEPT !.front = f, !.op = op, !.t = t,
                                  !.late = t \in out, !.at = a])
    BY <1>0 DEF Start
  <2>2. CASE t \in out
    <3>1. (t \in out) = TRUE
      BY <2>2
    <3>2. Validate(r, [NoLoc EXCEPT !.front = f, !.op = op, !.t = t,
                                    !.late = TRUE, !.at = a])
      BY <2>1, <3>1
    <3>3. QED
      BY <2>2, <3>2
  <2>3. CASE t \notin out
    <3>1. (t \in out) = FALSE
      BY <2>3
    <3>2. Validate(r, [NoLoc EXCEPT !.front = f, !.op = op, !.t = t,
                                    !.late = FALSE, !.at = a])
      BY <2>1, <3>1
    <3>3. QED
      BY <2>3, <3>2
  <2>4. QED
    BY <2>2, <2>3
<1>4. PICK k : k = [NoLoc EXCEPT !.front = f, !.op = op, !.t = t,
                                 !.late = b, !.at = a]
  OBVIOUS
<1>5. /\ k \in Locs /\ k.front = f /\ k.op = op /\ k.t = t /\ k.late = b
  <2>1. t \in 0..MaxTokens /\ b \in BOOLEAN
    BY <1>2, <1>3
  <2>2. f \in {"http", "grpc"} /\ op \in {"me", "logout", "erase"}
    OBVIOUS
  <2>3. NoLoc \in Locs
    BY NoLocIsFine
  <2>4. QED
    BY <1>4, <2>1, <2>2, <2>3 DEF Locs
<1>6. Validate(r, k)
  BY <1>3, <1>4
<1>7. PICK p : p = AfterDecode(k)
  OBVIOUS
<1>8. \/ f = "http" /\ p = "blacklist"
      \/ f = "grpc" /\ p \in {"lblack", "select"}
  BY <1>5, <1>7 DEF AfterDecode, Handler
<1>9. Fine(p, k)
  <2>1. Carries(p, k)
    BY <1>2, <1>5, <1>8 DEF Carries, FrontSteps, HandlerSteps, CallbackSteps
  <2>2. Caught(p, k)
    BY <1>3, <1>5, <1>8 DEF Caught, FrontSteps, HandlerSteps, CallbackSteps
  <2>3. p \in SessionSteps
    BY <1>8 DEF SessionSteps
  <2>4. QED
    BY <1>5, <2>1, <2>2, <2>3 DEF Fine
<1>10. Proceed(r, p, k) \/ Proceed(r, "done", NoLoc)
  BY <1>6, <1>7 DEF Validate
<1>11. QED
  BY <1>1, <1>9, <1>10, QuietReq

LEMMA StartCallbackInv ==
  ASSUME SeInv, NEW r \in Reqs, NEW s \in Logins, StartCallback(r, s)
  PROVE  SeInv'
<1>1. WorldOK /\ UNCHANGED <<now, tok, kcVars, redisVars, user, history>>
  BY DEF SeInv, StartCallback
<1>2. PICK b \in BOOLEAN : b = erased
  BY <1>1 DEF WorldOK
<1>3. PICK k : k = [NoLoc EXCEPT !.front = "public", !.login = s, !.late = b]
  OBVIOUS
<1>4. Proceed(r, "state", k)
  BY <1>2, <1>3 DEF StartCallback
<1>5. k \in Locs /\ k.front = "public" /\ k.login = s /\ k.late = b
  BY <1>3, NoLocIsFine DEF Locs
<1>6. Carries("state", k) /\ Caught("state", k)
  BY <1>2, <1>5 DEF Carries, Caught, FrontSteps, HandlerSteps, CallbackSteps
<1>7. Fine("state", k)
  BY <1>5, <1>6 DEF Fine, SessionSteps
<1>8. QED
  BY <1>1, <1>4, <1>7, QuietReq

LEMMA SelectInv ==
  ASSUME SeInv, NEW r \in Reqs, SelectUser(r)
  PROVE  SeInv'
<1>1. WorldOK /\ UNCHANGED <<now, tok, kcVars, redisVars, user, history>>
  BY DEF SeInv, SelectUser
<1>2. PICK l \in Locs : l = loc[r]
  BY ReqFacts
<1>3. pc[r] = "select" /\ Carries("select", l) /\ Caught("select", l)
  BY <1>2, ReqFacts DEF SelectUser
<1>4. Proceed(r, "done", l) \/ Proceed(r, "purge", l)
  BY <1>2 DEF SelectUser
<1>5. Fine("purge", l)
  <2>1. Carries("purge", l)
    BY <1>3 DEF Carries, FrontSteps, HandlerSteps, CallbackSteps
  <2>2. Caught("purge", l)
    BY <1>3 DEF Caught, FrontSteps, HandlerSteps, CallbackSteps
  <2>3. QED
    BY <2>1, <2>2 DEF Fine, SessionSteps
<1>6. QED
  BY <1>1, <1>4, <1>5, QuietReq

LEMMA PurgeInv ==
  ASSUME SeInv, NEW r \in Reqs, PurgeDocuments(r)
  PROVE  SeInv'
<1>1. WorldOK /\ UNCHANGED <<now, tok, kcVars, redisVars, user, history>>
  BY DEF SeInv, PurgeDocuments
<1>2. PICK l \in Locs : l = loc[r]
  BY ReqFacts
<1>3. pc[r] = "purge" /\ Carries("purge", l) /\ Caught("purge", l)
  BY <1>2, ReqFacts DEF PurgeDocuments
<1>4. PICK a \in Nat : a = IF l.front = "http" THEN now ELSE l.at
  BY <1>1, WorldFacts, LocFields
<1>5. PICK k : k = [l EXCEPT !.at = a]
  OBVIOUS
<1>6. /\ k \in Locs /\ k.front = l.front /\ k.op = l.op /\ k.t = l.t
      /\ k.late = l.late
  BY <1>4, <1>5, SetAt
<1>7. Proceed(r, "erase", k)
  BY <1>2, <1>4, <1>5 DEF PurgeDocuments
<1>8. Fine("erase", k)
  <2>1. Carries("erase", k)
    BY <1>3, <1>6 DEF Carries, FrontSteps, HandlerSteps, CallbackSteps
  <2>2. Caught("erase", k)
    BY <1>3, <1>6 DEF Caught, FrontSteps, HandlerSteps, CallbackSteps
  <2>3. QED
    BY <1>6, <2>1, <2>2 DEF Fine, SessionSteps
<1>9. QED
  BY <1>1, <1>7, <1>8, QuietReq

LEMMA CallbackReads ==
  ASSUME SeInv, NEW r \in Reqs, ReadState(r) \/ FindUser(r)
  PROVE  SeInv'
<1>1. WorldOK /\ UNCHANGED <<now, tok, kcVars, redisVars, user, history>>
  BY DEF SeInv, ReadState, FindUser
<1>2. PICK l \in Locs : l = loc[r]
  BY ReqFacts
<1>3. Carries(pc[r], l) /\ Caught(pc[r], l)
  BY <1>2, ReqFacts
<1>4. CASE ReadState(r)
  <2>1. pc[r] = "state" /\ (Proceed(r, "delstate", l) \/ Proceed(r, "done", l))
    BY <1>2, <1>4 DEF ReadState
  <2>2. Fine("delstate", l)
    BY <1>3, <2>1
    DEF Fine, Carries, Caught, FrontSteps, HandlerSteps, CallbackSteps, SessionSteps
  <2>3. QED
    BY <1>1, <2>1, <2>2, QuietReq
<1>5. CASE FindUser(r)
  <2>1. user.sub \in BOOLEAN
    BY <1>1 DEF WorldOK
  <2>2. PICK k : k = [l EXCEPT !.linked = user.sub]
    OBVIOUS
  <2>3. k \in Locs /\ k.front = l.front /\ k.late = l.late
    BY <2>1, <2>2, SetLinked
  <2>4. pc[r] = "find"
    BY <1>5 DEF FindUser
  <2>5. \/ Proceed(r, "commit", k) /\ user.active
        \/ Proceed(r, "done", k)
    BY <1>2, <1>5, <2>2 DEF FindUser
  <2>6. user.active => ~erased
    BY <1>1 DEF WorldOK, Anonymised
  <2>7. l.late => erased
    BY <1>3, <2>4 DEF Caught
  <2>8. user.active => Fine("commit", k)
    BY <1>3, <2>3, <2>4, <2>6, <2>7
    DEF Fine, Carries, Caught, FrontSteps, HandlerSteps, CallbackSteps, SessionSteps
  <2>9. QED
    BY <1>1, <2>5, <2>8, QuietReq
<1>6. QED
  BY <1>4, <1>5

LEMMA FaultInv ==
  ASSUME SeInv, NEW r \in Reqs, Fault(r)
  PROVE  SeInv'
BY QuietReq DEF Fault

(* Steps that write neither tokens nor their keys.                         *)
LEMMA PlainWorld ==
  ASSUME WorldOK, now' = now, tok' = tok, blacklist' = blacklist, out' = out,
         kcUser' \in BOOLEAN, kcLive' \subseteq Sids, states' \subseteq Logins,
         code' \in [Logins -> {"unused", "issued", "redeemed"}],
         mark' \in [iat : Nat, until : Nat],
         user' \in [sub : BOOLEAN, active : BOOLEAN, email : BOOLEAN],
         erased' \in BOOLEAN, erased => erased', Anonymised'
  PROVE  WorldOK' /\ Grows
<1>1. \A t : (Covered(t)' <=> Covered(t))
  BY DEF Covered, Exp
<1>2. Grows
  BY <1>1, WorldFacts DEF Grows, WorldOK
<1>3. WorldOK'
  BY <1>1 DEF WorldOK, Tokens
<1>4. QED
  BY <1>2, <1>3

LEMMA PlainTypes ==
  ASSUME WorldOK
  PROVE  /\ kcUser \in BOOLEAN /\ kcLive \subseteq Sids /\ states \subseteq Logins
         /\ code \in [Logins -> {"unused", "issued", "redeemed"}]
         /\ mark \in [iat : Nat, until : Nat]
         /\ user \in [sub : BOOLEAN, active : BOOLEAN, email : BOOLEAN]
         /\ erased \in BOOLEAN /\ Anonymised
BY DEF WorldOK

LEMMA DeleteStateInv ==
  ASSUME SeInv, NEW r \in Reqs, DeleteState(r)
  PROVE  SeInv'
<1>1. WorldOK /\ ReqsFine
  BY DEF SeInv
<1>2. /\ now' = now /\ tok' = tok /\ blacklist' = blacklist /\ out' = out
      /\ kcUser' = kcUser /\ kcLive' = kcLive /\ code' = code /\ mark' = mark
      /\ user' = user /\ erased' = erased /\ states' \subseteq states
  BY DEF DeleteState, kcVars, history
<1>3. WorldOK' /\ Grows
  BY <1>1, <1>2, PlainWorld, PlainTypes DEF Anonymised
<1>4. PICK l \in Locs : l = loc[r]
  BY ReqFacts
<1>5. /\ pc[r] = "delstate" /\ Proceed(r, "exchange", l)
      /\ Carries("delstate", l) /\ Caught("delstate", l)
  BY <1>4, ReqFacts DEF DeleteState
<1>6. Fine("exchange", l)
  BY <1>5
  DEF Fine, Carries, Caught, FrontSteps, HandlerSteps, CallbackSteps, SessionSteps
<1>7. Fine("exchange", l)'
  BY <1>1, <1>3, <1>6, FineGrows
<1>8. QED
  BY <1>1, <1>3, <1>5, <1>7, ReqMoves DEF SeInv


(* Facts about the token a request carries.                                *)
LEMMA TtlCovers ==
  ASSUME WorldOK, NEW t \in Tokens
  PROVE  /\ Ttl(t) \in Nat /\ now + Ttl(t) \in Nat /\ now + Ttl(t) >= Exp(t)
         /\ t \in 1..MaxTokens
<1>1. now \in Nat /\ Exp(t) \in Nat /\ t \in 1..MaxTokens
  BY WorldFacts DEF Tokens
<1>2. QED
  BY <1>1 DEF Ttl

LEMMA LogoutBlacklistInv ==
  ASSUME SeInv, NEW r \in Reqs, LogoutBlacklist(r)
  PROVE  SeInv'
<1>1. WorldOK /\ ReqsFine
  BY DEF SeInv
<1>2. PICK l, u, v : l \in Locs /\ l = loc[r] /\ u = Ttl(l.t) /\ v = now + Ttl(l.t)
  BY ReqFacts
<1>3. /\ pc[r] = "lblack"
      /\ blacklist' = [blacklist EXCEPT ![l.t] = v]
      /\ Proceed(r, "lmark", [l EXCEPT !.at = u])
      /\ now' = now /\ tok' = tok /\ kcUser' = kcUser /\ kcLive' = kcLive
      /\ code' = code /\ states' = states /\ mark' = mark /\ user' = user
      /\ out' = out /\ erased' = erased
  BY <1>2 DEF LogoutBlacklist, LogoutWrites, kcVars, history
<1>4. Carries("lblack", l) /\ Caught("lblack", l)
  BY <1>2, <1>3, ReqFacts
<1>5. l.t \in Tokens /\ (l.late => l.t \in out)
      /\ (l.late /\ l.front = "http" => now >= Exp(l.t))
  BY <1>4 DEF Carries, Caught, HandlerSteps
<1>6. u \in Nat /\ v \in Nat /\ v >= Exp(l.t) /\ l.t \in 1..MaxTokens
  BY <1>1, <1>2, <1>5, TtlCovers
<1>7. \A t : Exp(t)' = Exp(t)
  BY <1>3 DEF Exp
<1>8. blacklist \in [1..MaxTokens -> Nat]
  BY <1>1 DEF WorldOK
<1>9. Covered(l.t)'
  BY <1>3, <1>6, <1>7, <1>8 DEF Covered
<1>10. \A t \in 1..Len(tok) : Covered(t) => Covered(t)'
  <2>1. ASSUME NEW t \in 1..Len(tok), Covered(t), t # l.t
        PROVE  Covered(t)'
    <3>1. t \in 1..MaxTokens
      BY <1>1, WorldFacts
    <3>2. blacklist'[t] = blacklist[t]
      BY <1>3, <1>8, <2>1, <3>1
    <3>3. QED
      BY <1>7, <2>1, <3>2 DEF Covered
  <2>2. QED
    BY <1>9, <2>1
<1>11. Grows
  BY <1>1, <1>3, <1>10, WorldFacts DEF Grows, WorldOK
<1>12. WorldOK'
  <2>1. blacklist' \in [1..MaxTokens -> Nat]
    BY <1>3, <1>6, <1>8
  <2>2. \A t \in out' : Covered(t)'
    BY <1>1, <1>3, <1>10 DEF WorldOK, Tokens
  <2>3. QED
    BY <1>1, <1>3, <2>1, <2>2 DEF WorldOK, Anonymised, Tokens
<1>13. PICK k : k = [l EXCEPT !.at = u]
  OBVIOUS
<1>14. /\ k \in Locs /\ k.front = l.front /\ k.t = l.t /\ k.late = l.late
  BY <1>2, <1>6, <1>13, SetAt
<1>15. Fine("lmark", k)'
  <2>1. Carries("lmark", k)'
    BY <1>3, <1>5, <1>14
    DEF Carries, FrontSteps, HandlerSteps, CallbackSteps, Tokens
  <2>2. Caught("lmark", k)'
    BY <1>3, <1>5, <1>7, <1>9, <1>14 DEF Caught, FrontSteps, HandlerSteps, CallbackSteps
  <2>3. QED
    BY <1>14, <2>1, <2>2 DEF Fine, SessionSteps
<1>16. Proceed(r, "lmark", k)
  BY <1>3, <1>13
<1>17. QED
  BY <1>1, <1>11, <1>12, <1>15, <1>16, ReqMoves DEF SeInv

(* An answered logout is remembered: its token is covered.                 *)
LEMMA AnsweredWorld ==
  ASSUME WorldOK, now' = now, tok' = tok, blacklist' = blacklist,
         NEW t \in Tokens, Covered(t), out' = out \cup {t},
         kcUser' = kcUser, kcLive' \subseteq Sids, code' = code, states' = states,
         mark' \in [iat : Nat, until : Nat], user' = user, erased' = erased
  PROVE  WorldOK' /\ Grows
<1>1. \A u : (Covered(u)' <=> Covered(u))
  BY DEF Covered, Exp
<1>2. Grows
  BY <1>1, WorldFacts DEF Grows, WorldOK
<1>3. WorldOK'
  BY <1>1 DEF WorldOK, Tokens, Anonymised
<1>4. QED
  BY <1>2, <1>3

LEMMA LogoutMarkInv ==
  ASSUME SeInv, NEW r \in Reqs, LogoutMark(r)
  PROVE  SeInv'
<1>1. WorldOK /\ ReqsFine
  BY DEF SeInv
<1>2. PICK l, m : l \in Locs /\ l = loc[r]
                /\ m = [iat |-> tok[l.t].iat, until |-> now + l.at]
  BY ReqFacts
<1>3. /\ pc[r] = "lmark" /\ mark' = m
      /\ now' = now /\ tok' = tok /\ kcUser' = kcUser /\ kcLive' = kcLive
      /\ code' = code /\ states' = states /\ user' = user /\ blacklist' = blacklist
  BY <1>2 DEF LogoutMark, kcVars
<1>4. Carries("lmark", l) /\ Caught("lmark", l)
  BY <1>2, <1>3, ReqFacts
<1>5. l.t \in Tokens /\ Covered(l.t)
  BY <1>4 DEF Carries, Caught, HandlerSteps
<1>6. m \in [iat : Nat, until : Nat]
  <2>1. tok[l.t].iat \in 0..MaxTime /\ now \in Nat /\ l.at \in Nat
    BY <1>2, <1>1, <1>5, WorldFacts, LocFields DEF Tokens
  <2>2. tok[l.t].iat \in Nat /\ now + l.at \in Nat
    BY <2>1
  <2>3. QED
    BY <1>2, <2>2
<1>7. CASE l.front = "http"
  <2>1. Proceed(r, "lkc", l) /\ out' = out /\ erased' = erased
    BY <1>2, <1>7 DEF LogoutMark, history
  <2>2. WorldOK' /\ Grows
    BY <1>1, <1>3, <1>6, <2>1, PlainWorld, PlainTypes DEF Anonymised
  <2>3. Fine("lkc", l)
    <3>1. Carries("lkc", l)
      BY <1>4 DEF Carries, FrontSteps, HandlerSteps, CallbackSteps
    <3>2. Caught("lkc", l)
      BY <1>4 DEF Caught, FrontSteps, HandlerSteps, CallbackSteps
    <3>3. QED
      BY <1>2, <3>1, <3>2 DEF Fine, SessionSteps
  <2>4. Fine("lkc", l)'
    BY <1>1, <2>2, <2>3, FineGrows
  <2>5. QED
    BY <1>1, <2>1, <2>2, <2>4, ReqMoves DEF SeInv
<1>8. CASE l.front # "http"
  <2>1. Proceed(r, "done", NoLoc) /\ out' = out \cup {l.t} /\ erased' = erased
    BY <1>2, <1>8 DEF LogoutMark, Answered
  <2>2. kcLive' \subseteq Sids /\ mark' \in [iat : Nat, until : Nat]
    BY <1>1, <1>3, <1>6, PlainTypes
  <2>3. WorldOK' /\ Grows
    BY <1>1, <1>3, <1>5, <2>1, <2>2, AnsweredWorld
  <2>4. QED
    BY <1>1, <2>1, <2>3, ReqMoves DEF SeInv
<1>9. QED
  BY <1>7, <1>8

LEMMA LogoutKeycloakInv ==
  ASSUME SeInv, NEW r \in Reqs, LogoutKeycloak(r)
  PROVE  SeInv'
<1>1. WorldOK /\ ReqsFine
  BY DEF SeInv
<1>2. PICK l \in Locs : l = loc[r]
  BY ReqFacts
<1>3. /\ pc[r] = "lkc" /\ mark' = mark
      /\ now' = now /\ tok' = tok /\ kcUser' = kcUser /\ kcLive' \subseteq kcLive
      /\ code' = code /\ states' = states /\ user' = user /\ blacklist' = blacklist
      /\ Proceed(r, "done", NoLoc) /\ out' = out \cup {l.t} /\ erased' = erased
  BY <1>2 DEF LogoutKeycloak, Answered, redisVars
<1>4. Carries("lkc", l) /\ Caught("lkc", l)
  BY <1>2, <1>3, ReqFacts
<1>5. l.t \in Tokens /\ Covered(l.t)
  BY <1>4 DEF Carries, Caught, HandlerSteps
<1>6. kcLive' \subseteq Sids /\ mark' \in [iat : Nat, until : Nat]
  BY <1>1, <1>3, PlainTypes
<1>7. WorldOK' /\ Grows
  BY <1>1, <1>3, <1>5, <1>6, AnsweredWorld
<1>8. QED
  BY <1>1, <1>3, <1>7, ReqMoves DEF SeInv


LEMMA CommitEraseInv ==
  ASSUME SeInv, NEW r \in Reqs, CommitErase(r)
  PROVE  SeInv'
<1>1. WorldOK /\ ReqsFine
  BY DEF SeInv
<1>2. PICK l \in Locs : l = loc[r]
  BY ReqFacts
<1>3. /\ pc[r] = "erase" /\ mark' = mark
      /\ now' = now /\ tok' = tok /\ kcUser' = kcUser /\ kcLive' = kcLive
      /\ code' = code /\ states' = states /\ blacklist' = blacklist /\ out' = out
      /\ erased' = TRUE /\ Proceed(r, "emark", l)
      /\ user' = [sub |-> FALSE, active |-> FALSE, email |-> FALSE]
  BY <1>2 DEF CommitErase, kcVars, redisVars
<1>4. Carries("erase", l) /\ Caught("erase", l)
  BY <1>2, <1>3, ReqFacts
<1>5. /\ user' \in [sub : BOOLEAN, active : BOOLEAN, email : BOOLEAN]
      /\ erased' \in BOOLEAN /\ Anonymised'
  BY <1>3 DEF Anonymised
<1>6. WorldOK' /\ Grows
  BY <1>1, <1>3, <1>5, PlainWorld, PlainTypes
<1>7. Fine("emark", l)
  <2>1. Carries("emark", l)
    BY <1>4 DEF Carries, FrontSteps, HandlerSteps, CallbackSteps
  <2>2. Caught("emark", l)
    BY <1>4 DEF Caught, FrontSteps, HandlerSteps, CallbackSteps
  <2>3. QED
    BY <2>1, <2>2 DEF Fine, SessionSteps
<1>8. Fine("emark", l)'
  BY <1>1, <1>6, <1>7, FineGrows
<1>9. QED
  BY <1>1, <1>3, <1>6, <1>8, ReqMoves DEF SeInv

LEMMA EraseMarkInv ==
  ASSUME SeInv, NEW r \in Reqs, EraseMark(r)
  PROVE  SeInv'
<1>1. WorldOK /\ ReqsFine
  BY DEF SeInv
<1>2. PICK l \in Locs : l = loc[r]
  BY ReqFacts
<1>3. /\ pc[r] = "emark" /\ mark' = [iat |-> l.at, until |-> now + ErasureTTL]
      /\ now' = now /\ tok' = tok /\ kcUser' = kcUser /\ kcLive' = kcLive
      /\ code' = code /\ states' = states /\ blacklist' = blacklist /\ out' = out
      /\ user' = user /\ erased' = erased /\ Proceed(r, "ekc", l)
  BY <1>2 DEF EraseMark, kcVars, history
<1>4. Carries("emark", l) /\ Caught("emark", l)
  BY <1>2, <1>3, ReqFacts
<1>5. mark' \in [iat : Nat, until : Nat]
  <2>1. l.at \in Nat /\ now + ErasureTTL \in Nat
    BY <1>1, WorldFacts, LocFields, SessionsAssumption
  <2>2. QED
    BY <1>3, <2>1
<1>6. WorldOK' /\ Grows
  BY <1>1, <1>3, <1>5, PlainWorld, PlainTypes DEF Anonymised
<1>7. Fine("ekc", l)
  <2>1. Carries("ekc", l)
    BY <1>4 DEF Carries, FrontSteps, HandlerSteps, CallbackSteps
  <2>2. Caught("ekc", l)
    BY <1>4 DEF Caught, FrontSteps, HandlerSteps, CallbackSteps
  <2>3. QED
    BY <2>1, <2>2 DEF Fine, SessionSteps
<1>8. Fine("ekc", l)'
  BY <1>1, <1>6, <1>7, FineGrows
<1>9. QED
  BY <1>1, <1>3, <1>6, <1>8, ReqMoves DEF SeInv

LEMMA EraseKeycloakInv ==
  ASSUME SeInv, NEW r \in Reqs, EraseKeycloak(r)
  PROVE  SeInv'
<1>1. WorldOK /\ ReqsFine
  BY DEF SeInv
<1>2. /\ now' = now /\ tok' = tok /\ mark' = mark /\ code' = code
      /\ states' = states /\ blacklist' = blacklist /\ out' = out
      /\ user' = user /\ erased' = erased /\ Proceed(r, "done", NoLoc)
      /\ kcUser' \in {kcUser, FALSE} /\ kcLive' \subseteq kcLive
  BY DEF EraseKeycloak, redisVars, history
<1>3. kcUser' \in BOOLEAN /\ kcLive' \subseteq Sids
  BY <1>1, <1>2, PlainTypes
<1>4. WorldOK' /\ Grows
  BY <1>1, <1>2, <1>3, PlainWorld, PlainTypes DEF Anonymised
<1>5. QED
  BY <1>1, <1>2, <1>4, ReqMoves DEF SeInv

LEMMA CommitUserInv ==
  ASSUME SeInv, NEW r \in Reqs, CommitUser(r)
  PROVE  SeInv'
<1>1. WorldOK /\ ReqsFine
  BY DEF SeInv
<1>2. /\ now' = now /\ tok' = tok /\ mark' = mark /\ code' = code
      /\ kcUser' = kcUser /\ kcLive' = kcLive
      /\ states' = states /\ blacklist' = blacklist /\ out' = out
      /\ erased' = erased /\ Proceed(r, "done", NoLoc)
      /\ user' = [user EXCEPT !.sub = user.sub \/ ~loc[r].linked]
  BY DEF CommitUser, CommitUserAs, kcVars, redisVars, history
<1>3. user \in [sub : BOOLEAN, active : BOOLEAN, email : BOOLEAN]
  BY <1>1, PlainTypes
<1>4. (user.sub \/ ~loc[r].linked) \in BOOLEAN
  OBVIOUS
<1>5. /\ user' \in [sub : BOOLEAN, active : BOOLEAN, email : BOOLEAN]
      /\ user'.active = user.active /\ user'.email = user.email
  BY <1>2, <1>3, <1>4
<1>6. Anonymised'
  BY <1>1, <1>2, <1>5, PlainTypes DEF Anonymised
<1>7. WorldOK' /\ Grows
  BY <1>1, <1>2, <1>5, <1>6, PlainWorld, PlainTypes
<1>8. QED
  BY <1>1, <1>2, <1>7, ReqMoves DEF SeInv

LEMMA LoginInv ==
  ASSUME SeInv, NEW s \in Logins, Login(s)
  PROVE  SeInv'
<1>1. WorldOK /\ ReqsFine
  BY DEF SeInv
<1>2. /\ now' = now /\ tok' = tok /\ mark' = mark
      /\ kcUser' = kcUser /\ kcLive' = kcLive
      /\ blacklist' = blacklist /\ out' = out /\ user' = user
      /\ erased' = erased /\ pc' = pc /\ loc' = loc
      /\ code' = [code EXCEPT ![s] = "issued"] /\ states' = states \cup {s}
  BY DEF Login, history
<1>3. /\ code' \in [Logins -> {"unused", "issued", "redeemed"}]
      /\ states' \subseteq Logins
  BY <1>1, <1>2, PlainTypes
<1>4. WorldOK' /\ Grows
  BY <1>1, <1>2, <1>3, PlainWorld, PlainTypes DEF Anonymised
<1>5. QED
  BY <1>1, <1>2, <1>4, ReqsKept DEF SeInv

LEMMA TickInv ==
  ASSUME SeInv, Tick
  PROVE  SeInv'
<1>1. WorldOK /\ ReqsFine
  BY DEF SeInv
<1>2. /\ now < MaxTime /\ now' = now + 1 /\ tok' = tok /\ mark' = mark
      /\ kcUser' = kcUser /\ kcLive' = kcLive /\ code' = code
      /\ blacklist' = blacklist /\ out' = out /\ user' = user
      /\ erased' = erased /\ pc' = pc /\ loc' = loc /\ states' \subseteq states
  BY DEF Tick, kcVars, history
<1>3. now' \in 0..MaxTime /\ now' >= now
  BY <1>1, <1>2, WorldFacts
<1>4. \A t : (Covered(t)' <=> Covered(t))
  BY <1>2 DEF Covered, Exp
<1>5. Grows
  BY <1>1, <1>2, <1>3, <1>4, WorldFacts DEF Grows
<1>6. WorldOK'
  BY <1>1, <1>2, <1>3, <1>4 DEF WorldOK, Anonymised, Tokens
<1>7. QED
  BY <1>1, <1>2, <1>5, <1>6, ReqsKept DEF SeInv

(* A token is issued.                                                      *)
LEMMA IssueWorld ==
  ASSUME WorldOK, NEW sid \in Sids, Issue(sid), now' = now,
         blacklist' = blacklist, out' = out, mark' = mark, user' = user,
         erased' = erased, kcUser' = kcUser, kcLive' \subseteq Sids,
         states' = states, code' \in [Logins -> {"unused", "issued", "redeemed"}]
  PROVE  WorldOK' /\ Grows /\ Len(tok') = Len(tok) + 1
<1>1. PICK e : e = [sid |-> sid, iat |-> now]
  OBVIOUS
<1>2. tok' = Append(tok, e) /\ Len(tok) < MaxTokens
  BY <1>1 DEF Issue
<1>3. tok \in Seq([sid : Sids, iat : 0..MaxTime])
      /\ e \in [sid : Sids, iat : 0..MaxTime] /\ Len(tok) \in Nat
  BY <1>1 DEF WorldOK
<1>4. /\ tok' \in Seq([sid : Sids, iat : 0..MaxTime]) /\ Len(tok') = Len(tok) + 1
      /\ \A t \in 1..Len(tok) : tok'[t] = tok[t]
  BY <1>2, <1>3, AppendProperties
<1>5. \A t \in 1..Len(tok) : (Covered(t)' <=> Covered(t))
  BY <1>4 DEF Covered, Exp
<1>6. Len(tok') >= Len(tok) /\ Len(tok') <= MaxTokens
      /\ 1..Len(tok) \subseteq 1..Len(tok')
  BY <1>2, <1>3, <1>4, WorldFacts
<1>7. Grows
  BY <1>4, <1>5, <1>6 DEF Grows, WorldOK
<1>8. WorldOK'
  <2>1. out' \subseteq Tokens' /\ \A t \in out' : Covered(t)'
    BY <1>5, <1>6 DEF WorldOK, Tokens
  <2>2. QED
    BY <1>4, <1>6, <2>1 DEF WorldOK, Anonymised
<1>9. QED
  BY <1>4, <1>7, <1>8

LEMMA IssueInv ==
  ASSUME SeInv, CliLogin \/ (\E sid \in kcLive : Refresh(sid))
  PROVE  SeInv'
<1>1. WorldOK /\ ReqsFine
  BY DEF SeInv
<1>2. /\ now' = now /\ mark' = mark /\ kcUser' = kcUser /\ code' = code
      /\ states' = states /\ blacklist' = blacklist /\ out' = out /\ user' = user
      /\ erased' = erased /\ pc' = pc /\ loc' = loc
  BY DEF CliLogin, Refresh, kcVars, redisVars, history
<1>3. PICK sid \in Sids : Issue(sid) /\ kcLive' \subseteq Sids
  BY <1>1, PlainTypes DEF CliLogin, Refresh, kcVars, Sids
<1>4. code' \in [Logins -> {"unused", "issued", "redeemed"}]
  BY <1>1, <1>2, PlainTypes
<1>5. WorldOK' /\ Grows
  BY <1>1, <1>2, <1>3, <1>4, IssueWorld
<1>6. QED
  BY <1>1, <1>2, <1>5, ReqsKept DEF SeInv

LEMMA ExchangeInv ==
  ASSUME SeInv, NEW r \in Reqs, Exchange(r)
  PROVE  SeInv'
<1>1. WorldOK /\ ReqsFine
  BY DEF SeInv
<1>2. PICK l \in Locs, n \in Nat : l = loc[r] /\ n = Len(tok)
  BY <1>1, ReqFacts, WorldFacts
<1>3. /\ pc[r] = "exchange" /\ now' = now /\ mark' = mark /\ kcUser' = kcUser
      /\ states' = states /\ blacklist' = blacklist /\ out' = out /\ user' = user
      /\ erased' = erased
  BY DEF Exchange, redisVars, history
<1>4. Carries("exchange", l) /\ Caught("exchange", l)
  BY <1>2, <1>3, ReqFacts
<1>5. l.login \in Logins /\ l.front = "public" /\ (l.late => erased)
  BY <1>4 DEF Carries, Caught, CallbackSteps
<1>6. CASE code[l.login] = "issued" /\ kcUser
  <2>1. /\ Issue("web") /\ kcLive' = kcLive \cup {"web"}
        /\ code' = [code EXCEPT ![l.login] = "redeemed"]
        /\ Validate(r, [l EXCEPT !.t = n + 1])
    BY <1>2, <1>6 DEF Exchange
  <2>2. /\ kcLive' \subseteq Sids
        /\ code' \in [Logins -> {"unused", "issued", "redeemed"}]
    BY <1>1, <1>5, <2>1, PlainTypes DEF Sids
  <2>3. PICK sid \in Sids : Issue(sid)
    BY <2>1 DEF Sids
  <2>4. WorldOK' /\ Grows
    BY <1>1, <1>3, <2>2, <2>3, IssueWorld
  <2>5. PICK k : k = [l EXCEPT !.t = n + 1]
    OBVIOUS
  <2>6. n + 1 \in 0..MaxTokens
    BY <1>1, <1>2, <2>1, WorldFacts DEF Issue
  <2>7. k \in Locs /\ k.front = l.front /\ k.late = l.late
    BY <2>5, <2>6, SetToken
  <2>8. AfterDecode(k) = "find"
    BY <1>5, <2>7 DEF AfterDecode
  <2>9. Proceed(r, "find", k) \/ Proceed(r, "done", NoLoc)
    BY <2>1, <2>5, <2>8 DEF Validate
  <2>10. Fine("find", k)
    BY <1>5, <2>7
    DEF Fine, Carries, Caught, FrontSteps, HandlerSteps, CallbackSteps, SessionSteps
  <2>11. Fine("find", k)'
    BY <1>1, <2>4, <2>10, FineGrows
  <2>12. QED
    BY <1>1, <2>4, <2>9, <2>11, ReqMoves DEF SeInv
<1>7. CASE ~(code[l.login] = "issued" /\ kcUser)
  <2>1. Proceed(r, "done", NoLoc) /\ UNCHANGED <<tok, kcLive, code>>
    BY <1>2, <1>7 DEF Exchange
  <2>2. UNCHANGED <<now, tok, kcVars, redisVars, user, history>>
    BY <1>3, <2>1 DEF kcVars, redisVars, history
  <2>3. QED
    BY <2>1, <2>2, QuietReq
<1>8. QED
  BY <1>6, <1>7


LEMMA SeInitInv == SessionsInit => SeInv
<1>1. SUFFICES ASSUME SessionsInit
               PROVE  SeInv
  OBVIOUS
<1>2. Len(tok) = 0 /\ tok \in Seq([sid : Sids, iat : 0..MaxTime])
  BY <1>1 DEF SessionsInit
<1>3. WorldOK
  <2>1. blacklist \in [1..MaxTokens -> Nat] /\ mark \in [iat : Nat, until : Nat]
    BY <1>1 DEF SessionsInit
  <2>2. user \in [sub : BOOLEAN, active : BOOLEAN, email : BOOLEAN]
    BY <1>1 DEF SessionsInit
  <2>3. code \in [Logins -> {"unused", "issued", "redeemed"}]
    BY <1>1 DEF SessionsInit
  <2>4. now \in 0..MaxTime /\ Len(tok) <= MaxTokens
    BY <1>1, <1>2, SessionsAssumption DEF SessionsInit
  <2>5. /\ kcUser \in BOOLEAN /\ kcLive = {} /\ out = {} /\ states = {}
        /\ erased = FALSE
    BY <1>1 DEF SessionsInit
  <2>6. QED
    BY <1>2, <2>1, <2>2, <2>3, <2>4, <2>5 DEF WorldOK, Anonymised
<1>4. ReqsFine
  <2>1. pc = [r \in Reqs |-> "idle"] /\ loc = [r \in Reqs |-> NoLoc]
    BY <1>1 DEF SessionsInit
  <2>2. QED
    BY <2>1, NoLocIsFine DEF ReqsFine
<1>5. QED
  BY <1>3, <1>4 DEF SeInv

LEMMA SeNextInv == SeInv /\ [SessionsNext]_sessionVars => SeInv'
<1>1. SUFFICES ASSUME SeInv, [SessionsNext]_sessionVars
               PROVE  SeInv'
  OBVIOUS
<1>2. ASSUME NEW r \in Reqs, Step(r)
      PROVE  SeInv'
  BY <1>1, <1>2, FrontInv, SelectInv, PurgeInv, LogoutBlacklistInv, LogoutMarkInv,
     LogoutKeycloakInv, CommitEraseInv, EraseMarkInv, EraseKeycloakInv,
     CallbackReads, DeleteStateInv, ExchangeInv, CommitUserInv, FaultInv
  DEF Step
<1>3. ASSUME NEW r \in Reqs, NEW f \in {"http", "grpc"},
             NEW op \in {"me", "logout", "erase"}, NEW t \in 1..Len(tok),
             Start(r, f, op, t)
      PROVE  SeInv'
  BY <1>1, <1>3, StartInv
<1>4. ASSUME NEW r \in Reqs, NEW s \in Logins, StartCallback(r, s)
      PROVE  SeInv'
  BY <1>1, <1>4, StartCallbackInv
<1>5. ASSUME NEW s \in Logins, Login(s)
      PROVE  SeInv'
  BY <1>1, <1>5, LoginInv
<1>6. ASSUME CliLogin \/ (\E sid \in kcLive : Refresh(sid))
      PROVE  SeInv'
  BY <1>1, <1>6, IssueInv
<1>7. CASE Tick
  BY <1>1, <1>7, TickInv
<1>8. CASE UNCHANGED sessionVars
  <2>1. /\ UNCHANGED <<now, tok, kcVars, redisVars, user, history>>
        /\ pc' = pc /\ loc' = loc
    BY <1>8 DEF sessionVars
  <2>2. WorldOK' /\ Grows
    BY <1>1, <2>1, SameWorld DEF SeInv
  <2>3. QED
    BY <1>1, <2>1, <2>2, ReqsKept DEF SeInv
<1>9. QED
  BY <1>1, <1>2, <1>3, <1>4, <1>5, <1>6, <1>7, <1>8 DEF SessionsNext

LEMMA SeInvHolds == SessionsSpec => []SeInv
BY SeInitInv, SeNextInv, PTL DEF SessionsSpec

(* The sessions' state keeps its types: tokens are numbered without gaps   *)
(* and every request carries local variables of its kind.                  *)
THEOREM SessionTypesHold == SessionsSpec => []SessionsTypeOK
<1>1. SeInv => SessionsTypeOK
  BY DEF SeInv, WorldOK, ReqsFine, SessionsTypeOK
<1>2. QED
  BY <1>1, SeInvHolds, PTL

(* A token whose logout was answered never passes the middleware again     *)
(* before it expires, for any number of requests, tokens and logins.  The  *)
(* invariant is that the blacklist key of such a token outlives it, and    *)
(* that a request which started after the answer and read no key did so    *)
(* after the token's expiry.                                               *)
THEOREM LogoutFinal == SessionsSpec => []LogoutIsFinal
<1>1. SeInv => LogoutIsFinal
  <2>1. SUFFICES ASSUME SeInv, NEW r \in Reqs, loc[r].front = "http", loc[r].late,
                        pc[r] \in HandlerSteps
                 PROVE  now >= Exp(loc[r].t)
    BY DEF LogoutIsFinal, HandlerSteps
  <2>2. QED
    BY <2>1, ReqFacts DEF Caught
<1>2. QED
  BY <1>1, SeInvHolds, PTL

(* What a step may do to an erased account: the row stays inactive and     *)
(* anonymised, and its sub comes back only by the commit of a callback     *)
(* that started before the erasure, for any number of requests and logins. *)
(* The invariant is that a callback which started later carries that fact  *)
(* until it finds no active row.                                           *)
LEMMA OnlyCallbacksLink ==
  ASSUME SeInv, SessionsNext, erased, ~user.sub, user'.sub
  PROVE  \E r \in Reqs : /\ pc[r] = "commit" /\ pc'[r] = "done"
                         /\ ~loc[r].late /\ ~loc[r].linked
<1>1. ASSUME NEW r \in Reqs, CommitUser(r)
      PROVE  /\ pc[r] = "commit" /\ pc'[r] = "done"
             /\ ~loc[r].late /\ ~loc[r].linked
  <2>1. /\ pc[r] = "commit" /\ pc' = [pc EXCEPT ![r] = "done"]
        /\ user' = [user EXCEPT !.sub = user.sub \/ ~loc[r].linked]
    BY <1>1 DEF CommitUser, CommitUserAs, Proceed
  <2>2. pc'[r] = "done"
    BY <2>1 DEF SeInv, ReqsFine
  <2>3. user'.sub = (user.sub \/ ~loc[r].linked)
    BY <2>1 DEF SeInv, WorldOK
  <2>4. ~loc[r].linked
    BY <2>3
  <2>5. ~loc[r].late
    BY <2>1, ReqFacts DEF Caught
  <2>6. QED
    BY <2>1, <2>2, <2>4, <2>5
<1>2. ASSUME NEW r \in Reqs, CommitErase(r)
      PROVE  FALSE
  BY <1>2 DEF CommitErase
<1>3. ASSUME user' = user
      PROVE  FALSE
  BY <1>3
<1>4. ASSUME NEW r \in Reqs, Step(r)
      PROVE  CommitUser(r)
  BY <1>2, <1>3, <1>4
  DEF Step, ReadBlacklist, ReadMark, SelectUser, LogoutBlacklist, LogoutWrites,
      LogoutMark, LogoutKeycloak, PurgeDocuments, EraseMark, EraseKeycloak,
      ReadState, DeleteState, Exchange, FindUser, Fault
<1>5. ASSUME NEW r \in Reqs, NEW f, NEW op, NEW t, Start(r, f, op, t)
      PROVE  FALSE
  BY <1>3, <1>5 DEF Start
<1>6. ASSUME NEW r \in Reqs, NEW s \in Logins, StartCallback(r, s)
      PROVE  FALSE
  BY <1>3, <1>6 DEF StartCallback
<1>7. ASSUME NEW s, Login(s) \/ Refresh(s) \/ CliLogin \/ Tick
      PROVE  FALSE
  BY <1>3, <1>7 DEF Login, Refresh, CliLogin, Tick
<1>8. PICK r \in Reqs : CommitUser(r)
  BY <1>4, <1>5, <1>6, <1>7 DEF SessionsNext
<1>9. QED
  BY <1>1, <1>8

(* An erasure is undone by no login: see OnlyCallbacksLink.                *)
THEOREM ErasureFinal == SessionsSpec => ErasureIsFinal
<1>1. SeInv /\ SeInv' /\ [SessionsNext]_sessionVars =>
        [/\ erased' => ~user'.active /\ ~user'.email
         /\ erased /\ ~user.sub /\ user'.sub =>
              \E r \in Reqs : /\ pc[r] = "commit" /\ pc'[r] = "done"
                              /\ ~loc[r].late /\ ~loc[r].linked]_sessionVars
  <2>1. SeInv' => (erased' => ~user'.active /\ ~user'.email)
    BY DEF SeInv, WorldOK, Anonymised
  <2>2. QED
    BY <2>1, OnlyCallbacksLink
<1>2. QED
  BY <1>1, SeInvHolds, PTL DEF SessionsSpec, ErasureIsFinal
=============================================================================
