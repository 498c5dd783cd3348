--------------------------- MODULE TribunalProofs ----------------------------
(***************************************************************************)
(* The Tribunal for any number of auditors, votes and concurrent requests: *)
(* votes are binding, and tallies that do not overlap leave verdicts that  *)
(* agree with a decision which two thirds of the judged votes support.     *)
(***************************************************************************)
EXTENDS Tribunal, FiniteSetTheorems, TLAPS

(* A decision is one of the options only if two thirds voted for it.       *)
LEMMA DecisionIsMajority ==
  ASSUME NEW rows, Decision(rows) # "none"
  PROVE  /\ Decision(rows) \in Options
         /\ 3 * Count(rows, Decision(rows)) >= 2 * Cardinality(DOMAIN rows)
BY DEF Decision, Options

(* The votes that agree with the decision of a non-empty tally exist.      *)
LEMMA DecisionHasVoters ==
  ASSUME NEW rows, DOMAIN rows \subseteq VoteIds, DOMAIN rows # {},
         Decision(rows) # "none"
  PROVE  \E v \in DOMAIN rows : rows[v].revealed = Decision(rows)
<1> DEFINE W == {v \in DOMAIN rows : rows[v].revealed = Decision(rows)}
<1>1. IsFiniteSet(DOMAIN rows)
  BY FS_Subset, TallyAssumption
<1>2. Cardinality(DOMAIN rows) \in Nat /\ Cardinality(DOMAIN rows) # 0
  BY <1>1, FS_EmptySet, FS_CardinalityType
<1>3. 3 * Cardinality(W) >= 2 * Cardinality(DOMAIN rows)
  BY DecisionIsMajority DEF Count
<1>4. W # {}
  <2> SUFFICES ASSUME W = {} PROVE FALSE
    OBVIOUS
  <2>1. Cardinality(W) = 0
    BY FS_EmptySet
  <2> QED BY <2>1, <1>2, <1>3
<1> QED BY <1>4

(* What the loop leaves in the session.                                    *)
LEMMA JudgedType ==
  ASSUME NEW row \in Vote, NEW d
  PROVE  /\ Judged(row, d) \in Vote
         /\ Judged(row, d).flags =
              IF row.revealed = d THEN {"rewarded"} ELSE {"slashed"}
<1>1. row.stake + 10 \in Int /\ row.stake - 50 \in Int
  BY DEF Vote
<1>2. {"rewarded"} \in SUBSET {"slashed", "rewarded"}
      /\ {"slashed"} \in SUBSET {"slashed", "rewarded"}
  OBVIOUS
<1>3. CASE row.revealed = d
  <2>1. Judged(row, d) =
          [row EXCEPT !.flags = {"rewarded"}, !.stake = row.stake + 10]
    BY <1>3 DEF Judged
  <2> QED BY <1>1, <1>2, <1>3, <2>1 DEF Vote
<1>4. CASE row.revealed # d
  <2>1. Judged(row, d) =
          [row EXCEPT !.flags = {"slashed"}, !.stake = row.stake - 50]
    BY <1>4 DEF Judged
  <2> QED BY <1>1, <1>2, <1>4, <2>1 DEF Vote
<1> QED BY <1>3, <1>4

(* An UPDATE changes the flags and the stake only.                         *)
LEMMA FlushType ==
  ASSUME NEW cur \in Vote, NEW old \in Vote, NEW new \in Vote
  PROVE  /\ Flush(cur, old, new) \in Vote
         /\ Flush(cur, old, new).hash = cur.hash
         /\ Flush(cur, old, new).revealed = cur.revealed
         /\ Flush(cur, old, new).auditor = cur.auditor
         /\ cur.flags = old.flags => Flush(cur, old, new).flags = new.flags
BY DEF Vote, Flush

-----------------------------------------------------------------------------
(* The invariant holds initially.                                          *)
LEMMA InitIInv == Init => IInv
<1> SUFFICES ASSUME Init PROVE IInv
  OBVIOUS
<1>1. TypeOK /\ DOMAIN loc = Tasks
  <2>1. expired \in BOOLEAN /\ overlap \in BOOLEAN
    BY Zenon DEF Init
  <2>2. votes \in [VoteIds -> Vote \cup {NoVote}]
    BY DEF Init
  <2>3. tallies \in 0..MaxTallies
    BY TallyAssumption DEF Init
  <2>4. /\ status \in {"COMMIT", "REVEAL", "RESOLVED"}
        /\ final_decision \in Options \cup {"none"}
        /\ status = "RESOLVED" <=> final_decision # "none"
    BY DEF Init
  <2> QED BY <2>1, <2>2, <2>3, <2>4 DEF Init, TypeOK
<1>2. Cast = {} /\ Tallying = {} /\ Revealed = {}
  BY DEF Init, Cast, Tallying, Revealed
<1>3. \A t \in Tasks : Holding(t)
  BY DEF Init, Holding
<1>4. RevealsFit /\ AloneIsCurrent
  BY <1>2 DEF RevealsFit, AloneIsCurrent
<1>5. VerdictMatchesDecision /\ SupermajorityDecides
  BY <1>2 DEF VerdictMatchesDecision, SupermajorityDecides, Init
<1> QED BY <1>1, <1>3, <1>4, <1>5 DEF IInv

(* Steps that leave the votes and the session alone and start no tally: it *)
(* is enough that they keep the types and what the requests hold.          *)
LEMMA LocalStep ==
  ASSUME IInv, UNCHANGED <<status, final_decision, votes, tallies, overlap>>,
         NEW t \in Tasks, NEW label, NEW l,
         Goto(t, label, l),
         label \in {"idle", "double", "insert", "open", "reveal"},
         pc[t] \notin {"tally", "store"},
         expired' \in BOOLEAN, Holding(t)'
  PROVE  IInv'
<1>1. TypeOK' /\ DOMAIN loc' = Tasks
  BY DEF IInv, TypeOK, Goto
<1>2. ASSUME NEW u \in Tasks, u # t PROVE Holding(u)'
  <2>1. pc'[u] = pc[u] /\ loc'[u] = loc[u]
    BY <1>2 DEF IInv, TypeOK, Goto
  <2>2. Cast' = Cast /\ Revealed' = Revealed
    BY DEF Cast, Revealed
  <2> QED BY <2>1, <2>2 DEF IInv, Holding
<1>3. \A u \in Tasks : Holding(u)'
  BY <1>2
<1>4. Cast' = Cast /\ Revealed' = Revealed /\ Rewarded' = Rewarded
      /\ Slashed' = Slashed
  BY DEF Cast, Revealed, Rewarded, Slashed
<1>5. Tallying' = Tallying /\ t \notin Tallying
  BY DEF Tallying, IInv, TypeOK, Goto
<1>6. \A u \in Tallying : pc'[u] = pc[u] /\ loc'[u] = loc[u]
  BY <1>5 DEF Tallying, IInv, TypeOK, Goto
<1>7. RevealsFit' /\ AloneIsCurrent'
  BY <1>4, <1>5, <1>6 DEF IInv, RevealsFit, AloneIsCurrent
<1>8. VerdictMatchesDecision' /\ SupermajorityDecides'
  BY <1>4 DEF IInv, VerdictMatchesDecision, SupermajorityDecides
<1> QED BY <1>1, <1>3, <1>7, <1>8 DEF IInv

LEMMA CommitSteps ==
  ASSUME IInv, NEW t \in Tasks,
         \/ \E a \in Auditors, h \in Openings : BeginCommit(t, a, h)
         \/ CheckDouble(t)
  PROVE  IInv'
<1>1. ASSUME NEW a \in Auditors, NEW h \in Openings, BeginCommit(t, a, h)
      PROVE  IInv'
  <2> DEFINE l == [kind |-> "commit", auditor |-> a, hash |-> h]
  <2>1. Goto(t, "double", l) /\ pc[t] = "idle"
    BY <1>1 DEF BeginCommit
  <2>2. Holding(t)'
    BY <2>1 DEF Holding, Goto, IInv, TypeOK
  <2>3. UNCHANGED <<status, final_decision, expired, votes, tallies, overlap>>
    BY <1>1 DEF BeginCommit, session
  <2>4. expired' \in BOOLEAN
    BY <2>3 DEF IInv, TypeOK
  <2> HIDE DEF l
  <2> QED BY <2>1, <2>2, <2>3, <2>4, LocalStep
<1>2. ASSUME CheckDouble(t) PROVE IInv'
  <2>1. pc[t] = "double"
    BY <1>2 DEF CheckDouble
  <2>2. UNCHANGED <<status, final_decision, expired, votes, tallies, overlap>>
    BY <1>2 DEF CheckDouble, session
  <2>3. expired' \in BOOLEAN
    BY <2>2 DEF IInv, TypeOK
  <2>4. CASE Goto(t, "insert", loc[t])
    <3>1. Holding(t)'
      BY <2>1, <2>4 DEF Holding, Goto, IInv, TypeOK
    <3> QED BY <2>1, <2>2, <2>3, <2>4, <3>1, LocalStep
  <2>5. CASE Goto(t, "idle", Idle)
    <3>1. Holding(t)'
      BY <2>5 DEF Holding, Goto, IInv, TypeOK
    <3> QED BY <2>1, <2>2, <2>3, <2>5, <3>1, LocalStep
  <2> QED BY <1>2, <2>4, <2>5 DEF CheckDouble
<1> QED BY <1>1, <1>2

LEMMA RevealSteps ==
  ASSUME IInv, NEW t \in Tasks,
         \/ \E v \in VoteIds, o \in Openings : BeginReveal(t, v, o)
         \/ CheckReveal(t)
  PROVE  IInv'
<1>1. ASSUME NEW v \in VoteIds, NEW o \in Openings, BeginReveal(t, v, o)
      PROVE  IInv'
  <2> DEFINE l == [kind |-> "reveal", vote |-> v, opening |-> o,
                   hash |-> votes[v].hash]
  <2>1. Goto(t, "open", l) /\ pc[t] = "idle"
    BY <1>1 DEF BeginReveal
  <2>2. UNCHANGED <<status, final_decision, expired, votes, tallies, overlap>>
    BY <1>1 DEF BeginReveal, session
  <2>3. v \in Cast /\ Cast' = Cast
    BY <1>1, <2>2 DEF BeginReveal, Cast
  <2>4. Holding(t)'
    BY <2>1, <2>2, <2>3 DEF Holding, Goto, IInv, TypeOK
  <2>5. expired' \in BOOLEAN
    BY <2>2 DEF IInv, TypeOK
  <2> HIDE DEF l
  <2> QED BY <2>1, <2>2, <2>4, <2>5, LocalStep
<1>2. ASSUME CheckReveal(t) PROVE IInv'
  <2>1. pc[t] = "open"
    BY <1>2 DEF CheckReveal
  <2>2. UNCHANGED <<status, final_decision, expired, votes, tallies, overlap>>
    BY <1>2 DEF CheckReveal, session
  <2>3. expired' \in BOOLEAN /\ Cast' = Cast
    BY <2>2 DEF IInv, TypeOK, Cast
  <2>4. CASE HashFits(loc[t]) /\ Goto(t, "reveal", loc[t])
    <3>1. Holding(t)'
      BY <2>1, <2>2, <2>3, <2>4 DEF Holding, HashFits, Goto, IInv, TypeOK
    <3> QED BY <2>1, <2>2, <2>3, <2>4, <3>1, LocalStep
  <2>5. CASE Goto(t, "idle", Idle)
    <3>1. Holding(t)'
      BY <2>5 DEF Holding, Goto, IInv, TypeOK
    <3> QED BY <2>1, <2>2, <2>3, <2>5, <3>1, LocalStep
  <2> QED BY <1>2, <2>4, <2>5 DEF CheckReveal
<1> QED BY <1>1, <1>2

(* A step that changes the votes only as inserting or revealing one does:  *)
(* rows stay, with their hash and flags, and revealed votes stay revealed. *)
LEMMA VoteStep ==
  ASSUME IInv, UNCHANGED <<status, final_decision, expired, tallies, overlap>>,
         NEW t \in Tasks, Goto(t, "idle", Idle),
         pc[t] \notin {"tally", "store"},
         votes' \in [VoteIds -> Vote \cup {NoVote}],
         \A v \in Cast : /\ votes'[v] # NoVote
                         /\ votes'[v].hash = votes[v].hash
                         /\ votes'[v].flags = votes[v].flags,
         \A v \in Revealed : votes'[v].revealed = votes[v].revealed,
         \A v \in Cast' \ Cast : votes'[v].flags = {},
         RevealsFit'
  PROVE  IInv'
<1>1. TypeOK' /\ DOMAIN loc' = Tasks
  BY DEF IInv, TypeOK, Goto
<1>2. /\ Cast \subseteq Cast' /\ Revealed \subseteq Revealed'
      /\ Revealed \subseteq Cast
  BY DEF Cast, Revealed
<1>3. Rewarded' = Rewarded /\ Slashed' = Slashed
  BY <1>2 DEF Rewarded, Slashed
<1>4. \A u \in Tasks : Holding(u)'
  <2>1. ASSUME NEW u \in Tasks, u # t PROVE Holding(u)'
    <3>1. pc'[u] = pc[u] /\ loc'[u] = loc[u] /\ Holding(u)
      BY <2>1 DEF IInv, TypeOK, Goto
    <3> QED BY <3>1, <1>2 DEF Holding
  <2>2. Holding(t)'
    BY DEF Holding, Goto, IInv, TypeOK
  <2> QED BY <2>1, <2>2
<1>5. Tallying' = Tallying /\ t \notin Tallying
  BY DEF Tallying, IInv, TypeOK, Goto
<1>6. \A u \in Tallying : /\ u \in Tasks /\ pc'[u] = pc[u] /\ loc'[u] = loc[u]
                          /\ DOMAIN loc[u].rows \subseteq Cast
  BY <1>2, <1>5 DEF Tallying, IInv, TypeOK, Goto, Holding
<1>7. AloneIsCurrent'
  BY <1>3, <1>5, <1>6 DEF IInv, AloneIsCurrent
<1>8. VerdictMatchesDecision'
  <2> SUFFICES ASSUME ~overlap, NEW v \in Cast'
               PROVE  /\ votes'[v].flags # {} => votes'[v].revealed # "none"
                      /\ "rewarded" \in votes'[v].flags =>
                           /\ votes'[v].revealed = final_decision
                           /\ "slashed" \notin votes'[v].flags
                      /\ "slashed" \in votes'[v].flags =>
                           votes'[v].revealed # final_decision
    BY DEF VerdictMatchesDecision
  <2>1. CASE v \notin Cast
    BY <2>1
  <2>2. CASE v \in Cast /\ votes[v].flags = {}
    BY <2>2
  <2>3. CASE v \in Cast /\ votes[v].flags # {}
    <3>1. v \in Revealed
      BY <2>3 DEF IInv, VerdictMatchesDecision, Revealed, Cast
    <3> QED BY <2>3, <3>1 DEF IInv, VerdictMatchesDecision
  <2> QED BY <2>1, <2>2, <2>3
<1>9. SupermajorityDecides'
  BY <1>3 DEF IInv, SupermajorityDecides
<1> QED BY <1>1, <1>4, <1>7, <1>8, <1>9 DEF IInv

LEMMA InsertStep ==
  ASSUME IInv, NEW t \in Tasks, NEW v \in VoteIds, InsertVote(t, v)
  PROVE  IInv'
<1> DEFINE row == [auditor |-> loc[t].auditor, hash |-> loc[t].hash,
                   revealed |-> "none", stake |-> 100, flags |-> {}]
<1>1. /\ pc[t] = "insert" /\ votes[v] = NoVote
      /\ votes' = [votes EXCEPT ![v] = row]
      /\ Goto(t, "idle", Idle)
      /\ UNCHANGED <<status, final_decision, expired, tallies, overlap>>
  BY DEF InsertVote, session
<1>2. row \in Vote
  <2>1. loc[t].auditor \in Auditors /\ loc[t].hash \in Openings
    BY <1>1 DEF IInv, Holding
  <2> QED BY <2>1 DEF Vote
<1>3. row # NoVote /\ row.revealed = "none" /\ row.flags = {}
  BY <1>2, NoVoteAssumption
<1> HIDE DEF row
<1>4. votes' \in [VoteIds -> Vote \cup {NoVote}]
  BY <1>1, <1>2 DEF IInv, TypeOK
<1>5. \A w \in VoteIds : votes'[w] = IF w = v THEN row ELSE votes[w]
  BY <1>1 DEF IInv, TypeOK
<1>6. v \notin Cast /\ Cast' = Cast \cup {v} /\ Revealed' = Revealed
      /\ Cast \subseteq VoteIds /\ Revealed \subseteq Cast
  BY <1>1, <1>3, <1>5 DEF Cast, Revealed
<1>7. RevealsFit'
  BY <1>5, <1>6 DEF IInv, RevealsFit
<1>8. \A w \in Cast : votes'[w] = votes[w] /\ votes[w] # NoVote
  BY <1>5, <1>6 DEF Cast
<1>9. \A w \in Cast' \ Cast : votes'[w].flags = {}
  BY <1>3, <1>5, <1>6
<1> QED BY <1>1, <1>4, <1>6, <1>7, <1>8, <1>9, VoteStep

(* A reveal that passed its check writes the vote that was committed to,   *)
(* whatever happened since: writing it twice changes nothing.              *)
LEMMA RevealWrites ==
  ASSUME IInv, NEW t \in Tasks, StoreReveal(t)
  PROVE  LET v == loc[t].vote IN
         /\ v \in Cast /\ votes[v] \in Vote
         /\ votes' = [votes EXCEPT ![v] =
              [votes[v] EXCEPT !.revealed = votes[v].hash[1]]]
         /\ votes[v].hash[1] \in Options
         /\ votes[v].revealed # "none" =>
              votes[v].revealed = votes[v].hash[1]
<1> DEFINE v == loc[t].vote
<1>1. pc[t] = "reveal"
  BY DEF StoreReveal
<1>2. /\ v \in Cast /\ loc[t].opening \in Openings
      /\ loc[t].opening = votes[v].hash
  BY <1>1 DEF IInv, Holding
<1>3. votes[v] \in Vote
  BY <1>2 DEF IInv, TypeOK, Cast
<1>4. votes' = [votes EXCEPT ![v] =
              [votes[v] EXCEPT !.revealed = votes[v].hash[1]]]
  BY <1>2 DEF StoreReveal
<1>5. votes[v].hash[1] \in Options
  BY <1>2 DEF Openings
<1>6. votes[v].revealed # "none" => votes[v].revealed = votes[v].hash[1]
  BY <1>2 DEF IInv, RevealsFit, Revealed, Cast
<1> QED BY <1>2, <1>3, <1>4, <1>5, <1>6

LEMMA RevealStep ==
  ASSUME IInv, NEW t \in Tasks, StoreReveal(t)
  PROVE  IInv'
<1> DEFINE v == loc[t].vote
           row == [votes[v] EXCEPT !.revealed = votes[v].hash[1]]
<1>1. /\ pc[t] = "reveal" /\ Goto(t, "idle", Idle)
      /\ UNCHANGED <<status, final_decision, expired, tallies, overlap>>
  BY DEF StoreReveal, session
<1>2. /\ v \in Cast /\ votes[v] \in Vote
      /\ votes' = [votes EXCEPT ![v] = row]
      /\ votes[v].hash[1] \in Options
      /\ votes[v].revealed # "none" => votes[v].revealed = votes[v].hash[1]
  BY RevealWrites
<1>3. /\ row \in Vote /\ row.hash = votes[v].hash
      /\ row.flags = votes[v].flags /\ row.revealed = votes[v].hash[1]
  BY <1>2 DEF Vote
<1> HIDE DEF row
<1>4. votes' \in [VoteIds -> Vote \cup {NoVote}] /\ v \in VoteIds
  BY <1>2, <1>3 DEF IInv, TypeOK, Cast
<1>5. \A w \in VoteIds : votes'[w] = IF w = v THEN row ELSE votes[w]
  BY <1>2 DEF IInv, TypeOK
<1>6. row # NoVote
  BY <1>3, NoVoteAssumption
<1>7. \A w \in Cast : /\ votes'[w] # NoVote
                      /\ votes'[w].hash = votes[w].hash
                      /\ votes'[w].flags = votes[w].flags
  BY <1>3, <1>5, <1>6 DEF Cast
<1>8. \A w \in Revealed : votes'[w].revealed = votes[w].revealed
  BY <1>2, <1>3, <1>5 DEF Revealed
<1>9. Cast' = Cast
  BY <1>2, <1>5, <1>6 DEF Cast
<1>10. RevealsFit'
  BY <1>3, <1>5 DEF IInv, RevealsFit, Revealed
<1> HIDE DEF v
<1> QED BY <1>1, <1>4, <1>7, <1>8, <1>9, <1>10, VoteStep

-----------------------------------------------------------------------------
(* A tally that begins alone holds every vote that was ever judged, since  *)
(* only revealed votes are.                                                *)
LEMMA BeginTallyStep ==
  ASSUME IInv, NEW t \in Tasks, BeginTally(t)
  PROVE  IInv'
<1> DEFINE rows == [v \in Revealed |-> votes[v]]
           l == [kind |-> "tally", rows |-> rows]
<1>1. /\ pc[t] = "idle" /\ Revealed # {} /\ Decision(rows) # "none"
      /\ pc' = [pc EXCEPT ![t] = "tally"] /\ loc' = [loc EXCEPT ![t] = l]
      /\ tallies < MaxTallies /\ tallies' = tallies + 1
      /\ UNCHANGED <<status, final_decision, expired, votes>>
  BY DEF BeginTally, Goto, session
<1>2. /\ overlap' \in BOOLEAN
      /\ ~overlap' => ~overlap /\ Tallying = {}
  BY Zenon DEF BeginTally
<1>3. Decision(rows) \in Options
  BY <1>1, DecisionIsMajority
<1>4. /\ DOMAIN rows = Revealed /\ rows \in [Revealed -> Vote]
      /\ \A v \in Revealed : rows[v] = votes[v]
  BY DEF Revealed, IInv, TypeOK
<1>5. l.rows = rows
  OBVIOUS
<1> HIDE DEF rows, l
<1>6. /\ Cast' = Cast /\ Revealed' = Revealed
      /\ Rewarded' = Rewarded /\ Slashed' = Slashed
  BY <1>1 DEF Cast, Revealed, Rewarded, Slashed
<1>7. /\ pc'[t] = "tally" /\ loc'[t] = l
      /\ \A u \in Tasks : u # t => pc'[u] = pc[u] /\ loc'[u] = loc[u]
  BY <1>1 DEF IInv, TypeOK
<1>8. TypeOK' /\ DOMAIN loc' = Tasks
  <2>1. tallies' \in 0..MaxTallies
    BY <1>1, TallyAssumption DEF IInv, TypeOK
  <2> QED BY <1>1, <1>2, <2>1 DEF IInv, TypeOK
<1>9. \A u \in Tasks : Holding(u)'
  <2>1. ASSUME NEW u \in Tasks, u # t PROVE Holding(u)'
    BY <1>1, <1>6, <1>7, <2>1 DEF IInv, Holding
  <2>2. Holding(t)'
    BY <1>1, <1>3, <1>4, <1>5, <1>6, <1>7 DEF Holding
  <2> QED BY <2>1, <2>2
<1>10. RevealsFit' /\ VerdictMatchesDecision'
  BY <1>1, <1>2, <1>6 DEF IInv, RevealsFit, VerdictMatchesDecision
<1>11. SupermajorityDecides'
  BY <1>1, <1>2, <1>6 DEF IInv, SupermajorityDecides
<1>12. AloneIsCurrent'
  <2> SUFFICES ASSUME ~overlap', NEW u \in Tallying'
               PROVE  /\ Tallying' = {u}
                      /\ Rewarded' \cup Slashed' \subseteq DOMAIN loc'[u].rows
                      /\ \A v \in DOMAIN loc'[u].rows :
                           loc'[u].rows[v].flags = votes'[v].flags
                      /\ pc'[u] # "store"
    BY DEF AloneIsCurrent
  <2>1. Tallying' = {t} /\ u = t
    BY <1>2, <1>7 DEF Tallying
  <2>2. Rewarded \cup Slashed \subseteq Revealed
    BY <1>2 DEF IInv, VerdictMatchesDecision, Rewarded, Slashed, Revealed, Cast
  <2> QED BY <1>1, <1>4, <1>5, <1>6, <1>7, <2>1, <2>2
<1> QED BY <1>8, <1>9, <1>10, <1>11, <1>12 DEF IInv

LEMMA TallySessionStep ==
  ASSUME IInv, NEW t \in Tasks, TallySession(t)
  PROVE  IInv'
<1> DEFINE l == [kind |-> "tally", rows |-> loc[t].rows,
                 status |-> status, final |-> final_decision]
<1>1. /\ pc[t] = "tally"
      /\ pc' = [pc EXCEPT ![t] = "store"] /\ loc' = [loc EXCEPT ![t] = l]
      /\ UNCHANGED <<status, final_decision, expired, votes, tallies, overlap>>
  BY DEF TallySession, Goto, session
<1>2. /\ l.rows = loc[t].rows /\ l.status = status
      /\ l.final = final_decision
  OBVIOUS
<1> HIDE DEF l
<1>3. /\ Cast' = Cast /\ Revealed' = Revealed
      /\ Rewarded' = Rewarded /\ Slashed' = Slashed
  BY <1>1 DEF Cast, Revealed, Rewarded, Slashed
<1>4. /\ pc'[t] = "store" /\ loc'[t] = l
      /\ \A u \in Tasks : u # t => pc'[u] = pc[u] /\ loc'[u] = loc[u]
  BY <1>1 DEF IInv, TypeOK
<1>5. TypeOK' /\ DOMAIN loc' = Tasks
  BY <1>1 DEF IInv, TypeOK
<1>6. \A u \in Tasks : Holding(u)'
  <2>1. ASSUME NEW u \in Tasks, u # t PROVE Holding(u)'
    BY <1>1, <1>3, <1>4, <2>1 DEF IInv, Holding
  <2>2. Holding(t)'
    <3>1. status = "RESOLVED" <=> final_decision # "none"
      BY DEF IInv, TypeOK
    <3> QED BY <1>1, <1>2, <1>3, <1>4, <3>1 DEF IInv, Holding
  <2> QED BY <2>1, <2>2
<1>7. RevealsFit' /\ VerdictMatchesDecision' /\ SupermajorityDecides'
  BY <1>1, <1>3 DEF IInv, RevealsFit, VerdictMatchesDecision,
                    SupermajorityDecides
<1>8. AloneIsCurrent'
  <2>1. Tallying' = Tallying /\ t \in Tallying
    BY <1>1, <1>4 DEF Tallying
  <2> QED BY <1>1, <1>2, <1>3, <1>4, <2>1 DEF IInv, AloneIsCurrent
<1> QED BY <1>5, <1>6, <1>7, <1>8 DEF IInv

-----------------------------------------------------------------------------
(* What StoreVerdict does to the session and to each vote.                 *)
LEMMA VerdictWrites ==
  ASSUME IInv, NEW t \in Tasks, StoreVerdict(t)
  PROVE  LET rows == loc[t].rows
             d    == Decision(rows)
         IN  /\ status' = "RESOLVED" /\ final_decision' \in Options
             /\ ~overlap => final_decision' = d
             /\ votes' \in [VoteIds -> Vote \cup {NoVote}]
             /\ Cast' = Cast
             /\ \A v \in Cast : /\ votes'[v].hash = votes[v].hash
                                /\ votes'[v].revealed = votes[v].revealed
             /\ \A v \in VoteIds \ DOMAIN rows : votes'[v] = votes[v]
             /\ ~overlap => \A v \in DOMAIN rows :
                  votes'[v].flags =
                    IF votes[v].revealed = d THEN {"rewarded"} ELSE {"slashed"}
<1> DEFINE rows == loc[t].rows
           d    == Decision(rows)
           J(v) == Judged(rows[v], d)
<1>1. /\ pc[t] = "store" /\ t \in Tallying
      /\ votes' = [v \in VoteIds |->
            IF v \in DOMAIN rows THEN Flush(votes[v], rows[v], J(v))
            ELSE votes[v]]
      /\ status' = IF loc[t].status = "RESOLVED" THEN status ELSE "RESOLVED"
      /\ final_decision' = IF loc[t].final = d THEN final_decision ELSE d
  BY DEF StoreVerdict, NewStatus, Tallying
<1>2. /\ DOMAIN rows \subseteq Revealed /\ rows \in [DOMAIN rows -> Vote]
      /\ \A v \in DOMAIN rows : rows[v].revealed = votes[v].revealed
      /\ d \in Options
      /\ loc[t].status = "RESOLVED" <=> loc[t].final # "none"
      /\ loc[t].status = "RESOLVED" => status = "RESOLVED"
  BY <1>1 DEF IInv, Holding
<1>3. status = "RESOLVED" <=> final_decision # "none"
  BY DEF IInv, TypeOK
<1>4. d # "none" /\ final_decision \in Options \cup {"none"}
  BY <1>2 DEF Options, IInv, TypeOK
<1>5. ~overlap => loc[t].final = final_decision
  BY <1>1 DEF IInv, AloneIsCurrent
<1>6. ~overlap => \A v \in DOMAIN rows : rows[v].flags = votes[v].flags
  BY <1>1 DEF IInv, AloneIsCurrent
<1> HIDE DEF rows, d
<1>7. status' = "RESOLVED" /\ final_decision' \in Options
  BY <1>1, <1>2, <1>3, <1>4
<1>8. ~overlap => final_decision' = d
  BY <1>1, <1>5
<1>9. ASSUME NEW v \in DOMAIN rows
      PROVE  /\ v \in VoteIds /\ votes[v] \in Vote /\ votes'[v] \in Vote
             /\ votes'[v].hash = votes[v].hash
             /\ votes'[v].revealed = votes[v].revealed
             /\ ~overlap =>
                  votes'[v].flags =
                    IF votes[v].revealed = d THEN {"rewarded"} ELSE {"slashed"}
  <2>1. v \in VoteIds /\ votes[v] \in Vote /\ rows[v] \in Vote
    BY <1>2, <1>9 DEF Revealed, IInv, TypeOK
  <2>2. /\ J(v) \in Vote
        /\ J(v).flags =
             IF rows[v].revealed = d THEN {"rewarded"} ELSE {"slashed"}
    BY <2>1, JudgedType
  <2>3. votes'[v] = Flush(votes[v], rows[v], J(v))
    BY <1>1, <1>9, <2>1
  <2> HIDE DEF J
  <2> QED BY <1>2, <1>6, <1>9, <2>1, <2>2, <2>3, FlushType
<1>10. \A v \in VoteIds \ DOMAIN rows : votes'[v] = votes[v]
  BY <1>1
<1>11. votes' \in [VoteIds -> Vote \cup {NoVote}]
  <2>1. DOMAIN votes' = VoteIds /\ votes' = [v \in VoteIds |-> votes'[v]]
    BY <1>1
  <2>2. \A v \in VoteIds : votes'[v] \in Vote \cup {NoVote}
    BY <1>9, <1>10 DEF IInv, TypeOK
  <2> QED BY <2>1, <2>2
<1>12. Cast' = Cast
  BY <1>9, <1>10, NoVoteAssumption DEF Cast
<1>13. \A v \in Cast : /\ votes'[v].hash = votes[v].hash
                       /\ votes'[v].revealed = votes[v].revealed
  BY <1>9, <1>10 DEF Cast
<1> QED BY <1>7, <1>8, <1>9, <1>10, <1>11, <1>12, <1>13 DEF rows, d

(* A verdict stored by a tally that ran alone judges all the votes ever    *)
(* judged, by the decision that now stands.                                *)
LEMMA VerdictStep ==
  ASSUME IInv, NEW t \in Tasks, StoreVerdict(t)
  PROVE  IInv'
<1> DEFINE rows == loc[t].rows
           d    == Decision(rows)
           W    == {v \in DOMAIN rows : rows[v].revealed = d}
<1>1. /\ status' = "RESOLVED" /\ final_decision' \in Options
      /\ ~overlap => final_decision' = d
      /\ votes' \in [VoteIds -> Vote \cup {NoVote}]
      /\ Cast' = Cast
      /\ \A v \in Cast : /\ votes'[v].hash = votes[v].hash
                         /\ votes'[v].revealed = votes[v].revealed
      /\ \A v \in VoteIds \ DOMAIN rows : votes'[v] = votes[v]
      /\ ~overlap => \A v \in DOMAIN rows :
           votes'[v].flags =
             IF votes[v].revealed = d THEN {"rewarded"} ELSE {"slashed"}
  BY VerdictWrites
<1>2. /\ pc[t] = "store" /\ t \in Tallying
      /\ pc' = [pc EXCEPT ![t] = "idle"] /\ loc' = [loc EXCEPT ![t] = Idle]
      /\ UNCHANGED <<expired, tallies, overlap>>
  BY DEF StoreVerdict, Goto, Tallying
<1>3. /\ DOMAIN rows \subseteq Revealed /\ DOMAIN rows # {}
      /\ \A v \in DOMAIN rows : rows[v].revealed = votes[v].revealed
      /\ d \in Options
  BY <1>2 DEF IInv, Holding
<1>4. ~overlap => /\ Tallying = {t}
                  /\ Rewarded \cup Slashed \subseteq DOMAIN rows
  BY <1>2 DEF IInv, AloneIsCurrent
<1>5. d # "none" /\ Revealed \subseteq Cast /\ Cast \subseteq VoteIds
  BY <1>3 DEF Options, Revealed, Cast
<1>6. W # {} /\ 3 * Cardinality(W) >= 2 * Cardinality(DOMAIN rows)
  <2>1. \E v \in DOMAIN rows : rows[v].revealed = d
    BY <1>3, <1>5, DecisionHasVoters
  <2>2. 3 * Count(rows, d) >= 2 * Cardinality(DOMAIN rows)
    BY <1>5, DecisionIsMajority
  <2> QED BY <2>1, <2>2 DEF Count
<1> HIDE DEF rows, d
<1>7. TypeOK' /\ DOMAIN loc' = Tasks
  <2>1. final_decision' # "none"
    BY <1>1 DEF Options
  <2> QED BY <1>1, <1>2, <2>1 DEF IInv, TypeOK
<1>8. Revealed' = Revealed
  <2>1. \A v \in VoteIds : votes[v] # NoVote <=> votes'[v] # NoVote
    BY <1>1 DEF Cast
  <2>2. \A v \in VoteIds : votes[v] # NoVote =>
          votes'[v].revealed = votes[v].revealed
    BY <1>1 DEF Cast
  <2> QED BY <2>1, <2>2 DEF Revealed
<1>9. \A u \in Tasks : Holding(u)'
  <2>1. ASSUME NEW u \in Tasks, u # t PROVE Holding(u)'
    <3>1. pc'[u] = pc[u] /\ loc'[u] = loc[u] /\ Holding(u)
      BY <1>2, <2>1 DEF IInv, TypeOK
    <3> QED BY <3>1, <1>1, <1>5, <1>8 DEF Holding
  <2>2. Holding(t)'
    BY <1>2 DEF Holding, IInv, TypeOK
  <2> QED BY <2>1, <2>2
<1>10. RevealsFit'
  BY <1>1, <1>5, <1>8 DEF IInv, RevealsFit
<1>11. AloneIsCurrent'
  <2>1. Tallying' = Tallying \ {t}
    BY <1>2 DEF Tallying, IInv, TypeOK
  <2> QED BY <1>2, <1>4, <2>1 DEF AloneIsCurrent
<1>12. ASSUME ~overlap, NEW v \in Cast, v \notin DOMAIN rows
       PROVE  votes'[v].flags = {}
  <2>1. v \notin Rewarded /\ v \notin Slashed /\ votes'[v] = votes[v]
    BY <1>1, <1>4, <1>5, <1>12
  <2>2. votes[v].flags \in SUBSET {"slashed", "rewarded"}
    BY <1>12 DEF IInv, TypeOK, Cast, Vote
  <2> QED BY <2>1, <2>2 DEF Rewarded, Slashed
<1>13. VerdictMatchesDecision'
  <2> SUFFICES ASSUME ~overlap, NEW v \in Cast
               PROVE  /\ votes'[v].flags # {} => votes'[v].revealed # "none"
                      /\ "rewarded" \in votes'[v].flags =>
                           /\ votes'[v].revealed = final_decision'
                           /\ "slashed" \notin votes'[v].flags
                      /\ "slashed" \in votes'[v].flags =>
                           votes'[v].revealed # final_decision'
    BY <1>1, <1>2 DEF VerdictMatchesDecision
  <2>1. CASE v \in DOMAIN rows
    <3>1. votes[v].revealed # "none"
      BY <1>3, <2>1 DEF Revealed
    <3> QED BY <1>1, <2>1, <3>1
  <2>2. CASE v \notin DOMAIN rows
    BY <1>12, <2>2
  <2> QED BY <2>1, <2>2
<1>14. SupermajorityDecides'
  <2> SUFFICES ASSUME ~overlap
               PROVE  Rewarded' = W /\ Rewarded' \cup Slashed' = DOMAIN rows
    BY <1>2, <1>6 DEF SupermajorityDecides
  <2>1. Rewarded' = {v \in DOMAIN rows : votes[v].revealed = d}
    BY <1>1, <1>3, <1>5, <1>12 DEF Rewarded
  <2>2. Slashed' = {v \in DOMAIN rows : votes[v].revealed # d}
    BY <1>1, <1>3, <1>5, <1>12 DEF Slashed
  <2> QED BY <1>3, <2>1, <2>2
<1> QED BY <1>7, <1>9, <1>10, <1>11, <1>13, <1>14 DEF IInv

(* Time passing, and steps that change nothing.                            *)
LEMMA QuietStep ==
  ASSUME IInv, expired' \in BOOLEAN,
         UNCHANGED <<status, final_decision, votes, pc, loc, tallies, overlap>>
  PROVE  IInv'
<1>1. /\ Cast' = Cast /\ Revealed' = Revealed /\ Rewarded' = Rewarded
      /\ Slashed' = Slashed /\ Tallying' = Tallying
  BY DEF Cast, Revealed, Rewarded, Slashed, Tallying
<1>2. TypeOK' /\ DOMAIN loc' = Tasks
  BY DEF IInv, TypeOK
<1>3. \A u \in Tasks : Holding(u)'
  BY <1>1 DEF IInv, Holding
<1>4. RevealsFit' /\ AloneIsCurrent'
  BY <1>1 DEF IInv, RevealsFit, AloneIsCurrent
<1>5. VerdictMatchesDecision' /\ SupermajorityDecides'
  BY <1>1 DEF IInv, VerdictMatchesDecision, SupermajorityDecides
<1> QED BY <1>2, <1>3, <1>4, <1>5 DEF IInv

LEMMA NextIInv == IInv /\ [Next]_vars => IInv'
<1> SUFFICES ASSUME IInv, [Next]_vars PROVE IInv'
  OBVIOUS
<1>1. CASE Expire
  <2>1. expired' \in BOOLEAN
    BY <1>1, Zenon DEF Expire
  <2> QED BY <1>1, <2>1, QuietStep DEF Expire, session
<1>2. CASE UNCHANGED vars
  <2>1. expired' \in BOOLEAN
    BY <1>2 DEF vars, IInv, TypeOK
  <2> QED BY <1>2, <2>1, QuietStep DEF vars
<1>3. ASSUME NEW t \in Tasks, NEW v \in VoteIds, InsertVote(t, v) PROVE IInv'
  BY <1>3, InsertStep
<1> QED BY <1>1, <1>2, <1>3, CommitSteps, RevealSteps, RevealStep,
           BeginTallyStep, TallySessionStep, VerdictStep DEF Next

(* In every reachable state, for any number of requests, auditors and      *)
(* votes, the session's status and decision agree and all is well typed.   *)
THEOREM TribunalTypeCorrect == Spec => []TypeOK
<1>1. IInv => TypeOK
  BY DEF IInv
<1> QED BY <1>1, InitIInv, NextIInv, PTL DEF Spec

(* Flags agree with the final decision unless tallies overlapped.          *)
THEOREM VerdictsHold == Spec => []VerdictMatchesDecision
<1>1. IInv => VerdictMatchesDecision
  BY DEF IInv
<1> QED BY <1>1, InitIInv, NextIInv, PTL DEF Spec

(* Two thirds of the judged votes support the decision that stands.        *)
THEOREM SupermajorityHolds == Spec => []SupermajorityDecides
<1>1. IInv => SupermajorityDecides
  BY DEF IInv
<1> QED BY <1>1, InitIInv, NextIInv, PTL DEF Spec

(* No step changes a committed hash or a revealed vote: a second reveal    *)
(* that raced past the check writes what is there already.                 *)
THEOREM VotesBind == Spec => VotesAreBinding
<1> DEFINE B == \A v \in Cast :
                  /\ votes'[v].hash = votes[v].hash
                  /\ votes[v].revealed # "none" =>
                       votes'[v].revealed = votes[v].revealed
<1>1. IInv /\ [Next]_vars => [B]_vars
  <2> SUFFICES ASSUME IInv, [Next]_vars PROVE B \/ UNCHANGED vars
    OBVIOUS
  <2>1. CASE votes' = votes
    BY <2>1
  <2>2. ASSUME NEW t \in Tasks, NEW w \in VoteIds, InsertVote(t, w) PROVE B
    BY <2>2 DEF InsertVote, Cast, IInv, TypeOK
  <2>3. ASSUME NEW t \in Tasks, StoreReveal(t) PROVE B
    <3> DEFINE w == loc[t].vote
               row == [votes[w] EXCEPT !.revealed = votes[w].hash[1]]
    <3>1. /\ w \in Cast /\ votes[w] \in Vote
          /\ votes' = [votes EXCEPT ![w] = row]
          /\ votes[w].revealed # "none" => votes[w].revealed = votes[w].hash[1]
      BY <2>3, RevealWrites
    <3>2. row.hash = votes[w].hash /\ row.revealed = votes[w].hash[1]
      BY <3>1 DEF Vote
    <3> HIDE DEF row
    <3> QED BY <3>1, <3>2 DEF Cast, IInv, TypeOK
  <2>4. ASSUME NEW t \in Tasks, StoreVerdict(t) PROVE B
    BY <2>4, VerdictWrites
  <2> HIDE DEF B
  <2> QED BY <2>1, <2>2, <2>3, <2>4
          DEF Next, vars, Expire, BeginCommit, CheckDouble, BeginReveal,
              CheckReveal, BeginTally, TallySession
<1> QED BY <1>1, InitIInv, NextIInv, PTL DEF Spec, VotesAreBinding
=============================================================================
