------------------------------ MODULE Tribunal -------------------------------
(***************************************************************************)
(* One dispute of the Tribunal (core/features/tribunal/service.py):        *)
(* auditors commit hashed votes, reveal them, and a compliance officer     *)
(* tallies.  Every request is a coroutine with its own database session    *)
(* (no autoflush, no expiry on commit, READ COMMITTED), so requests        *)
(* interleave between any two statements, and an UPDATE carries only the   *)
(* columns that differ from the values the session loaded.                 *)
(*                                                                         *)
(* A commit hash is the pair <<vote, salt>> that opens it: SHA-256 is      *)
(* taken to be free of collisions.  A request that is refused changes      *)
(* nothing and is left out or returns to "idle".  No code moves a session  *)
(* from COMMIT to REVEAL.                                                  *)
(***************************************************************************)
EXTENDS Integers, FiniteSets

CONSTANTS
  Tasks,       \* requests in flight at the same time
  Auditors,    \* users with the role AUDITEUR
  VoteIds,     \* identifiers of rows of tribunal_votes
  Salts,       \* salts
  MaxTallies,  \* bound on the tallies that reach a decision
  NoVote       \* no such row

ASSUME TallyAssumption == MaxTallies \in Nat /\ IsFiniteSet(VoteIds)

VARIABLES
  status,          \* tribunal_sessions.status
  final_decision,  \* tribunal_sessions.final_decision
  expired,         \* expires_at has passed
  votes,           \* tribunal_votes
  pc,              \* step each request is at
  loc,             \* its arguments and what it has loaded
  tallies,         \* tallies that reached a decision
  overlap          \* two of them were in progress at once (history)

session == <<status, final_decision>>
vars == <<status, final_decision, expired, votes, pc, loc, tallies, overlap>>

Options == {"FRAUD", "LEGITIMATE"}
Openings == Options \X Salts

(* flags: which of the columns slashed and rewarded are true.              *)
Vote == [auditor: Auditors, hash: Openings, revealed: Options \cup {"none"},
         stake: Int, flags: SUBSET {"slashed", "rewarded"}]

ASSUME NoVoteAssumption == NoVote \notin Vote

Idle == [kind |-> "none"]

Init ==
  /\ status = "COMMIT" /\ final_decision = "none" /\ expired = FALSE
  /\ votes = [v \in VoteIds |-> NoVote]
  /\ pc = [t \in Tasks |-> "idle"]
  /\ loc = [t \in Tasks |-> Idle]
  /\ tallies = 0 /\ overlap = FALSE

Goto(t, label, l) ==
  /\ pc' = [pc EXCEPT ![t] = label]
  /\ loc' = [loc EXCEPT ![t] = l]

Expire ==
  /\ ~expired
  /\ expired' = TRUE
  /\ UNCHANGED <<session, votes, pc, loc, tallies, overlap>>

-----------------------------------------------------------------------------
(* commit_vote: the session is open, the auditor has no vote yet, insert.  *)
BeginCommit(t, a, h) ==
  /\ pc[t] = "idle"
  /\ status = "COMMIT" /\ ~expired
  /\ Goto(t, "double", [kind |-> "commit", auditor |-> a, hash |-> h])
  /\ UNCHANGED <<session, expired, votes, tallies, overlap>>

VotesOf(a) == {v \in VoteIds : votes[v] # NoVote /\ votes[v].auditor = a}

CheckDouble(t) ==
  /\ pc[t] = "double"
  /\ IF VotesOf(loc[t].auditor) = {} THEN Goto(t, "insert", loc[t])
     ELSE Goto(t, "idle", Idle)
  /\ UNCHANGED <<session, expired, votes, tallies, overlap>>

InsertVote(t, v) ==
  /\ pc[t] = "insert"
  /\ votes[v] = NoVote
  /\ votes' = [votes EXCEPT ![v] =
       [auditor |-> loc[t].auditor, hash |-> loc[t].hash, revealed |-> "none",
        stake |-> 100, flags |-> {}]]
  /\ Goto(t, "idle", Idle)
  /\ UNCHANGED <<session, expired, tallies, overlap>>

-----------------------------------------------------------------------------
(* reveal_vote: the vote exists and is not revealed; the session is not    *)
(* resolved (expiry is not looked at) and the opening fits; store it.      *)
BeginReveal(t, v, o) ==
  /\ pc[t] = "idle"
  /\ votes[v] # NoVote /\ votes[v].revealed = "none"
  /\ Goto(t, "open", [kind |-> "reveal", vote |-> v, opening |-> o,
                      hash |-> votes[v].hash])
  /\ UNCHANGED <<session, expired, votes, tallies, overlap>>

HashFitsMutant(l) == TRUE

HashFits(l) == l.hash = l.opening

CheckReveal(t) ==
  /\ pc[t] = "open"
  /\ IF status \in {"COMMIT", "REVEAL"} /\ HashFits(loc[t])
     THEN Goto(t, "reveal", loc[t])
     ELSE Goto(t, "idle", Idle)
  /\ UNCHANGED <<session, expired, votes, tallies, overlap>>

StoreReveal(t) ==
  /\ pc[t] = "reveal"
  /\ votes' = [votes EXCEPT ![loc[t].vote].revealed = loc[t].opening[1]]
  /\ Goto(t, "idle", Idle)
  /\ UNCHANGED <<session, expired, tallies, overlap>>

-----------------------------------------------------------------------------
(* tally_and_slash.  rows is what the first SELECT returned.               *)
Revealed == {v \in VoteIds : votes[v] # NoVote /\ votes[v].revealed # "none"}

Count(rows, option) ==
  Cardinality({v \in DOMAIN rows : rows[v].revealed = option})

DecisionMutant(rows) ==
  LET winner == IF Count(rows, "LEGITIMATE") > Count(rows, "FRAUD")
                THEN "LEGITIMATE" ELSE "FRAUD"
  IN  IF 2 * Count(rows, winner) >= Cardinality(DOMAIN rows)
      THEN winner ELSE "none"

(* max takes the first option, FRAUD, of two with the same count; the      *)
(* winner needs two thirds of the revealed votes.                          *)
Decision(rows) ==
  LET winner == IF Count(rows, "LEGITIMATE") > Count(rows, "FRAUD")
                THEN "LEGITIMATE" ELSE "FRAUD"
  IN  IF 3 * Count(rows, winner) >= 2 * Cardinality(DOMAIN rows)
      THEN winner ELSE "none"

Tallying == {t \in Tasks : pc[t] \in {"tally", "store"}}

BeginTally(t) ==
  /\ pc[t] = "idle" /\ tallies < MaxTallies
  /\ Revealed # {}
  /\ LET rows == [v \in Revealed |-> votes[v]] IN
       /\ Decision(rows) # "none"
       /\ Goto(t, "tally", [kind |-> "tally", rows |-> rows])
  /\ tallies' = tallies + 1
  /\ overlap' = (overlap \/ Tallying # {})
  /\ UNCHANGED <<session, expired, votes>>

TallySession(t) ==
  /\ pc[t] = "tally"
  /\ Goto(t, "store", [kind |-> "tally", rows |-> loc[t].rows,
                       status |-> status, final |-> final_decision])
  /\ UNCHANGED <<session, expired, votes, tallies, overlap>>

JudgedMutant(row, decision) ==
  IF row.revealed = decision
  THEN [row EXCEPT !.flags = @ \cup {"rewarded"}, !.stake = @ + 10]
  ELSE [row EXCEPT !.flags = @ \cup {"slashed"}, !.stake = @ - 50]

(* The row that the loop over the votes leaves in the session.             *)
Judged(row, decision) ==
  IF row.revealed = decision
  THEN [row EXCEPT !.flags = {"rewarded"}, !.stake = @ + 10]
  ELSE [row EXCEPT !.flags = {"slashed"}, !.stake = @ - 50]

(* UPDATE of the columns of cur in which new differs from old.             *)
Flush(cur, old, new) ==
  [cur EXCEPT
     !.flags = (@ \ (old.flags \ new.flags)) \cup (new.flags \ old.flags),
     !.stake = IF new.stake # old.stake THEN new.stake ELSE @]

(* sess.status = "RESOLVED", flushed only if the session loaded another.   *)
NewStatus(t) == IF loc[t].status = "RESOLVED" THEN status ELSE "RESOLVED"

StoreVerdict(t) ==
  /\ pc[t] = "store"
  /\ LET rows == loc[t].rows
         d    == Decision(rows)
     IN  /\ votes' = [v \in VoteIds |->
              IF v \in DOMAIN rows
              THEN Flush(votes[v], rows[v], Judged(rows[v], d))
              ELSE votes[v]]
         /\ status' = NewStatus(t)
         /\ final_decision' = IF loc[t].final = d THEN final_decision ELSE d
  /\ Goto(t, "idle", Idle)
  /\ UNCHANGED <<expired, tallies, overlap>>

-----------------------------------------------------------------------------
Next ==
  \/ Expire
  \/ \E t \in Tasks :
       \/ \E a \in Auditors, h \in Openings : BeginCommit(t, a, h)
       \/ CheckDouble(t)
       \/ \E v \in VoteIds : InsertVote(t, v)
       \/ \E v \in VoteIds, o \in Openings : BeginReveal(t, v, o)
       \/ CheckReveal(t) \/ StoreReveal(t)
       \/ BeginTally(t) \/ TallySession(t) \/ StoreVerdict(t)

Spec == Init /\ [][Next]_vars

-----------------------------------------------------------------------------
(* Type correctness; a session is RESOLVED exactly when it has a decision. *)
TypeOK ==
  /\ status \in {"COMMIT", "REVEAL", "RESOLVED"}
  /\ final_decision \in Options \cup {"none"}
  /\ status = "RESOLVED" <=> final_decision # "none"
  /\ expired \in BOOLEAN /\ overlap \in BOOLEAN
  /\ votes \in [VoteIds -> Vote \cup {NoVote}]
  /\ pc \in [Tasks -> {"idle", "double", "insert", "open", "reveal",
                       "tally", "store"}]
  /\ tallies \in 0..MaxTallies

Cast == {v \in VoteIds : votes[v] # NoVote}

(* A vote is binding: once committed its hash never changes, and once      *)
(* revealed its vote never does, even when two reveals of it race past the *)
(* "already revealed" check, or one of them outlives the tally.            *)
VotesAreBinding ==
  [][\A v \in Cast :
       /\ votes'[v].hash = votes[v].hash
       /\ votes[v].revealed # "none" =>
            votes'[v].revealed = votes[v].revealed]_vars

(* Repeated tallies, reveals that land between a tally's load and its      *)
(* commit, and flags flushed only when they differ leave no contradiction  *)
(* as long as tallies do not overlap: whoever is marked rewarded voted for *)
(* the final decision, whoever is marked slashed voted against it, and     *)
(* nobody is marked both.                                                  *)
VerdictMatchesDecision ==
  ~overlap => \A v \in Cast :
    /\ votes[v].flags # {} => votes[v].revealed # "none"
    /\ "rewarded" \in votes[v].flags =>
         votes[v].revealed = final_decision /\ "slashed" \notin votes[v].flags
    /\ "slashed" \in votes[v].flags => votes[v].revealed # final_decision

Rewarded == {v \in Cast : "rewarded" \in votes[v].flags}
Slashed  == {v \in Cast : "slashed" \in votes[v].flags}

(* ... and the decision that stands had two thirds of all the votes any    *)
(* tally has judged, and at least one.                                     *)
SupermajorityDecides ==
  ~overlap /\ final_decision # "none" =>
    /\ Rewarded # {}
    /\ 3 * Cardinality(Rewarded) >= 2 * Cardinality(Rewarded \cup Slashed)

-----------------------------------------------------------------------------
(* What a request holds between two of its statements, as an invariant.    *)

(* An opening that passed the check fits the vote it opens; the rows of a  *)
(* tally are revealed votes and decide; a session seen RESOLVED stays so.  *)
Holding(t) ==
  /\ pc[t] \in {"double", "insert"} =>
       loc[t].auditor \in Auditors /\ loc[t].hash \in Openings
  /\ pc[t] \in {"open", "reveal"} =>
       /\ loc[t].vote \in Cast /\ loc[t].opening \in Openings
       /\ loc[t].hash = votes[loc[t].vote].hash
  /\ pc[t] = "reveal" => loc[t].opening = loc[t].hash
  /\ pc[t] \in {"tally", "store"} =>
       /\ DOMAIN loc[t].rows \subseteq Revealed /\ DOMAIN loc[t].rows # {}
       /\ loc[t].rows \in [DOMAIN loc[t].rows -> Vote]
       /\ \A v \in DOMAIN loc[t].rows :
            loc[t].rows[v].revealed = votes[v].revealed
       /\ Decision(loc[t].rows) \in Options
  /\ pc[t] = "store" =>
       /\ loc[t].status = "RESOLVED" <=> loc[t].final # "none"
       /\ loc[t].status = "RESOLVED" => status = "RESOLVED"

(* A revealed vote is the one that was committed to.                       *)
RevealsFit ==
  \A v \in Revealed : votes[v].revealed = votes[v].hash[1]

(* A tally that runs alone holds every vote that was ever judged, with the *)
(* flags it still has, and the session as it still is.                     *)
AloneIsCurrent ==
  ~overlap => \A t \in Tallying :
    /\ Tallying = {t}
    /\ Rewarded \cup Slashed \subseteq DOMAIN loc[t].rows
    /\ \A v \in DOMAIN loc[t].rows :
         loc[t].rows[v].flags = votes[v].flags
    /\ pc[t] = "store" =>
         loc[t].status = status /\ loc[t].final = final_decision

IInv ==
  /\ TypeOK /\ DOMAIN loc = Tasks
  /\ \A t \in Tasks : Holding(t)
  /\ RevealsFit /\ AloneIsCurrent
  /\ VerdictMatchesDecision /\ SupermajorityDecides

=============================================================================
