--------------------------- MODULE CircuitBreaker ----------------------------
(***************************************************************************)
(* core/core/circuit_breaker.py: the breaker in front of Neo4j, Vault and  *)
(* Groq, shared by concurrent coroutines.  The asyncio lock is never held  *)
(* across an await of anything else, so each locked block is one step:     *)
(* entering, recording a success, recording a failure.  The call itself    *)
(* runs outside the lock, so calls that entered in one state may end in    *)
(* another.                                                                *)
(*                                                                         *)
(* Time is relative: cooling is what remains of cooldown_s since           *)
(* _opened_at.  The code compares _failure_count with the threshold only,  *)
(* so the count saturates there.                                           *)
(***************************************************************************)
EXTENDS Integers, FiniteSets

CONSTANTS
  Tasks,      \* coroutines that use the breaker
  Threshold,  \* threshold
  Cooldown    \* cooldown_s

ASSUME BreakerAssumption ==
  Threshold \in Nat \ {0} /\ Cooldown \in Nat

VARIABLES
  state,          \* _state
  failure_count,  \* _failure_count
  cooling,        \* cooldown_s - (now - _opened_at), not below 0
  pc,             \* "out", or "in" while the outbound call runs
  up              \* whether the dependency answers (environment)

vars == <<state, failure_count, cooling, pc, up>>

States == {"CLOSED", "HALF_OPEN", "OPEN"}

Init ==
  /\ state = "CLOSED"
  /\ failure_count = 0
  /\ cooling = 0
  /\ pc = [t \in Tasks |-> "out"]
  /\ up = FALSE

MustRejectMutant == state = "HALF_OPEN" \/ (state = "OPEN" /\ cooling > 0)

MustReject == state = "OPEN" /\ cooling > 0

(* The first locked block of call lets the call through; in HALF_OPEN any  *)
(* number of calls, although the module comment speaks of one probe.       *)
Enter(t) ==
  /\ pc[t] = "out"
  /\ ~MustReject
  /\ state' = IF state = "OPEN" THEN "HALF_OPEN" ELSE state
  /\ pc' = [pc EXCEPT ![t] = "in"]
  /\ UNCHANGED <<failure_count, cooling, up>>

Leave(t) ==
  /\ pc[t] = "in"
  /\ pc' = [pc EXCEPT ![t] = "out"]

(* fn returned: reset the count and close whatever the state.              *)
Succeed(t) ==
  /\ Leave(t)
  /\ failure_count' = 0
  /\ state' = "CLOSED"
  /\ UNCHANGED <<cooling, up>>

CountUp == IF failure_count < Threshold THEN failure_count + 1
           ELSE failure_count

(* fn raised or timed out: _record_failure.                                *)
RecordFailure(t) ==
  /\ ~up
  /\ Leave(t)
  /\ failure_count' = CountUp
  /\ IF state = "HALF_OPEN" \/ CountUp >= Threshold
     THEN state' = "OPEN" /\ cooling' = Cooldown
     ELSE UNCHANGED <<state, cooling>>
  /\ UNCHANGED up

(* CancelledError (the client went away) is not an Exception: nothing is   *)
(* recorded, and a probe that is cancelled leaves the breaker HALF_OPEN.   *)
Cancel(t) ==
  /\ Leave(t)
  /\ UNCHANGED <<state, failure_count, cooling, up>>

Tick ==
  /\ cooling > 0
  /\ cooling' = cooling - 1
  /\ UNCHANGED <<state, failure_count, pc, up>>

(* The dependency recovers for good (environment).                         *)
Recover ==
  /\ ~up
  /\ up' = TRUE
  /\ UNCHANGED <<state, failure_count, cooling, pc>>

Next ==
  \/ \E t \in Tasks : Enter(t) \/ Succeed(t) \/ RecordFailure(t) \/ Cancel(t)
  \/ Tick
  \/ Recover

Spec == Init /\ [][Next]_vars

-----------------------------------------------------------------------------
(* Type correctness; a cooldown never lasts longer than cooldown_s.        *)
TypeOK ==
  /\ state \in States
  /\ failure_count \in 0..Threshold
  /\ cooling \in 0..Cooldown
  /\ pc \in [Tasks -> {"out", "in"}]
  /\ up \in BOOLEAN

(* However late successes and failures of overlapping calls interleave, a  *)
(* CLOSED breaker is below its threshold, and one that is not CLOSED has   *)
(* recorded a failure since the last success.                              *)
CountMatchesState ==
  /\ state = "CLOSED" => failure_count < Threshold
  /\ state # "CLOSED" => failure_count > 0
=============================================================================
