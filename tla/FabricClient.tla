---------------------------- MODULE FabricClient -----------------------------
(***************************************************************************)
(* FabricClient.submit_transaction (core/fabric_client/network.py) under   *)
(* its fabric_retry decorator (core/fabric_client/retry.py), on top of the *)
(* ledger of FabricLedger.                                                 *)
(*                                                                         *)
(* Each attempt of a call starts one `peer` subprocess, which proposes one *)
(* transaction with a fresh TxID.  The decorator's wait_for and            *)
(* _exec_cli's inner wait_for have the same timeout; the outer one was     *)
(* started first, so it is the one that fires.  It cancels the inner wait  *)
(* (the process.kill of the inner handler is not reached), so the process  *)
(* of an attempt that timed out goes on by itself and its transaction may  *)
(* still commit while the next attempt runs.  The failure counter and the  *)
(* circuit flag are shared by all concurrent calls.                        *)
(***************************************************************************)
EXTENDS FabricLedger

CONSTANTS
  Calls,         \* concurrent invocations of submit_transaction
  Requests,      \* the chaincode calls they may make
  MaxAttempts,   \* fabric_retry_max_attempts
  CbThreshold,   \* fabric_retry_circuit_breaker_threshold
  CbTimeout,     \* fabric_retry_circuit_breaker_timeout
  MaxTime,       \* bound on the clock
  NoTx           \* no subprocess started yet

ASSUME RetryAssumption ==
  /\ MaxAttempts \in Nat \ {0} /\ CbThreshold \in Nat \ {0}
  /\ CbTimeout \in Nat /\ MaxTime \in Nat
  /\ Requests \subseteq Call /\ NoTx \notin TxIds \cup Calls

VARIABLES
  failure_count, first_failure_time, circuit_open, circuit_open_time,
  now,      \* time.time()
  pc,       \* where each call is
  req,      \* its chaincode function and arguments
  attempt,  \* its attempt number
  cur,      \* TxID of its running attempt
  spawned,  \* TxID -> the call whose attempt proposes it, or NoTx
  err       \* the exception it raised, "none" otherwise

cbvars == <<failure_count, first_failure_time, circuit_open,
            circuit_open_time>>
callvars == <<pc, req, attempt, cur, spawned, err>>
vars == <<lvars, cbvars, now, callvars>>

PcSet == {"idle", "ready", "running", "backoff", "returned", "raised"}
Errors == {"none", "CircuitBreakerOpenError", "RetriesExhausted",
           "AssetNotFoundException", "AssetFrozenError",
           "FabricEndorsementError", "UnreadableResponse"}

Init ==
  /\ LInit
  /\ failure_count = 0 /\ first_failure_time = 0
  /\ circuit_open = FALSE /\ circuit_open_time = 0
  /\ now = 0
  /\ pc = [k \in Calls |-> "idle"]
  /\ req \in [Calls -> Requests]
  /\ attempt = [k \in Calls |-> 1]
  /\ cur = [k \in Calls |-> NoTx]
  /\ spawned = [tx \in TxIds |-> NoTx]
  /\ err = [k \in Calls |-> "none"]

-----------------------------------------------------------------------------
Raise(k, e) ==
  /\ pc' = [pc EXCEPT ![k] = "raised"]
  /\ err' = [err EXCEPT ![k] = e]

EnterClosedMutant(k) ==
  /\ pc[k] = "idle"
  /\ circuit_open => now - circuit_open_time >= CbTimeout
  /\ circuit_open' = FALSE
  /\ pc' = [pc EXCEPT ![k] = "ready"]
  /\ UNCHANGED <<lvars, failure_count, first_failure_time, circuit_open_time,
                 now, req, attempt, cur, spawned, err>>

(* The check at the top of the wrapper.                                    *)
EnterClosed(k) ==
  /\ pc[k] = "idle"
  /\ circuit_open => now - circuit_open_time >= CbTimeout
  /\ circuit_open' = FALSE
  /\ failure_count' = IF circuit_open THEN 0 ELSE failure_count
  /\ pc' = [pc EXCEPT ![k] = "ready"]
  /\ UNCHANGED <<lvars, first_failure_time, circuit_open_time, now, req,
                 attempt, cur, spawned, err>>

EnterOpen(k) ==
  /\ pc[k] = "idle"
  /\ circuit_open /\ now - circuit_open_time < CbTimeout
  /\ Raise(k, "CircuitBreakerOpenError")
  /\ UNCHANGED <<lvars, cbvars, now, req, attempt, cur, spawned>>

(* The transaction identifier of the next process: any unused one, since   *)
(* identifiers are interchangeable.                                        *)
NextTx == CHOOSE tx \in TxIds : spawned[tx] = NoTx

(* create_subprocess_exec: the attempt's peer process, with a new TxID.    *)
Spawn(k) ==
  /\ pc[k] = "ready"
  /\ \E tx \in TxIds : spawned[tx] = NoTx
  /\ spawned' = [spawned EXCEPT ![NextTx] = k]
  /\ cur' = [cur EXCEPT ![k] = NextTx]
  /\ pc' = [pc EXCEPT ![k] = "running"]
  /\ UNCHANGED <<lvars, cbvars, now, req, attempt, err>>

(* The process of this transaction has exited with an error; it proposes   *)
(* nothing more.                                                           *)
Exited(tx) ==
  cur[spawned[tx]] = tx /\ err[spawned[tx]] = "FabricEndorsementError"

(* The peer processes and the network, orphaned processes included.  What  *)
(* was endorsed may be ordered after its process has gone.                 *)
Peer(tx) ==
  /\ spawned[tx] # NoTx
  /\ \/ ~Exited(tx) /\ Endorse(tx, req[spawned[tx]])
     \/ ~Exited(tx) /\ Refuse(tx, req[spawned[tx]])
     \/ Commit(tx)
     \/ Invalidate(tx)
  /\ UNCHANGED <<cbvars, now, callvars>>

ReturnMutant(k) ==
  /\ pc[k] = "running"
  /\ txn[cur[k]].st \in {"endorsed", "valid"}
  /\ pc' = [pc EXCEPT ![k] = "returned"]
  /\ failure_count' = 0
  /\ circuit_open' = FALSE
  /\ UNCHANGED <<lvars, first_failure_time, circuit_open_time, now, req,
                 attempt, cur, spawned, err>>

(* The process exits with code 0 after the commit event; stdout holds a    *)
(* payload, or nothing that looks like one (both return).                  *)
Return(k) ==
  /\ pc[k] = "running"
  /\ txn[cur[k]].st = "valid"
  /\ pc' = [pc EXCEPT ![k] = "returned"]
  /\ failure_count' = 0
  /\ circuit_open' = FALSE
  /\ UNCHANGED <<lvars, first_failure_time, circuit_open_time, now, req,
                 attempt, cur, spawned, err>>

(* stdout has a line that looks like a payload and is not JSON.            *)
ReturnUnreadable(k) ==
  /\ pc[k] = "running"
  /\ txn[cur[k]].st = "valid"
  /\ Raise(k, "UnreadableResponse")
  /\ UNCHANGED <<lvars, cbvars, now, req, attempt, cur, spawned>>

(* How _exec_cli reads the chaincode's message from stderr: the text of    *)
(* notFound holds "introuvable sur le ledger"; those of alreadyFrozen      *)
(* ("déjà gelé") and notFrozen ("n'est pas gelé") both hold "gelé"; that   *)
(* of notActive holds the status "GELE" in capitals.                       *)
Classify(answer) ==
  CASE answer = "notFound" -> "AssetNotFoundException"
    [] answer \in {"alreadyFrozen", "notFrozen"} -> "AssetFrozenError"
    [] OTHER -> "FabricEndorsementError"

(* The process exits with another code: with the chaincode's text if the   *)
(* proposal was refused, and otherwise with one of its own - no peer       *)
(* reached, an error from the orderer, an invalid transaction, or no event *)
(* in time for --waitForEvent, whatever became of the transaction.  These  *)
(* exceptions are not caught by the decorator and leave its state alone.   *)
Fail(k) ==
  /\ pc[k] = "running"
  /\ Raise(k, IF txn[cur[k]].st = "refused" THEN Classify(txn[cur[k]].answer)
              ELSE "FabricEndorsementError")
  /\ UNCHANGED <<lvars, cbvars, now, req, attempt, cur, spawned>>

NewBurstMutant == failure_count = 0

(* The failure starts a new count: the first one, or the first after the   *)
(* window of the previous ones has passed.                                 *)
NewBurst ==
  failure_count = 0 \/ (now - first_failure_time > CbTimeout /\ ~circuit_open)

(* failure_count and first_failure_time after one more retryable failure.  *)
CountFailure ==
  /\ failure_count' = IF NewBurst THEN 1 ELSE failure_count + 1
  /\ first_failure_time' = IF NewBurst THEN now ELSE first_failure_time

(* TimeoutError: the attempt is abandoned, its process is not.             *)
TimeoutTrips(k) ==
  /\ pc[k] = "running"
  /\ CountFailure
  /\ failure_count' >= CbThreshold
  /\ circuit_open' = TRUE
  /\ circuit_open_time' = now
  /\ Raise(k, "CircuitBreakerOpenError")
  /\ UNCHANGED <<lvars, now, req, attempt, cur, spawned>>

TimeoutGivesUp(k) ==
  /\ pc[k] = "running"
  /\ CountFailure
  /\ failure_count' < CbThreshold
  /\ attempt[k] = MaxAttempts
  /\ Raise(k, "RetriesExhausted")
  /\ UNCHANGED <<lvars, circuit_open, circuit_open_time, now, req, attempt,
                 cur, spawned>>

TimeoutRetriesMutant(k) ==
  /\ pc[k] = "running"
  /\ CountFailure
  /\ failure_count' < CbThreshold
  /\ attempt[k] <= MaxAttempts
  /\ pc' = [pc EXCEPT ![k] = "backoff"]
  /\ UNCHANGED <<lvars, circuit_open, circuit_open_time, now, req, attempt,
                 cur, spawned, err>>

TimeoutRetries(k) ==
  /\ pc[k] = "running"
  /\ CountFailure
  /\ failure_count' < CbThreshold
  /\ attempt[k] < MaxAttempts
  /\ pc' = [pc EXCEPT ![k] = "backoff"]
  /\ UNCHANGED <<lvars, circuit_open, circuit_open_time, now, req, attempt,
                 cur, spawned, err>>

WakeUpMutant(k) ==
  /\ pc[k] = "backoff"
  /\ pc' = [pc EXCEPT ![k] = "backoff"]
  /\ UNCHANGED <<lvars, cbvars, now, req, attempt, cur, spawned, err>>

(* asyncio.sleep(wait_delay) is over.                                      *)
WakeUp(k) ==
  /\ pc[k] = "backoff"
  /\ pc' = [pc EXCEPT ![k] = "ready"]
  /\ attempt' = [attempt EXCEPT ![k] = @ + 1]
  /\ UNCHANGED <<lvars, cbvars, now, req, cur, spawned, err>>

Tick ==
  /\ now < MaxTime
  /\ now' = now + 1
  /\ UNCHANGED <<lvars, cbvars, callvars>>

Step(k) ==
  \/ EnterClosed(k) \/ EnterOpen(k)
  \/ Spawn(k)
  \/ Return(k) \/ ReturnUnreadable(k) \/ Fail(k)
  \/ TimeoutTrips(k) \/ TimeoutGivesUp(k) \/ TimeoutRetries(k)
  \/ WakeUp(k)

Next ==
  \/ \E k \in Calls : Step(k)
  \/ \E tx \in TxIds : Peer(tx)
  \/ Tick

Spec == Init /\ [][Next]_vars

(* The event loop runs every ready coroutine and fires every timer; peers  *)
(* and the orderer owe nothing.                                            *)
FairSpec == Spec /\ \A k \in Calls : WF_vars(Step(k))

-----------------------------------------------------------------------------
(* Type correctness; attempt stays within MaxAttempts and no recorded time *)
(* is in the future.                                                       *)
TypeOK ==
  /\ LTypeOK
  /\ failure_count \in Nat /\ first_failure_time \in 0..now
  /\ circuit_open \in BOOLEAN /\ circuit_open_time \in 0..now
  /\ now \in 0..MaxTime
  /\ pc \in [Calls -> PcSet] /\ req \in [Calls -> Requests]
  /\ attempt \in [Calls -> 1..MaxAttempts]
  /\ cur \in [Calls -> TxIds \cup {NoTx}]
  /\ spawned \in [TxIds -> Calls \cup {NoTx}]
  /\ err \in [Calls -> Errors]

TxsOf(k) == {tx \in TxIds : spawned[tx] = k}
Committed(k) == {tx \in TxsOf(k) : txn[tx].st = "valid"}

Verdicts == {"AssetNotFoundException", "AssetFrozenError"}

(***************************************************************************)
(* What an answer says of the ledger.  A call that returned has its last   *)
(* attempt committed.  A verdict read from the chaincode's text says that  *)
(* the last attempt has written nothing and never will; of the whole call  *)
(* it says so only if no attempt was abandoned before it, since an earlier *)
(* one may be the very transaction that froze the asset.  Nothing is said  *)
(* of FabricEndorsementError: the transaction may have committed, or may   *)
(* do so later.                                                            *)
(***************************************************************************)
AnswersAreTruthful ==
  \A k \in Calls :
    /\ pc[k] = "returned" => cur[k] \in Committed(k)
    /\ pc[k] = "raised" /\ err[k] \in Verdicts =>
         \A tx \in TxsOf(k) :
           tx = cur[k] \/ attempt[k] = 1 => txn[tx].st = "refused"

Opposite(fn) == IF fn = "FreezeAsset" THEN "UnfreezeAsset" ELSE "FreezeAsset"

Opposing(k) ==
  {tx \in TxIds : /\ txn[tx].st = "valid"
                  /\ txn[tx].call.fn = Opposite(req[k].fn)
                  /\ txn[tx].call.asset = req[k].asset}

(***************************************************************************)
(* Retries are harmless where the chaincode makes them so.  The orphaned   *)
(* transaction of a timed-out attempt and the retry that follows it cannot *)
(* both take effect for a tokenisation, and for a freeze or an unfreeze    *)
(* only if an opposite transaction took effect in between.  (A transfer    *)
(* has no such guard: it can be recorded once per attempt.)                *)
(***************************************************************************)
RetryCommitsOnce ==
  \A k \in Calls :
    /\ req[k].fn = "TokenizeAsset" => Cardinality(Committed(k)) <= 1
    /\ req[k].fn \in {"FreezeAsset", "UnfreezeAsset"} =>
         Cardinality(Committed(k)) <= 1 + Cardinality(Opposing(k))

(* The circuit is open exactly while the count is at the threshold: no     *)
(* interleaving of a late success, a late failure and an expiry leaves it  *)
(* closed on a saturated count, or open on a reset one.                    *)
CircuitMatchesCount == circuit_open <=> failure_count >= CbThreshold

(* The circuit closes only after its timeout or on a successful call, and  *)
(* opens only when CbThreshold failures fell within one timeout.           *)
CircuitTransitions ==
  [][/\ circuit_open /\ ~circuit_open' =>
          \/ now - circuit_open_time >= CbTimeout
          \/ \E k \in Calls : pc[k] = "running" /\ pc'[k] = "returned"
     /\ ~circuit_open /\ circuit_open' =>
          now - first_failure_time' <= CbTimeout]_vars

(* Every call that is made is answered: returned or raised.                *)
EveryCallAnswers ==
  \A k \in Calls : pc[k] = "ready" ~> pc[k] \in {"returned", "raised"}
=============================================================================
