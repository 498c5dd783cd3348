----------------------------- MODULE Compliance -----------------------------
(***************************************************************************)
(* The compliance engine: KYC records and their approval (router.py and    *)
(* the gRPC servicer), the gate every transfer passes (service.py with     *)
(* kyc.py, sanctions.py, aml.py, rules_mica.py), suspicious activity       *)
(* reports (sar_reporter.py), the weekly screening (tasks.py) and the      *)
(* signed manifest the lists and indicators come from                      *)
(* (fixtures_loader.py), all under core/features/compliance.               *)
(*                                                                         *)
(* A request runs between two awaits without interruption, and each of its *)
(* steps ends in one database round trip, which may fail.  Scores are in   *)
(* hundredths.  Operators replace the manifest and its signature on disk   *)
(* at any time, one after the other.  The server keeps what it read in     *)
(* memory and may be restarted; the weekly screening runs in a worker      *)
(* process with a memory of its own.                                       *)
(***************************************************************************)
EXTENDS Integers, Sequences, FiniteSetsExt

CONSTANTS
  Users, Requests, Kinds,
  Manifests,   \* versions of the fixture file
  SqlSchema,   \* the tables come from db/sql and not from the ORM's models
  Amounts,     \* bonus of a transfer's amount to its score: 0, 5 or 10
  Levels,      \* KYC levels officers grant
  None

AllKinds == {"submit", "approve", "check", "screening", "periodic"}
(* A version has a modification time of its own.                           *)
ManifestType == [mtime : Nat, listed : SUBSET Users, score : [Users -> 0..100]]

ASSUME ComplianceAssumption ==
  /\ Kinds \subseteq AllKinds
  /\ Manifests \subseteq ManifestType /\ None \notin ManifestType
  /\ \A m, n \in Manifests : m.mtime = n.mtime => m = n
  /\ SqlSchema \in BOOLEAN
  /\ Amounts \subseteq {0, 5, 10} /\ Levels \subseteq 1..5

REQUIRED_LEVEL == 3
MAX_AML_SCORE == 60
SAR_THRESHOLD == 75
RecordAbove == 40
ReasonColumn == 20   \* reason_code is String(20)

VARIABLES
  recs,     \* per user: compliance_records, the newest last
  sars,     \* users with a SAR draft
  file,     \* the fixture file: [data, trusted], or None
  loaded,   \* _cached_data and _cached_mtime: [data, mtime]
  seen,     \* history: the newest trusted manifest this process has found
  req,      \* per request: [kind, u, amount, pc, idx, score, then]
  log,      \* per request: audit_logs rows it wrote
  granted   \* history, per user: the highest level an officer granted

fixtures == <<file, loaded, seen>>
compVars == <<recs, sars, fixtures, req, log, granted>>

Done == {"passed", "blocked", "ok", "error"}
Record(status, level, risk, live) ==
  [status |-> status, level |-> level, risk |-> risk, live |-> live]
Idle == [kind |-> None, u |-> None, amount |-> 0, pc |-> "idle", idx |-> 0,
         score |-> 0, then |-> None]

Files == [data : Manifests, trusted : BOOLEAN]
NothingLoaded == [data |-> None, mtime |-> 0]

CompInit ==
  /\ recs = [u \in Users |-> <<>>] /\ sars = {}
  /\ file = None /\ loaded = NothingLoaded /\ seen = None
  /\ req = [r \in Requests |-> Idle] /\ log = [r \in Requests |-> 0]
  /\ granted = [u \in Users |-> 0]

(* Of an answered check or screening the answer is remembered.             *)
Goto(r, pc) ==
  req' = [req EXCEPT ![r] =
            IF pc \notin Done THEN [@ EXCEPT !.pc = pc]
            ELSE IF req[r].kind \in {"submit", "approve"} THEN Idle
            ELSE [Idle EXCEPT !.pc = pc, !.u = req[r].u, !.score = req[r].score]]
Newest(u) == recs[u][Len(recs[u])]

-----------------------------------------------------------------------------
(* A record passes its expires_at.                                         *)
ExpireRecord(u, i) ==
  /\ recs[u][i].live
  /\ recs' = [recs EXCEPT ![u][i].live = FALSE]
  /\ UNCHANGED <<sars, fixtures, req, log, granted>>

(* An operator writes a version, signs it, or takes either away.           *)
EditFile(f) ==
  /\ file' = f
  /\ UNCHANGED <<recs, sars, loaded, seen, req, log, granted>>

(* The server is restarted: its requests and its memory are lost.          *)
Restart ==
  /\ loaded' = NothingLoaded /\ seen' = None
  /\ req' = [r \in Requests |-> IF req[r].kind = "periodic" THEN req[r] ELSE Idle]
  /\ UNCHANGED <<recs, sars, file, log, granted>>

(* _read_fixtures finds f, None for a missing or unreadable file: a file   *)
(* of the modification time in memory is not read, and one whose signature *)
(* or JSON is not in order leaves memory as it was.                        *)
Trusted(f) == f # None /\ f.trusted
Fresh(f) == f # None /\ loaded.data # None /\ loaded.mtime = f.data.mtime

LoadMutant(f) ==
  IF f = None \/ Fresh(f) THEN loaded
  ELSE [data |-> IF Trusted(f) THEN f.data ELSE loaded.data, mtime |-> f.data.mtime]

Load(f) ==
  IF Trusted(f) /\ ~Fresh(f) THEN [data |-> f.data, mtime |-> f.data.mtime] ELSE loaded

Listed(u, data) == data # None /\ u \in data.listed
(* Nobody known: indicators of 0.05 each.                                  *)
BaseScore(u, data) == IF data = None THEN 5 ELSE data.score[u]
AmlScore(u, amount, data) == Min({100, BaseScore(u, data) + amount})
Category(score) ==
  CASE score < 30 -> "FAIBLE"
    [] score \in 30..(MAX_AML_SCORE - 1) -> "MOYEN"
    [] score \in MAX_AML_SCORE..SAR_THRESHOLD -> "ELEVE"
    [] OTHER -> "CRITIQUE"

-----------------------------------------------------------------------------
Begin(r, kind, u, amount) ==
  /\ req[r].pc \in Done \cup {"idle"}
  /\ log' = [log EXCEPT ![r] = 0]
  /\ req' = [req EXCEPT ![r] =
       [Idle EXCEPT !.kind = kind, !.u = u, !.amount = amount, !.pc =
         CASE kind \in {"submit", "approve"} -> "select"
           [] kind = "check" -> "kyc"
           [] OTHER -> "score"]]
  /\ UNCHANGED <<recs, sars, fixtures, granted>>

(* submit_kyc, approve_kyc: scalar_one_or_none raises on a second record;  *)
(* approval needs one.                                                     *)
SelectRecord(r) ==
  /\ req[r].pc = "select"
  /\ LET n == Len(recs[req[r].u])
     IN  IF n > 1 \/ (n = 0 /\ req[r].kind = "approve")
         THEN Goto(r, "error")
         ELSE req' = [req EXCEPT ![r].pc = "commit", ![r].idx = n]
  /\ UNCHANGED <<recs, sars, fixtures, log, granted>>

SubmitAtLevel(r, level) ==
  LET u == req[r].u
      i == req[r].idx
  IN /\ req[r].pc = "commit" /\ req[r].kind = "submit"
     /\ recs' = [recs EXCEPT ![u] =
          IF i = 0 THEN Append(@, Record("EN_COURS", level, "FAIBLE", TRUE))
          ELSE [@ EXCEPT ![i].status = "EN_COURS"]]
     /\ Goto(r, "ok")
     /\ UNCHANGED <<sars, fixtures, log, granted>>

CommitSubmitMutant(r) == SubmitAtLevel(r, REQUIRED_LEVEL)

(* The insert or the update of submit_kyc, whatever was inserted since.    *)
CommitSubmit(r) == SubmitAtLevel(r, 1)

(* The REST handler writes APPROUVE; the gRPC servicer writes VERIFIE,     *)
(* which is no kyc_status_enum of db/sql.                                  *)
CommitApprove(r, level, status) ==
  LET u == req[r].u
  IN /\ req[r].pc = "commit" /\ req[r].kind = "approve"
     /\ IF SqlSchema /\ status = "VERIFIE"
        THEN Goto(r, "error") /\ UNCHANGED <<recs, granted>>
        ELSE /\ recs' = [recs EXCEPT ![u][req[r].idx] =
                           Record(status, level, @.risk, TRUE)]
             /\ granted' = [granted EXCEPT ![u] = Max({@, level})]
             /\ Goto(r, "ok")
     /\ UNCHANGED <<sars, fixtures, log>>

-----------------------------------------------------------------------------
(* KYCVerifier.verify of the newest record; the status plays no part.      *)
KycOk(u) == Newest(u).live /\ Newest(u).level >= REQUIRED_LEVEL

KycRefusal(r, pc) ==
  /\ req[r].pc = "kyc"
  /\ LET u == req[r].u
     IN  req' = [req EXCEPT
           ![r].then = IF recs[u] = <<>> THEN "error" ELSE "blocked",
           ![r].pc = IF recs[u] # <<>> /\ KycOk(u) THEN "screen" ELSE pc]
  /\ UNCHANGED <<recs, sars, fixtures, log, granted>>

VerifyKycMutant(r) == KycRefusal(r, "blocked")

(* full_check: a refusal is logged before it is returned, a missing record *)
(* before it is raised.                                                    *)
VerifyKyc(r) == KycRefusal(r, "block")

AfterScore(r, score) ==
  IF req[r].kind # "check" THEN IF score > SAR_THRESHOLD THEN "sar" ELSE "ok"
  ELSE IF score <= MAX_AML_SCORE THEN "mica"
  ELSE IF score > SAR_THRESHOLD THEN "sar" ELSE "block"

(* SanctionsScreener.screen, for the gate only.                            *)
ListedStops(r, data) ==
  /\ req[r].pc = "screen" /\ Listed(req[r].u, data)
  /\ Goto(r, "block")

(* AMLScorer.score up to its select: from RecordAbove on the newest record *)
(* is rated, if there is one.                                              *)
Score(r, data) ==
  LET u == req[r].u
      score == AmlScore(u, req[r].amount, data)
  IN /\ req[r].pc = "score" \/ (req[r].pc = "screen" /\ ~Listed(u, data))
     /\ req' = [req EXCEPT
          ![r].score = score, ![r].idx = Len(recs[u]),
          ![r].pc = IF score > RecordAbove /\ recs[u] # <<>> THEN "rate"
                    ELSE AfterScore(r, score)]

Screen(r, f) ==
  /\ req[r].kind # "periodic"
  /\ ListedStops(r, Load(f).data) \/ Score(r, Load(f).data)
  /\ loaded' = Load(f) /\ seen' = IF Trusted(f) THEN f.data ELSE seen
  /\ UNCHANGED <<recs, sars, file, log, granted>>

(* The worker scores with whatever it has in its own memory.               *)
ScreenInWorker(r, data) ==
  /\ req[r].kind = "periodic" /\ Score(r, data)
  /\ UNCHANGED <<recs, sars, fixtures, log, granted>>

(* risk_category_enum of db/sql has MODERE for the ORM's MOYEN.            *)
RateRecord(r) ==
  LET category == Category(req[r].score)
  IN /\ req[r].pc = "rate"
     /\ IF SqlSchema /\ category = "MOYEN" THEN Goto(r, "error") /\ UNCHANGED recs
        ELSE /\ recs' = [recs EXCEPT ![req[r].u][req[r].idx].risk = category]
             /\ Goto(r, AfterScore(r, req[r].score))
     /\ UNCHANGED <<sars, fixtures, log, granted>>

(* AML_CRITICAL_THRESHOLD, or EXCEED_THRESHOLD from the weekly screening.  *)
ReasonLength(r) == IF req[r].kind = "periodic" THEN 16 ELSE 22

(* SARReporter.generate: the database refuses a reason longer than its     *)
(* column.  The sequence number and the notice on Redis may be missing.    *)
GenerateSar(r) ==
  /\ req[r].pc = "sar"
  /\ IF ReasonLength(r) > ReasonColumn
     THEN Goto(r, "error") /\ UNCHANGED sars
     ELSE /\ sars' = sars \cup {req[r].u}
          /\ Goto(r, IF req[r].kind = "check" THEN "block" ELSE "ok")
  /\ UNCHANGED <<recs, fixtures, log, granted>>

LogBlock(r) ==
  /\ req[r].pc = "block"
  /\ log' = [log EXCEPT ![r] = @ + 1]
  /\ Goto(r, req[r].then)
  /\ UNCHANGED <<recs, sars, fixtures, granted>>

(* MiCAChecker.check writes its event; no violation it finds is blocking.  *)
CheckMica(r) ==
  /\ req[r].pc = "mica"
  /\ Goto(r, "pass")
  /\ UNCHANGED <<recs, sars, fixtures, log, granted>>

LogPass(r) ==
  /\ req[r].pc = "pass"
  /\ log' = [log EXCEPT ![r] = @ + 1]
  /\ Goto(r, "passed")
  /\ UNCHANGED <<recs, sars, fixtures, granted>>

(* The round trip of a step fails: the exception ends the request.         *)
DbFails(r) ==
  /\ req[r].pc \notin Done \cup {"idle"}
  /\ req' = [req EXCEPT ![r] = Idle]
  /\ UNCHANGED <<recs, sars, fixtures, log, granted>>

RequestStep(r) ==
  \/ SelectRecord(r) \/ CommitSubmit(r) \/ VerifyKyc(r)
  \/ RateRecord(r) \/ GenerateSar(r) \/ LogBlock(r) \/ CheckMica(r)
  \/ LogPass(r) \/ DbFails(r)
  \/ \E f \in {file, None} : Screen(r, f)
  \/ \E data \in Manifests \cup {None} : ScreenInWorker(r, data)
  \/ \E level \in Levels, status \in {"APPROUVE", "VERIFIE"} :
       CommitApprove(r, level, status)

Serving ==
  \/ \E f \in Files \cup {None} : EditFile(f)
  \/ \E u \in Users : \E i \in DOMAIN recs[u] : ExpireRecord(u, i)
  \/ \E r \in Requests :
       \/ RequestStep(r)
       \/ \E kind \in Kinds, u \in Users :
            \E amount \in IF kind \in {"check", "screening"} THEN Amounts ELSE {0} :
              Begin(r, kind, u, amount)

CompNext == Serving \/ Restart

CompSpec == CompInit /\ [][CompNext]_compVars

-----------------------------------------------------------------------------
(* Type correctness; a record to be rated exists.                          *)
CompTypeOK ==
  /\ \A u \in Users : \A i \in DOMAIN recs[u] :
       /\ recs[u][i].status \in {"EN_COURS", "APPROUVE", "VERIFIE"}
       /\ recs[u][i].level \in {1} \cup Levels
       /\ recs[u][i].risk \in {"FAIBLE", "MOYEN", "ELEVE", "CRITIQUE"}
  /\ sars \subseteq Users
  /\ file \in Files \cup {None} /\ seen \in Manifests \cup {None}
  /\ loaded \in [data : Manifests \cup {None}, mtime : Nat]
  /\ log \in [Requests -> 0..1]
  /\ \A r \in Requests : req[r].pc = "rate" => req[r].idx \in DOMAIN recs[req[r].u]

(* However submissions, approvals, expiries and double inserts interleave, *)
(* a transfer passes the gate only when an officer once granted its        *)
(* recipient the level the gate requires.                                  *)
GateNeedsApproval ==
  \A r \in Requests : req[r].pc = "passed" => granted[req[r].u] >= REQUIRED_LEVEL

(* A decision of the gate that reaches the caller left exactly one row in  *)
(* audit_logs, on every path through the checks.                           *)
DecisionsLogged ==
  \A r \in Requests : req[r].pc \in {"passed", "blocked"} => log[r] = 1

(* The cache by modification time hides no name, whatever becomes of the   *)
(* file and of its signature and in whichever order: a check that passes   *)
(* the lists while its participant is on the newest manifest that this     *)
(* process has found signed and readable ends blocked.  (After a restart   *)
(* nothing has been found, and an unsigned file then lists nobody.)        *)
ListedAreStopped ==
  [][\A r \in Requests :
       /\ req[r].pc = "screen" /\ req'[r].pc \notin {"screen", "idle"}
       /\ Listed(req[r].u, seen')
       => req'[r].pc = "block"]_compVars

(* A full_check or a screening that computes a score above SAR_THRESHOLD,  *)
(* and whose database answers, files a report (service.py: "Orchestrate    *)
(* KYC, sanctions, AML, MiCA, SAR for a single request").                  *)
CriticalIsReported ==
  \A r \in Requests :
    /\ req[r].pc \in {"error", "blocked", "ok"}
    /\ req[r].score > SAR_THRESHOLD
    => req[r].u \in sars
=============================================================================
