----------------------------- MODULE AuditReport -----------------------------
(***************************************************************************)
(* The audit pipeline on a ledger that moves on: the generate_audit_report *)
(* task (core/features/audit/tasks.py) reads the provenance trail and then *)
(* the asset's state (trail.py), checks the trail (integrity_checker.py),  *)
(* compiles the report twice (report_generator.py), writes it to a file    *)
(* and announces it in network_events.  The auditor polls the task's       *)
(* result (router.py, the gRPC servicer).                                  *)
(*                                                                         *)
(* evaluate_transaction returns the records with their keys in snake case, *)
(* so that no field the task requires is missing.  A report is what it     *)
(* shows: the trail, the state, the verdict and who asked.                 *)
(***************************************************************************)
EXTENDS AssetContract

CONSTANTS
  Jobs,       \* report tasks
  Auditors,   \* users who ask for reports
  MaxSecond,  \* bound on the clock, in seconds
  NoFile      \* no file has that name

(* What a report shows; NoFile is none.                                    *)
Reports == [asset: Assets, by: Auditors, trail: Seq(ProvenanceRecord),
            state: FinancialAsset, valid: BOOLEAN]

ASSUME AuditAssumption == MaxSecond \in Nat /\ NoFile \notin Reports

VARIABLES
  job,       \* per task: [pc, asset, by, trail, state, path]
  files,     \* /tmp/rwa-reports: <<asset, second>> -> report or NoFile
  announced, \* AUDIT_REPORT_READY rows: [path, valid]
  second     \* the second the clock shows

auditVars == <<job, files, announced, second>>
allVars == <<vars, auditVars>>

Paths == Assets \X (0..MaxSecond)
Waiting == [pc |-> "none", asset |-> NoAsset, by |-> NoFile, trail |-> <<>>,
            state |-> NoAsset, path |-> NoFile]
Report(asset, by, trail, state, valid) ==
  [asset |-> asset, by |-> by, trail |-> trail, state |-> state, valid |-> valid]

AInit ==
  /\ Init
  /\ job = [j \in Jobs |-> Waiting]
  /\ files = [p \in Paths |-> NoFile]
  /\ announced = {} /\ second = 0

-----------------------------------------------------------------------------
allowed_actions == {"TOKENISE", "TRANSFERE", "GELE", "DEGELE"}

CheckAllowing(trail, actions) ==
  \A i \in DOMAIN trail :
    /\ i = 1 => trail[i].action = "TOKENISE"
    /\ trail[i].action = "GELE" => \E j \in 1..i : trail[j].action = "TOKENISE"
    /\ trail[i].action \in actions

CheckMutant(trail) == CheckAllowing(trail, allowed_actions \ {"DEGELE"})

(* IntegrityChecker.check: the verdict on the whole trail.                 *)
Check(trail) == CheckAllowing(trail, allowed_actions)

At(j, pc) == job[j].pc = pc
GotoJob(j, pc) == job' = [job EXCEPT ![j].pc = pc]
(* The result backend keeps the outcome and the path.                      *)
Ends(j, pc) ==
  job' = [job EXCEPT ![j] = [Waiting EXCEPT !.pc = pc, !.path = job[j].path]]

(* POST /audit/report/generate, GenerateReport: the task is queued.        *)
Request(j, a, by) ==
  /\ At(j, "none")
  /\ job' = [job EXCEPT ![j] = [Waiting EXCEPT !.pc = "queued", !.asset = a, !.by = by]]
  /\ UNCHANGED <<vars, files, announced, second>>

(* evaluate_transaction of get_provenance and of get_asset_state: the      *)
(* chaincode refuses to read an asset that does not exist.                 *)
ReadTrail(j, from, to) ==
  /\ At(j, from) /\ job[j].asset \in Issued
  /\ job' = [job EXCEPT ![j].trail = Trail(job[j].asset), ![j].pc = to]
  /\ UNCHANGED <<vars, files, announced, second>>

ReadState(j, from, to) ==
  /\ At(j, from) /\ job[j].asset \in Issued
  /\ job' = [job EXCEPT ![j].state = world[job[j].asset], ![j].pc = to]
  /\ UNCHANGED <<vars, files, announced, second>>

ReadLedgerMutant(j) == ReadState(j, "queued", "reading") \/ ReadTrail(j, "reading", "check")

(* The task reads the trail first, and the state a moment later.           *)
ReadLedger(j) == ReadTrail(j, "queued", "reading") \/ ReadState(j, "reading", "check")

(* ReportGenerator.generate compiles a draft, then the same report with    *)
(* the draft's fingerprint.                                                *)
Compile(j) ==
  /\ \/ At(j, "check") /\ GotoJob(j, "draft")
     \/ At(j, "draft") /\ GotoJob(j, "pdf")
  /\ UNCHANGED <<vars, files, announced, second>>

(* The name has the asset and the second: a report may replace another.    *)
WriteFile(j) ==
  LET path == <<job[j].asset, second>>
  IN /\ At(j, "pdf")
     /\ files' = [files EXCEPT ![path] =
          Report(job[j].asset, job[j].by, job[j].trail, job[j].state,
                 Check(job[j].trail))]
     /\ job' = [job EXCEPT ![j].pc = "written", ![j].path = path]
     /\ UNCHANGED <<vars, announced, second>>

Announce(j) ==
  /\ At(j, "written")
  /\ announced' = announced \cup {[path |-> job[j].path, valid |-> Check(job[j].trail)]}
  /\ Ends(j, "SUCCESS")
  /\ UNCHANGED <<vars, files, second>>

(* Fabric, pdflatex or the database fails: max_retries is set but nothing  *)
(* retries, and a file that was written stays.                             *)
Fails(j) ==
  /\ job[j].pc \in {"queued", "reading", "check", "draft", "pdf", "written"}
  /\ Ends(j, "FAILURE")
  /\ UNCHANGED <<vars, files, announced, second>>

Tick ==
  /\ second < MaxSecond /\ second' = second + 1
  /\ UNCHANGED <<vars, job, files, announced>>

ANext ==
  \/ Next /\ UNCHANGED auditVars
  \/ \E j \in Jobs :
       \/ \E a \in Assets, by \in Auditors : Request(j, a, by)
       \/ ReadLedger(j) \/ Compile(j)
       \/ WriteFile(j) \/ Announce(j) \/ Fails(j)
  \/ Tick

ASpec == AInit /\ [][ANext]_allVars

-----------------------------------------------------------------------------
IsPrefixOf(s, t) == Len(s) <= Len(t) /\ \A i \in 1..Len(s) : s[i] = t[i]

(***************************************************************************)
(* However the ledger moves between the task's two reads and whichever     *)
(* report replaces another, a file shows a trail that the state it shows   *)
(* extends, and that state is one the asset really had: its trail is part  *)
(* of the ledger's.                                                        *)
(***************************************************************************)
ReportsAreConsistent ==
  \A p \in Paths : files[p] # NoFile =>
    /\ IsPrefixOf(files[p].trail, files[p].state.provenance)
    /\ IsPrefixOf(files[p].state.provenance, Trail(files[p].asset))

(* No false alarm: the checker calls no trail that the chaincode can write *)
(* altered, and every announced path holds a report of that verdict.       *)
NoFalseAlarm ==
  \A row \in announced : row.valid /\ files[row.path] # NoFile /\ files[row.path].valid
=============================================================================
