---------------------------- MODULE Orchestrator ----------------------------
(***************************************************************************)
(* One assessment under core/orchestrator.py: run_assessment goes through  *)
(* its stages, commits what each finds, writes a checkpoint after each,    *)
(* and picks up from the latest checkpoint when it is called again after a *)
(* failure or a crash.  Several runs of the same assessment can overlap    *)
(* (see JobQueue): each has its own session, and they share the database   *)
(* and the report files.                                                   *)
(*                                                                         *)
(* A step is one transaction, or one call that reads or leaves the         *)
(* process.  A finding, an asset or a service is an item; of the scope     *)
(* only what it says of the target's URL host and of its IP is kept.  A    *)
(* target that is not authorized is one without an allowed entry:          *)
(* validate_target_for_scan refuses both.                                  *)
(***************************************************************************)
EXTENDS Naturals

CONSTANTS
  Run,         \* calls of run_assessment that may be going on at once
  Targets,     \* targets considered: [url, https, ip, extended : BOOLEAN]
  WebItem,     \* fingerprints the HTTP analyzer can report
  TlsItem,     \* fingerprints the TLS analyzer can report
  ServiceItem, \* services Nmap can report
  HostItem,    \* the HOST asset of the target's IP
  LastFormat,  \* number of report formats (four in the code)
  MaxFaults,   \* bound: crashes, failing tools and failing report writers
  MaxDbErrors, \* bound: transactions that raise
  MaxScopeAdds \* bound: scope entries added after the assessment was made

Item == WebItem \union TlsItem \union ServiceItem \union {HostItem}

ASSUME ItemAssumption ==
  /\ WebItem \intersect TlsItem = {}
  /\ (WebItem \union TlsItem) \intersect ServiceItem = {}
  /\ HostItem \notin WebItem \union TlsItem \union ServiceItem

ASSUME TargetAssumption ==
  Targets \subseteq [url : BOOLEAN, https : BOOLEAN, ip : BOOLEAN, extended : BOOLEAN]

ASSUME BoundsAssumption ==
  /\ LastFormat \in Nat \ {0}
  /\ MaxFaults \in Nat /\ MaxDbErrors \in Nat /\ MaxScopeAdds \in Nat

VARIABLES
  \* the database
  target,    \* the target row
  scope,     \* hosts with an allowed entry, hosts with an exclusion
  status, stage, progress,  \* the assessment row
  saved,     \* completed_modules of the latest checkpoint
  count,     \* rows stored for an item
  evidence,  \* TOOL_OUTPUT evidence rows
  audits,    \* ASSESSMENT_COMPLETE audit rows
  \* the report directory
  reports,   \* items in the file of a format
  \* a run and its session
  pc, done,  \* where it stands, its set of completed modules
  view,      \* the scope it loaded
  result,    \* what the stage's tool reported
  known,     \* items it saw stored when it looked for duplicates
  pending,   \* rows flushed, not committed
  fmt,       \* reports it has written in this stage
  \* what the checks need to remember, and the counters behind the bounds
  worked,    \* stages whose effects were committed or that were skipped
  faults, dbErrors, scopeAdds

rowVars   == <<status, stage, progress>>
dataVars  == <<count, evidence, audits>>
localVars == <<done, view, result, known, pending, fmt>>
envVars   == <<faults, dbErrors, scopeAdds>>
vars == <<target, scope, rowVars, saved, dataVars, reports, pc, localVars, worked, envVars>>

\* MODULES, with the place of each in the list.
Order ==
  [scope_validation |-> 1, web_security |-> 2, tls_security |-> 3,
   nmap_discovery |-> 4, extended_web |-> 5, risk_and_checkpoint |-> 6,
   report_generation |-> 7]

Module == DOMAIN Order

Progress ==
  [scope_validation |-> 5, web_security |-> 25, tls_security |-> 40,
   nmap_discovery |-> 60, extended_web |-> 75, risk_and_checkpoint |-> 85,
   report_generation |-> 95]

Host == {"url", "ip"}
NoReport == {"no report"}

\* Without a URL the web stage is neither run nor marked.
Planned == IF target.url THEN Module ELSE Module \ {"web_security"}

\* The stage that follows those completed, in the order of MODULES.
NextStage(s, completed) ==
  /\ s \in Planned \ completed
  /\ \A t \in Planned : Order[t] < Order[s] => t \in completed

\* Variants named ...Slip are coding slips that TLC is shown to notice; no
\* action uses them.
AtSlip(r, s) == s \in Planned \ done[r]

\* The stage the run comes to next.
At(r, s) == NextStage(s, done[r])

\* Whether the stage's condition can hold; Nmap may or may not be installed.
Runs(s) ==
  CASE s = "tls_security"   -> target.url /\ target.https
    [] s = "nmap_discovery" -> target.ip
    [] s = "extended_web"   -> target.url /\ target.extended
    [] OTHER                -> TRUE

Skips(s) ==
  CASE s = "tls_security"   -> ~(target.url /\ target.https)
    [] s = "nmap_discovery" -> TRUE
    [] s = "extended_web"   -> ~(target.url /\ target.extended)
    [] OTHER                -> FALSE

Stored == {i \in Item : count[i] > 0}

\* Row counts are kept up to two: a duplicate is what matters.
OneMore(n) == IF n < 2 THEN n + 1 ELSE n
Insert(items) == [i \in Item |-> IF i \in items THEN OneMore(count[i]) ELSE count[i]]

\* A flushed row holds SQLite's write lock until its session commits; anybody
\* else's transaction waits, or raises after busy_timeout.
Unlocked(r) == \A q \in Run \ {r} : pending[q] = {}

Goto(r, there) == pc' = [pc EXCEPT ![r] = there]
MarkDone(r, s) == done' = [done EXCEPT ![r] = @ \union {s}]
Remember(s) == worked' = worked \union {s}

-----------------------------------------------------------------------------
(* A run starts.  A COMPLETED assessment is left alone; otherwise the row  *)
(* and the latest checkpoint are read, and the row is marked RUNNING.      *)

StartableSlip == TRUE

Startable == status # "COMPLETED"

Load(r) ==
  /\ pc[r] = "idle" /\ Startable
  /\ done' = [done EXCEPT ![r] = saved]
  /\ Goto(r, "loaded")
  /\ UNCHANGED <<target, scope, rowVars, saved, dataVars, reports, view, result,
                 known, pending, fmt, worked, envVars>>

MarkRunning(r) ==
  /\ pc[r] = "loaded" /\ Unlocked(r)
  /\ status' = "RUNNING"
  /\ Goto(r, "gate")
  /\ UNCHANGED <<target, scope, stage, progress, saved, dataVars, reports,
                 localVars, worked, envVars>>

Allows(sc) == sc.allowed # {}

\* validate_target_for_scan, in every run; the scope rows stay cached.
Gate(r) ==
  /\ pc[r] = "gate"
  /\ view' = [view EXCEPT ![r] = scope]
  /\ Goto(r, IF Allows(scope) THEN "ready" ELSE "failing")
  /\ UNCHANGED <<target, scope, rowVars, saved, dataVars, reports, done, result,
                 known, pending, fmt, worked, envVars>>

-----------------------------------------------------------------------------
(* A stage: skipped, or entered with its name and progress committed.      *)

Skip(r, s) ==
  /\ pc[r] = "ready" /\ At(r, s) /\ Skips(s)
  /\ MarkDone(r, s) /\ Remember(s)
  /\ Goto(r, "save")
  /\ UNCHANGED <<target, scope, rowVars, saved, dataVars, reports, view, result,
                 known, pending, fmt, envVars>>

FirstStep(s) ==
  CASE s = "scope_validation"    -> "validate"
    [] s = "web_security"        -> "scan"
    [] s = "tls_security"        -> "scan"
    [] s = "nmap_discovery"      -> "asset"
    [] s = "extended_web"        -> "baselines"
    [] s = "risk_and_checkpoint" -> "risk"
    [] s = "report_generation"   -> "announce"

Enter(r, s) ==
  /\ pc[r] = "ready" /\ At(r, s) /\ Runs(s) /\ Unlocked(r)
  /\ stage' = s /\ progress' = Progress[s]
  /\ Goto(r, FirstStep(s))
  /\ UNCHANGED <<target, scope, status, saved, dataVars, reports, localVars,
                 worked, envVars>>

InScope(sc, h) == h \in sc.allowed /\ h \notin sc.excluded

\* The URL's host is what is validated; the IP only without a URL.
Validated(r) ==
  IF target.url THEN InScope(view[r], "url")
  ELSE target.ip /\ InScope(view[r], "ip")

Validate(r) ==
  /\ pc[r] = "validate"
  /\ IF Validated(r)
     THEN /\ MarkDone(r, "scope_validation") /\ Remember("scope_validation")
          /\ Goto(r, "save")
     ELSE Goto(r, "failing") /\ UNCHANGED <<done, worked>>
  /\ UNCHANGED <<target, scope, rowVars, saved, dataVars, reports, view, result,
                 known, pending, fmt, envVars>>

-----------------------------------------------------------------------------
(* The stages that store what a tool reports: web, TLS and Nmap.  The Nmap *)
(* stage flushes the HOST asset before the scan.                           *)

Yields(s) ==
  CASE s = "web_security"   -> WebItem
    [] s = "tls_security"   -> TlsItem
    [] s = "nmap_discovery" -> ServiceItem
    [] OTHER                -> {}

FlushHost(r) ==
  /\ pc[r] = "asset" /\ Unlocked(r)
  /\ pending' = [pending EXCEPT ![r] = {HostItem} \ Stored]
  /\ Goto(r, "scan")
  /\ UNCHANGED <<target, scope, rowVars, saved, dataVars, reports, done, view,
                 result, known, fmt, worked, envVars>>

Scan(r, s) ==
  /\ pc[r] = "scan" /\ At(r, s)
  /\ \E found \in SUBSET Yields(s) : result' = [result EXCEPT ![r] = found]
  /\ Goto(r, "lookup")
  /\ UNCHANGED <<target, scope, rowVars, saved, dataVars, reports, done, view,
                 known, pending, fmt, worked, envVars>>

LookupSlip(r) == known' = [known EXCEPT ![r] = {}]

\* _existing_fingerprints, get_or_create_service: what is stored already.
Lookup(r) == known' = [known EXCEPT ![r] = Stored]

ReadKnown(r) ==
  /\ pc[r] = "lookup"
  /\ Lookup(r)
  /\ Goto(r, "commit")
  /\ UNCHANGED <<target, scope, rowVars, saved, dataVars, reports, done, view,
                 result, pending, fmt, worked, envVars>>

DiscardSlip(r) == UNCHANGED pending

\* The session's transaction is over: nothing is left flushed.
Discard(r) == pending' = [pending EXCEPT ![r] = {}]

CommitItems(r, s) ==
  /\ pc[r] = "commit" /\ At(r, s) /\ Unlocked(r)
  /\ count' = Insert((result[r] \ known[r]) \union pending[r])
  /\ Discard(r)
  /\ result' = [result EXCEPT ![r] = {}]
  /\ known' = [known EXCEPT ![r] = {}]
  /\ MarkDone(r, s) /\ Remember(s)
  /\ Goto(r, "save")
  /\ UNCHANGED <<target, scope, rowVars, saved, evidence, audits, reports, view,
                 fmt, envVars>>

\* The external baselines leave one evidence row, whatever they returned.
CommitBaselines(r) ==
  /\ pc[r] = "baselines" /\ Unlocked(r)
  /\ evidence' = OneMore(evidence)
  /\ MarkDone(r, "extended_web") /\ Remember("extended_web")
  /\ Goto(r, "save")
  /\ UNCHANGED <<target, scope, rowVars, saved, count, audits, reports, view,
                 result, known, pending, fmt, envVars>>

\* The risk list goes into the checkpoint and the reports compute their own.
Risk(r) ==
  /\ pc[r] = "risk"
  /\ MarkDone(r, "risk_and_checkpoint") /\ Remember("risk_and_checkpoint")
  /\ Goto(r, "save")
  /\ UNCHANGED <<target, scope, rowVars, saved, dataVars, reports, view, result,
                 known, pending, fmt, envVars>>

SavedBySlip(r) == done[r] \union {s \in Module : At(r, s)}

SavedBy(r) == done[r]

\* _checkpoint after a stage.
Save(r) ==
  /\ pc[r] = "save" /\ Unlocked(r)
  /\ saved' = SavedBy(r)
  /\ Goto(r, "ready")
  /\ UNCHANGED <<target, scope, rowVars, dataVars, reports, localVars, worked, envVars>>

-----------------------------------------------------------------------------
(* Reports: a checkpoint that says they were started, the files one by     *)
(* one, each from what the database holds by then, and the stage is done.  *)

AnnounceReports(r) ==
  /\ pc[r] = "announce" /\ Unlocked(r)
  /\ saved' = SavedBy(r)
  /\ fmt' = [fmt EXCEPT ![r] = 0]
  /\ Goto(r, "build")
  /\ UNCHANGED <<target, scope, rowVars, dataVars, reports, done, view, result,
                 known, pending, worked, envVars>>

Build(r) ==
  /\ pc[r] = "build" /\ fmt[r] < LastFormat
  /\ reports' = [reports EXCEPT ![fmt[r] + 1] = Stored]
  /\ fmt' = [fmt EXCEPT ![r] = @ + 1]
  /\ UNCHANGED <<target, scope, rowVars, saved, dataVars, pc, done, view, result,
                 known, pending, worked, envVars>>

ReportsDoneSlip(r) == pc[r] = "build"

ReportsDone(r) == pc[r] = "build" /\ fmt[r] = LastFormat

FinishReports(r) ==
  /\ ReportsDone(r)
  /\ MarkDone(r, "report_generation") /\ Remember("report_generation")
  /\ fmt' = [fmt EXCEPT ![r] = 0]
  /\ Goto(r, "save")
  /\ UNCHANGED <<target, scope, rowVars, saved, dataVars, reports, view, result,
                 known, pending, envVars>>

-----------------------------------------------------------------------------
(* Completion: row and audit entry in one transaction, then a checkpoint   *)
(* that lists every module.                                                *)

AllDoneEarlySlip(r) == Planned \ {"report_generation"} \subseteq done[r]

AllDoneModuleSlip(r) == Module \subseteq done[r]

AllDone(r) == Planned \subseteq done[r]

Complete(r) ==
  /\ pc[r] = "ready" /\ AllDone(r) /\ Unlocked(r)
  /\ status' = "COMPLETED" /\ stage' = "completed" /\ progress' = 100
  /\ audits' = OneMore(audits)
  /\ Goto(r, "final")
  /\ UNCHANGED <<target, scope, saved, count, evidence, reports, localVars,
                 worked, envVars>>

\* A run that is over keeps nothing.
Forget(r) ==
  /\ Goto(r, "idle")
  /\ done' = [done EXCEPT ![r] = {}]
  /\ view' = [view EXCEPT ![r] = [allowed |-> {}, excluded |-> {}]]
  /\ result' = [result EXCEPT ![r] = {}]
  /\ known' = [known EXCEPT ![r] = {}]
  /\ pending' = [pending EXCEPT ![r] = {}]
  /\ fmt' = [fmt EXCEPT ![r] = 0]

Final(r) ==
  /\ pc[r] = "final" /\ Unlocked(r)
  /\ saved' = Module
  /\ Forget(r)
  /\ UNCHANGED <<target, scope, rowVars, dataVars, reports, worked, envVars>>

-----------------------------------------------------------------------------
(* Failure: the handler records FAILED, commits what the session still has *)
(* flushed, and writes a checkpoint of what was completed.                 *)

CanRaise == {"scan", "baselines", "build"}

ToolFails(r) ==
  /\ pc[r] \in CanRaise /\ faults < MaxFaults
  /\ faults' = faults + 1
  /\ Goto(r, "failing")
  /\ UNCHANGED <<target, scope, rowVars, saved, dataVars, reports, localVars,
                 worked, dbErrors, scopeAdds>>

Handle(r) ==
  /\ pc[r] = "failing" /\ Unlocked(r)
  /\ status' = "FAILED"
  /\ count' = Insert(pending[r])
  /\ Discard(r)
  /\ Goto(r, "failsave")
  /\ UNCHANGED <<target, scope, stage, progress, saved, evidence, audits, reports,
                 done, view, result, known, fmt, worked, envVars>>

SaveFailure(r) ==
  /\ pc[r] = "failsave" /\ Unlocked(r)
  /\ saved' = SavedBy(r)
  /\ Forget(r)
  /\ UNCHANGED <<target, scope, rowVars, dataVars, reports, worked, envVars>>

\* A checkpoint has a session of its own: when it raises, the handler runs.
CheckpointFails(r) ==
  /\ pc[r] \in {"save", "announce", "final"} /\ dbErrors < MaxDbErrors
  /\ dbErrors' = dbErrors + 1
  /\ Goto(r, "failing")
  /\ UNCHANGED <<target, scope, rowVars, saved, dataVars, reports, localVars,
                 worked, faults, scopeAdds>>

Committing(r) ==
  \/ pc[r] \in {"loaded", "asset", "commit", "baselines", "failing", "failsave"}
  \/ pc[r] = "ready" /\ (AllDone(r) \/ \E s \in Module : At(r, s) /\ Runs(s))

\* The run's own transaction raises: its session is unusable, so the handler
\* (if it is not the one that failed) cannot record FAILED either.
CommitFails(r) ==
  /\ Committing(r) /\ dbErrors < MaxDbErrors
  /\ dbErrors' = dbErrors + 1
  /\ Forget(r)
  /\ UNCHANGED <<target, scope, rowVars, saved, dataVars, reports, worked, faults,
                 scopeAdds>>

Crash ==
  /\ faults < MaxFaults /\ \E r \in Run : pc[r] # "idle"
  /\ faults' = faults + 1
  /\ pc' = [r \in Run |-> "idle"]
  /\ done' = [r \in Run |-> {}]
  /\ view' = [r \in Run |-> [allowed |-> {}, excluded |-> {}]]
  /\ result' = [r \in Run |-> {}]
  /\ known' = [r \in Run |-> {}]
  /\ pending' = [r \in Run |-> {}]
  /\ fmt' = [r \in Run |-> 0]
  /\ UNCHANGED <<target, scope, rowVars, saved, dataVars, reports, worked,
                 dbErrors, scopeAdds>>

\* POST /targets/{id}/scopes: entries are added, never changed or removed.
AddScope(h, excluded) ==
  /\ scopeAdds < MaxScopeAdds /\ \A q \in Run : pending[q] = {}
  /\ scopeAdds' = scopeAdds + 1
  /\ scope' = IF excluded THEN [scope EXCEPT !.excluded = @ \union {h}]
              ELSE [scope EXCEPT !.allowed = @ \union {h}]
  /\ UNCHANGED <<target, rowVars, saved, dataVars, reports, pc, localVars, worked,
                 faults, dbErrors>>

-----------------------------------------------------------------------------
Init ==
  /\ target \in Targets
  /\ scope \in [allowed : SUBSET Host, excluded : SUBSET Host]
  /\ status = "QUEUED" /\ stage = "none" /\ progress = 0
  /\ saved = {} /\ worked = {}
  /\ count = [i \in Item |-> 0] /\ evidence = 0 /\ audits = 0
  /\ reports = [f \in 1..LastFormat |-> NoReport]
  /\ pc = [r \in Run |-> "idle"]
  /\ done = [r \in Run |-> {}]
  /\ view = [r \in Run |-> [allowed |-> {}, excluded |-> {}]]
  /\ result = [r \in Run |-> {}]
  /\ known = [r \in Run |-> {}]
  /\ pending = [r \in Run |-> {}]
  /\ fmt = [r \in Run |-> 0]
  /\ faults = 0 /\ dbErrors = 0 /\ scopeAdds = 0

Advance(r) ==
  \/ MarkRunning(r) \/ Gate(r) \/ Validate(r)
  \/ \E s \in Module : Skip(r, s) \/ Enter(r, s) \/ Scan(r, s) \/ CommitItems(r, s)
  \/ FlushHost(r) \/ ReadKnown(r) \/ CommitBaselines(r) \/ Risk(r) \/ Save(r)
  \/ AnnounceReports(r) \/ Build(r) \/ FinishReports(r)
  \/ Complete(r) \/ Final(r) \/ Handle(r) \/ SaveFailure(r)

Disturb(r) == ToolFails(r) \/ CheckpointFails(r) \/ CommitFails(r)

Next ==
  \/ \E r \in Run : Load(r) \/ Advance(r) \/ Disturb(r)
  \/ Crash
  \/ \E h \in Host, excluded \in BOOLEAN : AddScope(h, excluded)

Spec == Init /\ [][Next]_vars

(* A run that was started goes on: its calls have timeouts.  Somebody      *)
(* resumes an assessment that is not completed.                            *)
FairSpec == Spec /\ \A r \in Run : WF_vars(Advance(r)) /\ WF_vars(Load(r))

-----------------------------------------------------------------------------
ScopeType == [allowed : SUBSET Host, excluded : SUBSET Host]

Place ==
  {"idle", "loaded", "gate", "ready", "validate", "scan", "asset", "lookup",
   "commit", "baselines", "risk", "announce", "build", "save", "final",
   "failing", "failsave"}

RowTypes ==
  /\ target \in Targets /\ scope \in ScopeType
  /\ status \in {"QUEUED", "RUNNING", "COMPLETED", "FAILED"}
  /\ stage \in Module \union {"none", "completed"}
  /\ progress \in 0..100
  /\ saved \subseteq Module /\ worked \subseteq Module
  /\ count \in [Item -> 0..2] /\ evidence \in 0..2 /\ audits \in 0..2
  /\ reports \in [1..LastFormat -> (SUBSET Item) \union {NoReport}]

RunTypes ==
  /\ pc \in [Run -> Place]
  /\ done \in [Run -> SUBSET Module]
  /\ view \in [Run -> ScopeType]
  /\ result \in [Run -> SUBSET Item]
  /\ known \in [Run -> SUBSET Item]
  /\ pending \in [Run -> SUBSET Item]
  /\ fmt \in [Run -> 0..LastFormat]
  /\ faults \in 0..MaxFaults /\ dbErrors \in 0..MaxDbErrors
  /\ scopeAdds \in 0..MaxScopeAdds

LockHeld ==
  \A r \in Run :
    pending[r] # {} => pc[r] \in {"scan", "lookup", "commit", "failing"}

(* TypeOK: every variable keeps to its domain, and a run holds flushed     *)
(* rows, and SQLite's write lock with them, only between the flush of the  *)
(* HOST asset and the end of that transaction.                             *)
TypeOK == RowTypes /\ RunTypes /\ LockHeld

(* NoDuplicates: however often an assessment is resumed, a finding, an     *)
(* asset or a service is stored once (_add_findings, core/inventory.py).   *)
NoDuplicates == \A i \in Item : count[i] <= 1

(* CheckpointBacked: what a checkpoint or a run counts as completed has    *)
(* been done, its rows committed or its condition found not to apply, so   *)
(* that no resume skips work that was lost.                                *)
CheckpointBacked ==
  /\ saved \ worked \subseteq {"web_security"} \ Planned
  /\ \A r \in Run : done[r] \ worked \subseteq {"web_security"} \ Planned

(* CompletionBacked: an assessment is COMPLETED only when each stage       *)
(* planned for it is in a checkpoint, reports included (the comment above  *)
(* the completion in run_assessment).                                      *)
CompletionBacked == status = "COMPLETED" => Planned \subseteq saved

(* ReportsCurrent: the reports of a COMPLETED assessment exist in every    *)
(* format and hold all that is stored for it, whatever was retried.        *)
ReportsCurrent ==
  status = "COMPLETED" => \A f \in 1..LastFormat : reports[f] = Stored

(* ScopeValidatedFirst: a stage after scope_validation is entered only     *)
(* when some run has validated the target against its scope.               *)
ScopeValidatedFirst ==
  stage \notin {"none", "scope_validation"} => "scope_validation" \in worked

(* ProgressForward: the progress of an assessment never goes back, not     *)
(* even when a later run resumes it.                                       *)
ProgressForward == [][progress' >= progress]_vars

(* CompletedStays: short of a failed transaction, a COMPLETED assessment   *)
(* is never RUNNING or FAILED again.                                       *)
CompletedStays ==
  [][status = "COMPLETED" /\ dbErrors = 0 => status' = "COMPLETED"]_vars

(* EventuallyCompleted: an assessment whose target stays in scope is       *)
(* completed in the end, if it is resumed whenever a run of it ends early. *)
ScopeFits ==
  /\ target.url \/ target.ip
  /\ InScope(scope, IF target.url THEN "url" ELSE "ip")

EventuallyCompleted == []ScopeFits => <>(status = "COMPLETED")

\* What the ledger of StageLedger sees.
Ledger ==
  INSTANCE StageLedger
    WITH planned <- Planned, durable <- saved \intersect Planned,
         announced <- audits > 0

(* LedgerKept: checkpoints and completion behave as StageLedger promises.  *)
LedgerKept == Ledger!LedgerSpec
-----------------------------------------------------------------------------
(* What the proofs need beside the properties above.                       *)

FinalDone == \A r \in Run : pc[r] = "final" => AllDone(r)

\* Where a run stands tells which stage it is in.
InPlace ==
  \A r \in Run :
    /\ pc[r] = "validate" => At(r, "scope_validation")
    /\ pc[r] = "asset" \/ pending[r] # {} => At(r, "nmap_discovery")
    /\ pc[r] \in {"scan", "lookup", "commit"} =>
         \E s \in {"web_security", "tls_security", "nmap_discovery"} : At(r, s)
    /\ pc[r] = "baselines" => At(r, "extended_web")
    /\ pc[r] = "risk" => At(r, "risk_and_checkpoint")
    /\ pc[r] \in {"announce", "build"} => At(r, "report_generation")

\* No stage is completed before those that come first.
Closed(stages) ==
  \A s \in stages \intersect Planned, t \in Planned : Order[t] < Order[s] => t \in stages

Ordered == Closed(saved) /\ \A r \in Run : Closed(done[r])

(* What follows holds of one run at a time.                                *)

\* Between checkpoints a run is at most one stage ahead of the latest one.
SavedByRun ==
  \A r \in Run :
    /\ pc[r] \notin {"idle", "save", "failing", "failsave"} => done[r] = saved
    /\ pc[r] \in {"save", "failing", "failsave"} =>
         done[r] = saved
           \/ \E s \in Module : NextStage(s, saved) /\ done[r] = saved \union {s}

\* From the lookup to the commit nobody else stores anything.
Fresh ==
  \A r \in Run :
    /\ pc[r] = "commit" => known[r] = Stored
    /\ pending[r] \subseteq {HostItem} \ Stored
    /\ HostItem \notin result[r]

Ahead == \A s \in Planned \ saved : progress <= Progress[s]

CompletedPlace ==
  status = "COMPLETED" =>
    \A r \in Run : pc[r] = "idle" \/ pc[r] = "final" \/ dbErrors > 0

\* Reports are as current as the stage that wrote them is complete.
ReportsWritten ==
  /\ "report_generation" \in saved => \A f \in 1..LastFormat : reports[f] = Stored
  /\ \A r \in Run :
       /\ pc[r] = "build" => \A f \in 1..fmt[r] : reports[f] = Stored
       /\ "report_generation" \in done[r] =>
            \A f \in 1..LastFormat : reports[f] = Stored
=============================================================================
