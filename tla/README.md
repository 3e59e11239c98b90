# SentinelAutoSec: TLA+ models, checks and proofs

SentinelAutoSec runs security assessments of authorised targets. A FastAPI
process serves a dashboard, queues assessments, runs them stage by stage in a
thread pool, and keeps everything in one SQLite file, so that an assessment
survives a failure or a crash and is resumed from its latest checkpoint. What is
hard in it is not the scanning but that: threads and transactions that
interleave, a process that dies between two commits, work that is repeated on
resume. The modules here model it from the source, TLC checks them on small
instances, and TLAPS proves the main results for every instance.

Run `tlc -config X.cfg MCName.tla` for a check and `tlapm Name.tla` for proofs.

## The system

| component | state | operations | hard behaviour | what makes it correct |
|---|---|---|---|---|
| Job queue (`core/jobs.py`, `lifespan`, delete and start endpoints of `apps/api/main.py`) | `jobs` row per assessment (status, `updated_at`), thread pool and its queue, heartbeat threads | submit, claim, beat, finish, recover at start-up, delete | the row and the in-memory task are two things; locks cover only part; crash, failed commit, late heartbeat, a scan that holds the write lock | a queued row has a task; a running row has a worker; a live job is not taken for dead while its beats arrive; jobs start and end |
| Orchestrator (`core/orchestrator.py`) | `assessments` row, findings, evidence, assets, services, audit log, report files, a run's set of completed modules | seven stages, checkpoints, failure handler, resume | commit, checkpoint and report file are separate; runs may overlap; repeated work | nothing twice, nothing skipped, completion and reports only for finished work, scope first |
| Checkpoints (`core/checkpoints.py`) | `checkpoints` rows, the latest counts | save, read latest | own session, so it can succeed or fail apart from the data | a checkpoint only lists what was done |
| Service endpoints (`apps/api/main.py` 265-298, 448-595, 737-773) | the same rows by id, report files by id | create, queue, run in the request, report, delete | ids given out again, requests without a job row, files outside the transaction, one write lock | what lies under an id belongs to the assessment that has it |
| Scope gate (`core/scope.py`, `security/`) | target and its scope rows | `validate_target_for_scan`, `validate_request` | rows cached by the session; which host is checked; hosts and ports pooled over entries | tools touch only what is in scope |
| Inventory, correlation, links (`core/inventory.py`, `core/correlation.py`, `core/finding_links.py`) | assets, services, findings | get-or-create, correlate | read, then insert, with no constraint behind it | idempotent |
| Tool installer and memo (`main.py` 306-397, `setup_optional_tools.py`, `integrations/external/locate.py`) | install state, `sys.stdout`, memo of lookups, files on disk | accept, install thread, poll, locate, clear | thread outside the lock, process-wide redirect, lookups that span a clear | status belongs to the latest install, outcome shown, misses end with the install or expire, installs end |
| Reports (`reporting/generator.py`) | one file per format | build | several queries, render, write; two writers | hold what is stored, final when it is |
| Database (`core/db.py`, `database/models.py`) | SQLite, WAL, one writer | transactions, migrations, purge order | write lock held across a scan, DDL and tagging | keys refuse orphan rows |
| Adapters and analyzers (`integrations/`, `modules/`) | none | run a tool, parse, merge | time-outs, exceptions, verifying TLS clients, chunks of ports | each port once, nothing reported is lost |
| Read endpoints, dashboard page, risk, redaction, scripts | none of interest | | | |

The endpoints call `submit_assessment` (or the orchestrator itself, for a
synchronous start); pool threads call `run_assessment`; it calls the adapters,
which look tools up through the memo; everything else meets in the database.

## Modules

| module | models | role |
|---|---|---|
| `JobQueue` | job queue, start-up, deletion | state machine, properties |
| `JobQueueProofs` | | five theorems |
| `StageLedger` | what a checkpointed assessment promises | abstract specification |
| `Orchestrator` | `run_assessment`, checkpoints, inventory, reports | state machine, implements `StageLedger` |
| `OrchestratorProofs` | | nine theorems |
| `AssessmentService` | the endpoints around runs: create, queue, synchronous start, report, delete; ids, files, write lock | composes jobs, runs and requests, implements `AssessmentBook` |
| `AssessmentBook` | what the service promises about assessments, whatever ids they have | abstract specification |
| `AssessmentServiceProofs` | | eight theorems |
| `AssessmentBookProofs` | | the refinement and what follows from it |
| `ScopeRules` | scope decision and Nmap's port list | operators |
| `Scan` | what a run contacts and keeps: gate, web and TLS analyzers, Nmap in chunks, services, risk list | state machine over `ScopeRules` |
| `ScanProofs` | | eight theorems |
| `ToolInstall` | installer endpoints and thread, memo | state machine, properties |
| `ToolInstallProofs` | | six theorems |
| `MCJobQueue`, `MCOrchestrator`, `MCAssessmentService`, `MCScan`, `MCToolInstall` | | instances for TLC |

The modules look at the same program at different grains. `JobQueue` opens up a
submission and the heartbeat and takes a run as one step; `Orchestrator` opens
up a run and takes what a tool says as given; `Scan` opens up the tools and runs
one at a time; `AssessmentService` takes submissions and stages coarsely and has
everything else that can happen to several assessments at once.

In every module a definition named `...Slip` is a coding slip beside the
definition it distorts. No action uses it; swapping it in shows that the
properties notice.

### JobQueue

`status` and `age` are the job row (`age` is the time since `updated_at`, kept
while it says RUNNING and capped just past `StaleAfter`), `rows` the assessments
that exist. `queue`, `pc`, `on` and the heartbeat variables `beating`, `timer`,
`missed` are the pool, `scanning` the thread whose run holds the write lock; `cpc`, `about`, `seen` are request threads, with the
start-up code (`Boot`) as one more caller.

`submit_assessment` is three steps, because nothing holds a lock across them:
`SubmitRead`, `SubmitCommit` (which writes what the read decided, so a job read
as QUEUED keeps whatever status it has by then), `Enqueue`. A worker is `Take`,
`Claim` (row and heartbeat), `Beat` or `BeatFails` any number of times,
`RunEnds` with either outcome, `Finish`. The claim and the final write can raise
(`ClaimFails`, `FinishFails`): both stand outside the worker's `try`; `dropped`
remembers of which assessments one did. A start-up
is `Startup` (recovery and the select of queued jobs), one submission per job,
`Ready`. `DeleteCheck` and `DeleteCommit` are the two halves of a deletion.
`Crash` leaves only the database.

A run that finds a new HOST asset flushes it and commits after the Nmap scan
(`core/orchestrator.py` 271-298), so between `FlushHost` and `CommitHost` it has
SQLite's only write lock. Whoever else writes then waits or raises (`Raises`):
other requests, the other worker, and the heartbeat of the very run that scans,
whose session is another one. Beats fail as often as that lasts, and without a
bound; `missed` counts them as far as the properties ask.

Time is counted in ticks. A beat that is due is written or has failed within
`BeatBy`, and an ended run is recorded, or given up, within `FinishWithin`.
`Tolerated` is what the settings make of it: `TimingAssumption` says that so
many failed beats in a row, one more, and the final write fit into
`StaleAfter`. It is a condition on the settings alone. With the defaults
(15 s between beats, up to 10 s more for the lock of the module and the busy
timeout, 16 s for the join and 10 s for the write, 120 s) they fit with two. An
Nmap phase may last 900 s, so what is not tolerated does happen:
`job_queue_stale`.

### Orchestrator and StageLedger

The row is `status`, `stage`, `progress`; `saved` is the list of the latest
checkpoint; `count` is how many rows are stored for a fingerprint, a service or
the HOST asset (kept up to two); `reports` is what each file holds. Of a run, `done` is its
`completed` set, `view` the scope rows its session has cached, `result`, `known`
and `pending` what the tool reported, what was found stored, and what is flushed
and not committed (it holds SQLite's only write lock, `Unlocked`).

`At(r, s)` is the chain of `if "x" not in completed` tests. `Enter` is the commit
of stage and progress, `Scan`, `ReadKnown`, `CommitItems` the three stages that
store what a tool reports, `FlushHost` the asset flushed before Nmap,
`CommitBaselines`, `Risk`, `AnnounceReports`, `Build` (once per format),
`FinishReports` the others; `Save` is the checkpoint after each; `Complete` and
`Final` end a run. `ToolFails`, `CheckpointFails` and `CommitFails` raise where
the code can raise; `Handle` and `SaveFailure` are the `except` clause. A commit
that raises leaves the session unusable, so the handler does not get to record
FAILED. `worked`, a history variable, remembers which stages were really done.

`StageLedger` says what this promises: planned stages become durable one at a
time and in order, and completion is announced when all are. `LedgerKept` is the
refinement, with `durable` the planned part of the latest checkpoint and
`announced` the audit entry.

### AssessmentService

Rows are kept by id (`row`, `state`, `job`, `saved`, `found`), and `row` says
which assessment an id stands for, told by the order in which assessments were
made: SQLite gives the largest id out again after its deletion (`NewId`). A
thread is in an operation (`op`) on an id (`on`). A run is `Load`, `Scan`,
`Store`, `Save`, the report (`ReadData` twice: the assessment, then its
findings; `WriteReport`) and `Complete`; pool threads put `Take`, `Claim` and
`Finish` around it, a synchronous start nothing. `StartReport` is `POST
/reports` on the same steps. A deletion is a check, `Purge` and `Unlink`; it
lists a target's assessments again after the check, and leaves a file it cannot
remove. `Submit` may find a RUNNING job stale whether or not a thread serves it:
ages are `JobQueue`'s matter.

A run's session knows its assessment by id alone. `mine` remembers which one it
loaded, so that the properties can tell when it writes under an id that stands
for another. `lock` is SQLite's write lock held across an Nmap scan; whoever
waits for it may raise (`GivesUp`), which costs a run its handler and a worker
its last write. `harm` records what a step did to somebody else: a run whose
assessment was purged ("yank"), a report file that outlives its assessment
("leak") or was removed after another was written ("clobber"), a thread that
gave up ("timeout"). The invariants are stated up to these, so that each names
exactly the interleavings that break it.

`AssessmentBook` speaks of assessments and knows no ids: each is opened once,
its scan is stored and its report written while it is there, it is completed
when it has both, and a deletion takes all of it at once and for good. `Book`
maps the rows to it: an id's row, findings, file and status become the
assessment that `row` says the id stands for (`Rows`). `BookKept` is the
refinement, for as long as nobody is disturbed (`Undisturbed`: no yank, leak or
clobber). It is what reusing ids has to be invisible for.

### ScopeRules and Scan

`ScopeRules` are the decisions as functions of a set of entries: hosts compared
by lower-case spelling, ports pooled over all allowed entries, exclusions of
hosts. `Granted` and `Barred` are the reading a document suggests: an entry
opens its own port of its own host.

`Scan` runs one assessment through scope validation, web, TLS, Nmap and the risk
list, with crashes, failing tools, resumes and added scope entries. `view` is
what the session loaded once, `cache` the memo of `a.findings` that SQLAlchemy
keeps for a session (nothing expires it). `WebIssues` and `TlsIssues` are the analyzers'
rules; `Handshake` is what a verifying client accepts, and is external. Nmap's
adapter is `Discover` (the list given, or a pass over all ports), `Probe` (one
chunk), `StoreServices`; a port may close or change its service in between.

### ToolInstall

One install is a thread with `pc`; `log` and `error` are told by the install
they belong to; `stdout` is who has redirected `sys.stdout`. A lookup is three
steps (`Locate`, `Resolve`, `Store`): the code notes the time, searches the disk
and stores, and another thread may clear the memo in between. `elapsed` is the
time since a lookup noted the time, so that the entry it stores has that age. An
installer that is only launched is finished by its user (`Appear`). A thread that
cannot be started, or whose import fails, is lost before its `try` and leaves
`running` set (`StartFails`). `since` is how long a tool has been on disk,
`promised` what was on disk when an install that succeeded had cleared the memo.

`finished` is the one field that a thread still sets after it has let the next
install in. `overrun` is the install that was at work when an earlier thread did
that: its status says running and finished at once. `StatusIsOwn` excepts this
by name, and says that nothing else of the status is another install's.

## Runs

| run | instance | shows |
|---|---|---|
| `job_queue` | 1 assessment, 2 workers, 2 clients, 1 crash, 1 failed transaction, scans under the lock, any number of failed beats of which 1 is tolerated | `TypeOK`, `StaleOnlyIfMissed`, `RunningHasWorker`, `NoLostJob` |
| `job_queue_live` | 2 assessments, 1 worker, 1 client, 1 crash, scans under the lock | `QueuedJobStarts`, `ActiveJobEnds`, `StaleJobRecovered` |
| `job_queue_duplicate` | 2 workers, no failures | violated: `ActiveJobNotDuplicated` |
| `job_queue_restart` | 1 crash | violated: `RunningJobRecovered` |
| `job_queue_stale` | 1 worker, 1 client, no failure but the lock's | violated: `LiveJobNeverStale` |
| `orchestrator` | 4 kinds of target, 2 faults, 1 failed transaction, 1 scope entry added, 2 formats | all safety and liveness of `Orchestrator`, and `LedgerKept` |
| `service` | 3 assessments on 2 ids, 1 worker, 2 clients, 6 requests or 5 and a crash | `TypeOK`, `OwnFindings`, `CompletedWasScanned`, `ReportOfItsOwner`, `FinalReport`, `FinalHoldsAll`, `ActiveJobServed`, `BookKept` |
| `service_delete` | synchronous starts only | violated: `DeletionWaitsForRun` |
| `service_stuck` | 2 workers, 2 assessments | violated: `JobNotStuck` |
| `scan` | 4 targets, 9 scopes, 3 spellings of hosts, 3 ports in chunks of 2, 1 fault, 1 scope entry added | `TypeOK`, `OneHostKept`, `ListedPortsOnly`, `EachPortOnce`, `ReportedIsStored`, `RisksComplete`, `PairReported` |
| `tool_install` | 2 installs, a portable and a launched tool, 1 request thread | `TypeOK`, `StatusIsOwn`, `OutputCaptured`, `OutcomeShown`, `MissesExpire`, `InstallSettles` |
| `tool_memo` | the same with a portable tool only | violated: `ClearedMemoTrue` |

The bounds: two workers are the code's pool. One assessment is enough for what
happens to a row, since rows do not interact; that jobs compete for threads
needs the second one of `job_queue_live`. Two clients make a submission race a
submission or a deletion. One crash and one failed transaction each hit every
step; in `orchestrator` two faults are a crash during a resume, or a crash and a
failing tool. The four kinds of target take both branches of every stage. Two
formats are enough for a report that is missing or older than another. One
fingerprint per tool suffices as items do not interact. In `service` six
requests are the longest story that matters: create, start, delete, create under
the same id, start, report; the third assessment lives beside them, so that a
deletion of the target has two. In `scan` three ports make a full chunk and a
partial one, and the scopes take every branch of the rules; a host has two
spellings, and the IP is another host. Two installs are one that follows
another; `TTL` 1 lets an entry live through a step and die. Violated properties
need nothing but the interleaving, so their instances are small.

Symmetry is used for workers and clients in `job_queue` and for clients in
`service`, never with a liveness property. `orchestrator`, `service*` and
`scan` configs turn the deadlock check off: a COMPLETED assessment has nothing
left to do, and requests are bounded.

## What the violated properties show

Each states what a comment or a document of the repository says.

- `ActiveJobNotDuplicated` (`core/jobs.py:116`): a job submitted again while it
  is QUEUED gets a second task. Two overlapping runs can then store a finding
  twice, as deduplication reads first and inserts later: `NoDuplicates` holds
  for one run at a time.
- `RunningJobRecovered` (`README.md:16`): a restart that comes before the
  heartbeat looks stale leaves the job RUNNING.
- `DeletionWaitsForRun` (`README.md:65`): the check of a deletion reads the job
  row, which a synchronous run does not have, and reads it before the purge.
- `JobNotStuck` (`core/jobs.py:191-194`): the final write of a worker is outside
  its `try` and can meet a write lock held by another worker's Nmap scan.
- `LiveJobNeverStale` (`core/jobs.py:47`, `README.md:95`): the run flushes the
  HOST asset, and while it scans every beat of its own heartbeat fails on the
  lock that the run itself holds. With 120 s against scans of up to 900 s the
  job of a live worker looks stale in the ordinary case of a long first scan; a
  resubmission then gives it a second worker. `StaleOnlyIfMissed` is what holds
  in its place.
- `ClearedMemoTrue` (`apps/api/main.py:368-369`, `locate.py:11-13`,
  `CHANGELOG.md:5`): a request searched the disk before the tool was there, the
  install clears the memo, and the request stores its miss. For the rest of the
  30 seconds the tool counts as not installed. `MissesExpire` is what holds in
  its place.

Two more disagreements were met while modelling and are visible in the
definitions; no run is about them:

- `docs/ARCHITECTURE.md:28` says that scope is checked before assessment
  activity. `RequestPasses` pools hosts and ports over all entries
  (`security/validation.py:40`), so a port listed for one host is contacted on
  another, and of a target with a URL only the URL's host is validated, while
  Nmap scans its IP (`core/orchestrator.py:278`). Scope rows added after the
  validation are not seen by it. `OneHostKept` says when this is harmless.
- `README.md:18` lists TLS version, cipher and certificate-expiry inspection.
  `Handshake` refuses the servers that `TlsIssues` would report
  (`modules/tls/analyzer.py:27`), so the handshake fails first, and with it the
  assessment and every resume. `RisksComplete` rests on that.

## Fairness

`JobQueue!Fairness`: threads that can run do; time passes; a process that went
down is started again; a run ends, because every request and subprocess of the
adapters has a timeout; a transaction that waits for the write lock is done or
raises, whichever comes first. A client owes nothing but to finish the request
it is in. Nothing is assumed of failures, crashes or deletions.

`Orchestrator!FairSpec`: a run that was started goes on, for the same reason, and
somebody resumes an assessment that is not completed. The second is not the
code's: it is the user's Resume button or the start-up recovery, and
`EventuallyCompleted` says what the code makes of it. Faults are bounded, so a
retry succeeds in the end.

`ToolInstall!FairSpec`: an install thread goes on, or is lost (downloads time out).

## Proofs

`JobQueueProofs` proves `TypeOK`, `StaleOnlyIfMissed`, `RunningHasWorker` and
`NoLostJob` invariant for any sets of assessments, workers and clients and any
bounds, from `CallerAssumption`, `TimingAssumption` and `BoundAssumption`, and
`ActiveJobNotDuplicated` when clients are `Patient`.

- Staleness: while it has not missed more beats than tolerated, the age of a job
  that a live worker serves is at most `Lag`, the time the missed beats and the
  running timer account for (`AgeBound`), and timers respect their deadlines
  (`InTime`). `TimingAssumption` bounds `Lag` by `StaleAfter`. The property alone
  is not inductive: a tick can make a job stale unless its age is tied to the
  timer. Nothing is assumed of how many beats fail.
- The other two need `BootAlone`: during start-up no client is served, so the
  jobs that start-up found QUEUED are still there when it submits them.
- `DuplicatesNeedHaste` is about the property that `job_queue_duplicate` refutes.
  It holds of `PatientSpec`, where no client submits an assessment that is
  awaited, being submitted, or run by a worker that missed more beats than
  tolerated, through crashes, failed transactions and deletions. The last
  exception is not an exotic one, as `job_queue_stale` shows; the theorem says
  that there is no fourth way to a duplicate. Inductive is `Sole`: one
  submission, task or worker per assessment (`OneTask`), a run shows in its row
  unless the assessment is deleted (`RunShown`, `RowKept`), start-up submits what
  nobody has (`BacklogFree`). TLC finds a duplicate when any part of `Patient` is
  dropped.

`OrchestratorProofs` needs `ItemAssumption`, `TargetAssumption` and
`BoundsAssumption`. For any set of overlapping runs: `TypeOK`,
`CheckpointBacked`, `ScopeValidatedFirst` (with `FinalDone`: a run that writes
its last checkpoint has completed every planned stage). For one run at a time
(`OneAtATime`): `CompletionBacked`, `LedgerKept`, `NoDuplicates`,
`ProgressForward`, `CompletedStays`, `ReportsCurrent`. The strengthening is
`SavedByRun`: between checkpoints the run is at most one stage ahead of what is
saved. With `InPlace` (where a run stands tells its stage) and `Ordered`
(checkpoints are closed under the order of stages) every checkpoint is a step or
a stutter of the ledger; `Fresh` says that what a lookup found is still all that
is stored when the commit comes; `Ahead`, `CompletedPlace` and `ReportsWritten`
do the same for progress, completion and reports. All of these were checked by
TLC before they were proved.

`OneAtATime` is the honest condition: the job queue does not guarantee it
(`job_queue_duplicate`, `job_queue_stale`); without synchronous starts, patient
clients are enough for it (`DuplicatesNeedHaste`). With overlapping runs a
session leaves out the UPDATE of a value it loaded as such; `MarkRunning` writes
it, and no property is about the difference.

`ToolInstallProofs` needs `ToolAssumption` only: any tools, requests, installs
and lifetime. `Alone` says that only the latest install can be at work, because
`running` is cleared after everything else but the last flag; with `ErrorAt` and
`ConsoleBelow` (how far an install is tells what the shared error and the saved
stream are) it carries `StatusIsOwn`, `OutputCaptured` and `OutcomeShown`.
`StatusIsOwn` takes `finished` in: the endpoint resets it, and only an earlier
thread's flag can come after that, which `overrun` tells.
`MissesAge` says that a miss, remembered or about to be, is at least as old as
the tool has been on disk, because the code stores a look under the time it
began; `MissesExpire` follows and is not inductive without it.

`ScanProofs` needs `HostAssumption`, `PortAssumption` and `ScanAssumption`, and
proves all seven invariants of `Scan` for any targets, scopes, servers, port
ranges, chunk sizes and bounds. `InOrder` ties a run's place to the stages that
are done. On it rest:

- `OneHostKept`: `Validated` says with which scope the target passed, `Current`
  that a run sees all of it, because scopes only grow. Pooled ports are ports of
  the one host (`PooledGranted`).
- `ListedPortsOnly`: a run goes on only with a target that has an allowed entry,
  so without an unrestricted one the list is not empty (`ListIsGiven`).
- `EachPortOnce`: `Counted` says that after n chunks exactly the ports placed
  below n times the size were looked at; a place is below the length of the
  list (`PlaceIn`, from the cardinality of a proper subset).
- `ReportedIsStored`: `Stored`; an analyzer's stage is not done while it works.
- `RisksComplete`: `Listed` says that what the session read is all there is. It
  holds because the web stage comes before the first read and a TLS stage that
  completes reports nothing (`HandshakeIsClean`).
- `PairReported` is inductive with types (`UpsertBacked`).

`AssessmentServiceProofs` needs `ThreadAssumption` (workers are not clients,
`NoThread` is neither) and `ServiceBounds` (the bounds are numbers, `NoReport` is
not a report), and proves all seven invariants of `AssessmentService` for any
threads, ids, requests, queue length and crashes, and any mix of queued and
synchronous starts. `ServiceInv` is inductive:

- `Placed` tells from where a thread stands what operation it is in and what it
  holds; `LockHeld` that the write lock is with a run whose assessment is there,
  since no purge commits under it; `Childless` that an id without a row has
  nothing else, so that whoever gets the id next starts from nothing.
- A step is reduced to what it does to one id (kept, given to a new assessment,
  purged) and to one thread (`Moves`). Most of the proofs only combine the two.
- What a thread learned is used after others have moved. Each of `RunsOwn` (the
  assessment it loaded), `RunsScanned` (its findings are stored), `CopiesOwn`
  (whose data it read), `RunsReport` (the report it goes on with) and
  `CopiesHold` (what the data hold) says of such knowledge that it is still so,
  or that `harm` remembers what was done about it. The properties are not
  inductive without them: `CompletedWasScanned` breaks at `Complete` unless the
  thread there is known to have stored its scan under the same assessment.
- `ActiveJobServed` follows the tasks: one leaves the queue only for a worker, and
  a worker leaves only with `Finish`, a lost write or a crash.

`AssessmentBookProofs` proves `BookKept`, step by step, and that meanwhile the
book is consistent: a COMPLETED assessment has its own scan stored and its own
report served, and both belong to one that exists (`BookConsistent`). Beside
`ServiceInv` this needs that an assessment has one id (`OneId`), that whatever
is stored or written is of an assessment already made (`Born`), without which a
new assessment could come to a report, and that a run about to complete has its
report under the id (`CompletesShown`). One step needs care: a purge hides a
report that is still on disk, because its id stands for nobody, so what
`Unlink` does later is nothing to the book.

The strengthenings were checked by TLC on the instance of `service` before they
were proved.

Only model-checked: the liveness properties (liveness under fairness is out of
reach of the prover used), and what is refuted. Every invariant and action property that a run shows
to hold has a theorem.

## Not modelled

- Migrations of old databases (`core/db.py` 59-104): they run once, before any
  thread exists. DDL runs outside the driver's transaction, so a crash between
  the new column and the tagging of the lab target leaves it untagged.
- The trimming of the install log (`_LogCapture`), risk scores, redaction,
  validation of requests' bodies, the syntax of hosts (`validate_host` is the
  constant `Rejected`): pure functions that unit tests reach.
- `finding_links.py`: it looks for a WEB_APPLICATION asset, and no code creates
  one, so findings are never linked.
- Read endpoints, the dashboard page, report layout, launch and set-up scripts,
  the lab: no state of their own, or I/O.

`PROJECT.json` lists each part with its reason.

## Plan

1. `JobQueue`, `StageLedger`, `Orchestrator`, `ToolInstall` and their runs: done.
2. `AssessmentService`, `ScopeRules`, `Scan` and their runs: done.
3. Proofs for `JobQueue`, `Orchestrator`, `ToolInstall` and `Scan`: done, see
   above.
4. `AssessmentBook`, and proofs for `AssessmentService` and its refinement: done.
5. `DuplicatesNeedHaste`, what holds of duplicated jobs: done.
6. `StaleOnlyIfMissed` and `ClearedMemoTrue`: the write lock in `JobQueue`, lost
   threads and the late flag in `ToolInstall`: done.
7. Next: what holds in place of the other refuted statements, as for duplicates.
   Candidates: activity is in scope when the ports an entry allows are allowed
   for every host of the scope; a deletion waits for the run when no start falls
   between its two halves; a job is not stuck when no write times out. TLC has
   the last word on each before it is proved.
