-------------------------- MODULE AssessmentService --------------------------
(***************************************************************************)
(* The API of apps/api/main.py around the runs: assessments are created,   *)
(* queued, run in the pool or in the request itself (background=false),    *)
(* reported on and deleted, all at once.  An id is a plain SQLite rowid,   *)
(* so a deleted assessment's id is given out again; SQLite has one writer, *)
(* and a run may hold it for as long as Nmap scans.                        *)
(*                                                                         *)
(* JobQueue opens up a submission and the heartbeat, Orchestrator the      *)
(* stages of a run.  Here a submission is one step, a run is one scan, its *)
(* checkpoint and its report, and assessments are told apart by the order  *)
(* in which they were made, whatever id they have.                         *)
(***************************************************************************)
EXTENDS Naturals, Sequences, SequencesExt

CONSTANTS
  Worker,     \* threads of the pool
  Client,     \* request threads
  NoThread,   \* who holds the write lock when nobody does
  NoReport,   \* what a report file holds that is not there
  Background, \* values of the start endpoint's background that clients send
  LastId,     \* bound: ids in use at once
  LastMade,   \* bound: assessments ever made
  MaxRequests,\* bound: requests and crashes
  MaxQueue,   \* bound: tasks waiting in the pool
  MaxCrashes  \* bound: crashes of the process

Thread == Worker \union Client
Id == 1..LastId
Made == 1..LastMade

Report ==
  [of : Made, holds : SUBSET Made, final : BOOLEAN, by : {"run", "report"}]

ASSUME ThreadAssumption == NoThread \notin Thread /\ Worker \intersect Client = {}
ASSUME ServiceBounds ==
  /\ LastId \in Nat \ {0} /\ LastMade \in Nat \ {0}
  /\ MaxQueue \in Nat /\ LastId <= MaxQueue
  /\ MaxRequests \in Nat /\ MaxCrashes \in Nat
  /\ Background \subseteq BOOLEAN
  /\ NoReport \notin Report

VARIABLES
  \* the database, by id
  row,    \* the assessment the id stands for, 0 without one
  state,  \* its status
  job,    \* the status of its job row
  saved,  \* the latest checkpoint lists the scan
  found,  \* assessments whose scans have rows stored under the id
  \* the report directory, by id
  file,
  \* the process
  queue,  \* tasks the pool has not started
  pc, op, \* where a thread stands, and in which operation
  on,     \* the id it is about
  mine,   \* the assessment a run loaded
  copy,   \* the data a report is written from
  doomed, \* ids whose report files a deletion has still to remove
  lock,   \* the thread whose transaction holds the write lock across a scan
  \* what the checks need to remember, and the counters behind the bounds
  harm,   \* <<what happened, to which assessment>>
  made, requests, crashes

dbVars     == <<row, state, job, saved, found>>
threadVars == <<pc, op, on, mine, copy, doomed>>
vars == <<dbVars, file, queue, threadVars, lock, harm, made, requests, crashes>>

Existing == {i \in Id : row[i] # 0}
Active == {"QUEUED", "RUNNING"}

Goto(t, there) == pc' = [pc EXCEPT ![t] = there]

\* The thread is done; what it held in memory is gone.
Leave(t) ==
  /\ Goto(t, "idle")
  /\ op' = [op EXCEPT ![t] = "none"]
  /\ on' = [on EXCEPT ![t] = 0]
  /\ mine' = [mine EXCEPT ![t] = 0]
  /\ copy' = [copy EXCEPT ![t] = NoReport]
  /\ doomed' = [doomed EXCEPT ![t] = {}]

Begin(t, what, i, there) ==
  /\ pc[t] = "idle"
  /\ Goto(t, there)
  /\ op' = [op EXCEPT ![t] = what]
  /\ on' = [on EXCEPT ![t] = i]
  /\ UNCHANGED <<mine, copy, doomed>>

\* A transaction waits for another one's lock, or raises after busy_timeout.
Free(t) == lock \in {NoThread, t}
Unlock(t) == lock' = IF lock = t THEN NoThread ELSE lock

-----------------------------------------------------------------------------
(* Requests that create, queue and start.                                  *)

\* SQLite's next rowid: one past the largest in use.
NewId(i) == i - 1 \in Existing \union {0} /\ \A j \in Existing : j < i

Create(c, i) ==
  /\ pc[c] = "idle" /\ Free(c)
  /\ made < LastMade /\ NewId(i)
  /\ row' = [row EXCEPT ![i] = made + 1]
  /\ state' = [state EXCEPT ![i] = "QUEUED"]
  /\ made' = made + 1
  /\ UNCHANGED <<job, saved, found, file, queue, threadVars, lock, harm, crashes>>

\* start with background=true, and resume.  A RUNNING job is taken where it looks
\* stale, which it may though a thread serves it: heartbeats fail for as long as
\* a scan holds the write lock (JobQueue tells when).
Submit(c, i) ==
  /\ TRUE \in Background
  /\ pc[c] = "idle" /\ Free(c) /\ i \in Existing /\ Len(queue) < MaxQueue
  /\ job' = [job EXCEPT ![i] = "QUEUED"]
  /\ queue' = Append(queue, i)
  /\ UNCHANGED <<row, state, saved, found, file, threadVars, lock, harm, made, crashes>>

\* start with background=false: the request thread runs the orchestrator, and
\* no job row says so.
StartHere(c, i) ==
  /\ FALSE \in Background
  /\ i \in Existing
  /\ Begin(c, "run", i, "load")
  /\ UNCHANGED <<dbVars, file, queue, lock, harm, made, crashes>>

Take(w) ==
  /\ queue # <<>>
  /\ Begin(w, "run", Head(queue), "claim")
  /\ queue' = Tail(queue)
  /\ UNCHANGED <<dbVars, file, lock, harm, made, requests, crashes>>

\* Variants named ...Slip are coding slips that TLC is shown to notice; no
\* action uses them.
SetJobInsertSlip(i, s) == job' = [job EXCEPT ![i] = s]

SetJobErrorSlip(i, s) ==
  job' = IF job[i] = "NONE" \/ s = "FAILED" THEN job ELSE [job EXCEPT ![i] = s]

\* A job row that is gone is left alone.
SetJob(i, s) == job' = IF job[i] = "NONE" THEN job ELSE [job EXCEPT ![i] = s]

Claim(w) ==
  /\ pc[w] = "claim" /\ Free(w)
  /\ SetJob(on[w], "RUNNING")
  /\ Goto(w, "load")
  /\ UNCHANGED <<row, state, saved, found, file, queue, op, on, mine, copy, doomed,
                 lock, harm, made, requests, crashes>>

Finish(w) ==
  /\ pc[w] \in {"COMPLETED", "FAILED"} /\ Free(w)
  /\ SetJob(on[w], pc[w])
  /\ Leave(w)
  /\ UNCHANGED <<row, state, saved, found, file, queue, lock, harm, made, requests, crashes>>

\* run_assessment returns or raises: a pool thread has the outcome to record.
RunEnds(t, outcome) ==
  IF t \in Worker
  THEN /\ Goto(t, outcome)
       /\ mine' = [mine EXCEPT ![t] = 0]
       /\ copy' = [copy EXCEPT ![t] = NoReport]
       /\ UNCHANGED <<op, on, doomed>>
  ELSE Leave(t)

-----------------------------------------------------------------------------
(* A run.  Its session knows the assessment by id alone: a write finds     *)
(* whatever row has the id by then, and raises when there is none.         *)

Gone(t) == row[on[t]] = 0

Load(t) ==
  LET i == on[t] IN
  /\ pc[t] = "load"
  /\ IF Gone(t) \/ state[i] = "COMPLETED"
     THEN /\ RunEnds(t, IF Gone(t) THEN "FAILED" ELSE "COMPLETED")
          /\ UNCHANGED state
     ELSE /\ Free(t)
          /\ state' = [state EXCEPT ![i] = "RUNNING"]
          /\ mine' = [mine EXCEPT ![t] = row[i]]
          /\ Goto(t, IF saved[i] THEN "read" ELSE "scan")
          /\ UNCHANGED <<op, on, copy, doomed>>
  /\ UNCHANGED <<row, job, saved, found, file, queue, lock, harm, made, requests, crashes>>

\* With a new HOST asset flushed, the tool runs under the write lock.
Scan(t) ==
  /\ pc[t] = "scan"
  /\ \/ UNCHANGED lock
     \/ lock = NoThread /\ ~Gone(t) /\ lock' = t
  /\ Goto(t, "store")
  /\ UNCHANGED <<dbVars, file, queue, op, on, mine, copy, doomed, harm, made, requests, crashes>>

Store(t) ==
  LET i == on[t] IN
  /\ pc[t] = "store" /\ Free(t)
  /\ IF Gone(t)
     THEN RunEnds(t, "FAILED") /\ UNCHANGED found
     ELSE /\ found' = [found EXCEPT ![i] = @ \union {mine[t]}]
          /\ Goto(t, "save")
          /\ UNCHANGED <<op, on, mine, copy, doomed>>
  /\ Unlock(t)
  /\ UNCHANGED <<row, state, job, saved, file, queue, harm, made, requests, crashes>>

\* The tool raises, and the handler records it if the row is still there; what
\* was flushed under the lock is committed with it.
ScanFails(t) ==
  /\ pc[t] = "store" /\ Free(t)
  /\ state' = IF Gone(t) THEN state ELSE [state EXCEPT ![on[t]] = "FAILED"]
  /\ found' = IF lock = t THEN [found EXCEPT ![on[t]] = @ \union {mine[t]}] ELSE found
  /\ RunEnds(t, "FAILED")
  /\ Unlock(t)
  /\ UNCHANGED <<row, job, saved, file, queue, harm, made, requests, crashes>>

Save(t) ==
  /\ pc[t] = "save" /\ Free(t)
  /\ IF Gone(t)
     THEN RunEnds(t, "FAILED") /\ UNCHANGED saved
     ELSE /\ saved' = [saved EXCEPT ![on[t]] = TRUE]
          /\ Goto(t, "read")
          /\ UNCHANGED <<op, on, mine, copy, doomed>>
  /\ UNCHANGED <<row, state, job, found, file, queue, lock, harm, made, requests, crashes>>

\* A row written over by the next assessment of the id is not noticed.
Complete(t) ==
  /\ pc[t] = "complete" /\ Free(t)
  /\ state' = IF Gone(t) THEN state ELSE [state EXCEPT ![on[t]] = "COMPLETED"]
  /\ RunEnds(t, IF Gone(t) THEN "FAILED" ELSE "COMPLETED")
  /\ UNCHANGED <<row, job, saved, found, file, queue, lock, harm, made, requests, crashes>>

-----------------------------------------------------------------------------
(* build_report, at the end of a run and for POST /reports: read, render,  *)
(* write.  Only the run overrides the status.                              *)

StartReport(c, i) ==
  /\ Begin(c, "report", i, "read")
  /\ UNCHANGED <<dbVars, file, queue, lock, harm, made, crashes>>

\* The status the report will show as COMPLETED.
SaysCompletedSlip(t) == state[on[t]] = "COMPLETED"

SaysCompleted(t) == op[t] = "run" \/ state[on[t]] = "COMPLETED"

NoData(t) == [of |-> row[on[t]], holds |-> {}, final |-> FALSE, by |-> op[t]]

PartSlip(t) ==
  IF pc[t] = "read" THEN [NoData(t) EXCEPT !.holds = found[on[t]]]
                    ELSE [copy[t] EXCEPT !.final = SaysCompleted(t)]

\* _data: the assessment with its status, then, in queries of their own that
\* may see later commits, what is stored under its id.
Part(t) ==
  IF pc[t] = "read" THEN [NoData(t) EXCEPT !.final = SaysCompleted(t)]
                    ELSE [copy[t] EXCEPT !.holds = found[on[t]]]

ReadData(t) ==
  /\ pc[t] \in {"read", "gather"}
  /\ \/ Gone(t) /\ RunEnds(t, "FAILED")
     \/ /\ Gone(t) => pc[t] = "gather"
        /\ copy' = [copy EXCEPT ![t] = Part(t)]
        /\ Goto(t, IF pc[t] = "read" THEN "gather" ELSE "write")
        /\ UNCHANGED <<op, on, mine, doomed>>
  /\ UNCHANGED <<dbVars, file, queue, lock, harm, made, requests, crashes>>

WriteReport(t) ==
  /\ pc[t] = "write"
  /\ file' = [file EXCEPT ![on[t]] = copy[t]]
  /\ IF op[t] = "report"
     THEN Leave(t)
     ELSE /\ Goto(t, "complete")
          /\ copy' = [copy EXCEPT ![t] = NoReport]
          /\ UNCHANGED <<op, on, mine, doomed>>
  /\ UNCHANGED <<dbVars, queue, lock, harm, made, requests, crashes>>

-----------------------------------------------------------------------------
(* Deletion of an assessment, or of a target with all of its assessments   *)
(* (they are taken to be one target's): check, purge, remove the files.    *)

Deletable(i) == job[i] \notin Active

DeleteAssessment(c, i) ==
  /\ i \in Existing /\ Deletable(i)
  /\ Begin(c, "delete", i, "purge")
  /\ UNCHANGED <<dbVars, file, queue, lock, harm, made, crashes>>

DeleteTarget(c) ==
  /\ Existing # {} /\ \A i \in Existing : Deletable(i)
  /\ Begin(c, "delete all", 0, "purge")
  /\ UNCHANGED <<dbVars, file, queue, lock, harm, made, crashes>>

\* The target's assessments are listed again after the check.
Listed(c) == IF op[c] = "delete all" THEN Existing ELSE {on[c]}

RunGoing(t, i) == on[t] = i /\ mine[t] # 0 /\ mine[t] = row[i]
ReportGoing(t, i) == pc[t] \in {"gather", "write"} /\ on[t] = i /\ copy[t].of = row[i]

\* What a purge does to others: a run loses its rows, a report its subject.
PurgeHarm(ids) ==
  {<<"yank", row[i]>> : i \in {j \in ids : \E t \in Thread : RunGoing(t, j)}}
  \union {<<"leak", row[i]>> : i \in {j \in ids : \E t \in Thread : ReportGoing(t, j)}}

PurgeFindingsSlip(ids) ==
  /\ row' = [i \in Id |-> IF i \in ids THEN 0 ELSE row[i]]
  /\ state' = [i \in Id |-> IF i \in ids THEN "NONE" ELSE state[i]]
  /\ job' = [i \in Id |-> IF i \in ids THEN "NONE" ELSE job[i]]
  /\ saved' = [i \in Id |-> IF i \in ids THEN FALSE ELSE saved[i]]
  /\ UNCHANGED found

PurgeCheckpointsSlip(ids) ==
  /\ row' = [i \in Id |-> IF i \in ids THEN 0 ELSE row[i]]
  /\ state' = [i \in Id |-> IF i \in ids THEN "NONE" ELSE state[i]]
  /\ job' = [i \in Id |-> IF i \in ids THEN "NONE" ELSE job[i]]
  /\ found' = [i \in Id |-> IF i \in ids THEN {} ELSE found[i]]
  /\ UNCHANGED saved

\* Every DELETE of the purge, in one transaction.
PurgeRows(ids) ==
  /\ row' = [i \in Id |-> IF i \in ids THEN 0 ELSE row[i]]
  /\ state' = [i \in Id |-> IF i \in ids THEN "NONE" ELSE state[i]]
  /\ job' = [i \in Id |-> IF i \in ids THEN "NONE" ELSE job[i]]
  /\ saved' = [i \in Id |-> IF i \in ids THEN FALSE ELSE saved[i]]
  /\ found' = [i \in Id |-> IF i \in ids THEN {} ELSE found[i]]

Purge(c) ==
  /\ pc[c] = "purge" /\ Free(c)
  /\ PurgeRows(Listed(c))
  /\ harm' = harm \union PurgeHarm(Listed(c))
  /\ doomed' = [doomed EXCEPT ![c] = Listed(c)]
  /\ Goto(c, "unlink")
  /\ UNCHANGED <<file, queue, op, on, mine, copy, lock, made, requests, crashes>>

Reports(ids) == {i \in ids : file[i] # NoReport}
LeakOf(ids) == {<<"leak", file[i].of>> : i \in Reports(ids)}
ClobberOf(ids) == {<<"clobber", row[i]>> : i \in ids \intersect Existing}

RemoveReportsSlip(c, kept) == UNCHANGED file

\* _delete_generated_reports: a file that cannot be removed is left.
RemoveReports(c, kept) ==
  file' = [i \in Id |-> IF i \in doomed[c] \ kept THEN NoReport ELSE file[i]]

Unlink(c) ==
  /\ pc[c] = "unlink"
  /\ \E kept \in SUBSET Reports(doomed[c]) :
       /\ RemoveReports(c, kept)
       /\ harm' = harm \union LeakOf(kept) \union ClobberOf(Reports(doomed[c]) \ kept)
  /\ Leave(c)
  /\ UNCHANGED <<dbVars, queue, lock, made, requests, crashes>>

-----------------------------------------------------------------------------
(* A thread that waits for the lock longer than busy_timeout gets an error *)
(* from its transaction.  The handler of a run then records nothing: its   *)
(* session is unusable, or meets the same lock.  Around a run the task     *)
(* dies as it stands.                                                      *)

GivesUp(t) ==
  /\ ~Free(t)
  /\ IF pc[t] \in {"load", "scan", "store", "save", "complete"}
     THEN RunEnds(t, "FAILED") /\ UNCHANGED harm
     ELSE /\ pc[t] \in {"claim", "COMPLETED", "FAILED", "purge"}
          /\ harm' = harm \union {<<"timeout", row[i]>> : i \in {on[t]} \intersect Existing}
          /\ Leave(t)
  /\ UNCHANGED <<dbVars, file, queue, lock, made, requests, crashes>>

(***************************************************************************)
(* The process dies and starts again: RUNNING jobs that look stale by then *)
(* and all QUEUED ones are submitted.                                      *)
(***************************************************************************)
Restart ==
  /\ crashes < MaxCrashes /\ requests < MaxRequests
  /\ crashes' = crashes + 1 /\ requests' = requests + 1
  /\ \E stale \in SUBSET {i \in Id : job[i] = "RUNNING"} :
       /\ job' = [i \in Id |-> IF i \in stale THEN "QUEUED" ELSE job[i]]
       /\ queue' = SetToSeq({i \in Id : job'[i] = "QUEUED"})
  /\ pc' = [t \in Thread |-> "idle"] /\ op' = [t \in Thread |-> "none"]
  /\ on' = [t \in Thread |-> 0] /\ mine' = [t \in Thread |-> 0]
  /\ copy' = [t \in Thread |-> NoReport] /\ doomed' = [t \in Thread |-> {}]
  /\ lock' = NoThread
  /\ harm' = harm \union UNION {LeakOf(doomed[t]) : t \in Thread}
  /\ UNCHANGED <<row, state, saved, found, file, made>>

-----------------------------------------------------------------------------
Init ==
  /\ row = [i \in Id |-> 0] /\ state = [i \in Id |-> "NONE"]
  /\ job = [i \in Id |-> "NONE"] /\ saved = [i \in Id |-> FALSE]
  /\ found = [i \in Id |-> {}] /\ file = [i \in Id |-> NoReport]
  /\ queue = <<>> /\ lock = NoThread
  /\ pc = [t \in Thread |-> "idle"] /\ op = [t \in Thread |-> "none"]
  /\ on = [t \in Thread |-> 0] /\ mine = [t \in Thread |-> 0]
  /\ copy = [t \in Thread |-> NoReport] /\ doomed = [t \in Thread |-> {}]
  /\ harm = {} /\ made = 0 /\ requests = 0 /\ crashes = 0

Request(c) ==
  /\ requests < MaxRequests
  /\ requests' = requests + 1
  /\ \/ \E i \in Id : Create(c, i) \/ Submit(c, i) \/ StartHere(c, i)
     \/ \E i \in Id : StartReport(c, i) \/ DeleteAssessment(c, i)
     \/ DeleteTarget(c)

\* Steps of a thread that is in an operation.
Continue(t) ==
  \/ Load(t) \/ Scan(t) \/ Store(t) \/ ScanFails(t) \/ Save(t) \/ Complete(t)
  \/ ReadData(t) \/ WriteReport(t) \/ Purge(t) \/ Unlink(t) \/ GivesUp(t)

Next ==
  \/ \E c \in Client : Request(c)
  \/ \E w \in Worker : Take(w) \/ Claim(w) \/ Finish(w)
  \/ \E t \in Thread : Continue(t)
  \/ Restart

Spec == Init /\ [][Next]_vars

-----------------------------------------------------------------------------
(* Type invariant.                                                         *)

Outcome == {"COMPLETED", "FAILED"}

\* Every variable keeps its kind of value, and an id without a row has no
\* child rows (foreign keys).
TypeOK ==
  /\ row \in [Id -> 0..LastMade]
  /\ state \in [Id -> {"NONE"} \union Active \union Outcome]
  /\ job \in [Id -> {"NONE"} \union Active \union Outcome]
  /\ saved \in [Id -> BOOLEAN] /\ found \in [Id -> SUBSET Made]
  /\ file \in [Id -> {NoReport} \union Report]
  /\ queue \in Seq(Id)
  /\ pc \in [Thread -> {"idle", "claim", "load", "scan", "store", "save", "read", "gather",
                        "write", "complete", "purge", "unlink"} \union Outcome]
  /\ op \in [Thread -> {"none", "run", "report", "delete", "delete all"}]
  /\ on \in [Thread -> 0..LastId] /\ mine \in [Thread -> 0..LastMade]
  /\ copy \in [Thread -> {NoReport} \union Report]
  /\ doomed \in [Thread -> SUBSET Id]
  /\ lock \in Thread \union {NoThread}
  /\ harm \subseteq {"yank", "leak", "clobber", "timeout"} \X (0..LastMade)
  /\ made \in 0..LastMade /\ requests \in 0..MaxRequests /\ crashes \in 0..MaxCrashes
  /\ \A i \in Id \ Existing : state[i] = "NONE" /\ job[i] = "NONE" /\ ~saved[i] /\ found[i] = {}

-----------------------------------------------------------------------------
(* Safety.                                                                 *)

Yanked(n) == <<"yank", n>> \in harm

\* Under an id given out again there are no rows of an earlier assessment's
\* scan, unless that assessment was purged while its run was going on: then
\* the run goes on storing under the id (main.py:283, models.py:43).
OwnFindings == \A i \in Id : \A n \in found[i] : n = row[i] \/ Yanked(n)

\* A COMPLETED assessment was really scanned: neither its own row nor the
\* checkpoint it resumed from is the work of a purged assessment's run.
CompletedWasScanned ==
  \A i \in Id : state[i] = "COMPLETED" => row[i] \in found[i] \/ \E n \in Made : Yanked(n)

\* /reports/view serves what lies under the id.  It is the report of the
\* assessment that has the id now, except while a deletion is about to remove
\* it, or when the deletion failed to: a file in use, a crash, or a report that
\* was being written when the purge came (main.py:120, 737, 758).
ReportOfItsOwner ==
  \A i \in Id : file[i] # NoReport =>
    \/ file[i].of = row[i]
    \/ <<"leak", file[i].of>> \in harm
    \/ \E c \in Client : pc[c] = "unlink" /\ i \in doomed[c]

\* The report of a COMPLETED assessment is there, says so and holds all it
\* found, unless POST /reports wrote over it what it had read before, or a late
\* removal took it away (main.py:740, orchestrator.py:404).
FinalReport ==
  \A i \in Id : state[i] = "COMPLETED" =>
    \/ \E n \in Made : Yanked(n) \/ <<"clobber", n>> \in harm
    \/ /\ file[i] # NoReport
       /\ file[i].by = "report" \/ (file[i].final /\ file[i].holds = found[i])

\* A report that shows an assessment as COMPLETED holds what its scan found: the
\* status is read before the findings, so a run that ends in between only adds
\* to them (generator.py:16-20).  Excepted are assessments purged meanwhile.
FinalHoldsAll ==
  \A i \in Id : file[i] # NoReport /\ file[i].final =>
    \/ file[i].of \in file[i].holds
    \/ <<"leak", file[i].of>> \in harm
    \/ \E n \in Made : Yanked(n)

Served(i) == (\E w \in Worker : on[w] = i) \/ i \in ToSet(queue)

\* A job that says QUEUED or RUNNING has a task or a thread, unless the process
\* crashed or the thread gave up waiting for the write lock (jobs.py:151, 208).
\* Neither a reused id nor a deletion nor a synchronous run leaves one behind.
ActiveJobServed ==
  \A i \in Existing :
    job[i] \in Active => Served(i) \/ crashes > 0 \/ <<"timeout", row[i]>> \in harm

\* Nothing was done to an assessment that somebody was at work on.
Undisturbed ==
  \A n \in Made : ~Yanked(n) /\ <<"leak", n>> \notin harm /\ <<"clobber", n>> \notin harm

ScannedIds == {i \in Existing : row[i] \in found[i]}
ReportedIds == {i \in Existing : file[i] # NoReport /\ file[i].of = row[i]}
CompletedIds == {i \in Existing : state[i] = "COMPLETED"}

Rows(ids) == {row[i] : i \in ids}

\* What AssessmentBook sees of the rows: which assessments they are of.
Book ==
  INSTANCE AssessmentBook
  WITH Assessment <- Made,
       opened     <- 1..made,
       there      <- Rows(Existing),
       scanned    <- Rows(ScannedIds),
       reported   <- Rows(ReportedIds),
       completed  <- Rows(CompletedIds)

\* As long as nobody is disturbed, ids given out again, requests and runs that
\* overlap and deletions do to assessments what AssessmentBook promises: none is
\* completed by another one's scan or report, or comes back (main.py:265-298,
\* orchestrator.py:404).
BookKept == Book!BookInit /\ [][Undisturbed' => Book!BookNext]_(Book!bookVars)

\* "... must be recorded so the Job does not remain stuck in RUNNING"
\* (jobs.py:192).
JobNotStuck == \A i \in Id : job[i] = "RUNNING" => \E w \in Worker : on[w] = i

\* "Queued/running scans refuse deletion until they finish." (README.md:65)
DeletionWaitsForRun ==
  [][\A i \in Existing : row'[i] = 0 => \A t \in Thread : ~RunGoing(t, i)]_vars

=============================================================================
