------------------------------ MODULE JobQueue ------------------------------
(***************************************************************************)
(* The persistent job queue of core/jobs.py: one row of the jobs table per *)
(* assessment, a thread pool that runs the assessments, one heartbeat      *)
(* thread per run, and the recovery of jobs whose worker disappeared.      *)
(* The callers are the API's request threads (start, resume, delete) and   *)
(* the start-up code of apps/api/main.py.  A run itself is one step that   *)
(* ends well or badly; module Orchestrator opens it up.                    *)
(*                                                                         *)
(* A step is one database transaction or one move of a thread between two  *)
(* of them.  The server is one process: a crash takes every thread and the *)
(* pool's queue with it and leaves the database.                           *)
(***************************************************************************)
EXTENDS Naturals, Sequences

CONSTANTS
  Assessment,      \* assessment ids present when the history starts
  Worker,          \* threads of the pool (max_workers=2 in the code)
  Client,          \* request threads that can be in the API at once
  Boot,            \* the start-up code, a caller of submit_assessment
  NoAssessment,    \* what an idle thread is about
  HeartbeatEvery,  \* job_heartbeat_seconds, in ticks
  BeatBy,          \* a beat that is due is written, or has failed, by then
  FinishWithin,    \* join timeout and final write, in ticks
  StaleAfter,      \* job_stale_seconds, in ticks
  Tolerated,       \* beats in a row that may fail before a live job looks stale
  MaxQueue,        \* bound: tasks waiting in the pool
  MaxCrashes,      \* bound: crashes of the process
  MaxDbErrors      \* bound: transactions that raise for another reason than the lock

ASSUME CallerAssumption == Boot \notin Client /\ NoAssessment \notin Assessment

(***************************************************************************)
(* The settings fit together, which makes Tolerated what they tolerate.    *)
(* The defaults of core/config.py are a beat every 15 s against 120 s.     *)
(* How many beats fail is the system's business, and not bounded.          *)
(***************************************************************************)
ASSUME TimingAssumption ==
  /\ HeartbeatEvery \in Nat \ {0}
  /\ BeatBy \in Nat /\ HeartbeatEvery <= BeatBy
  /\ FinishWithin \in Nat
  /\ Tolerated \in Nat
  /\ StaleAfter \in Nat
  /\ Tolerated * BeatBy + BeatBy + FinishWithin <= StaleAfter

ASSUME BoundAssumption ==
  MaxQueue \in Nat /\ MaxCrashes \in Nat /\ MaxDbErrors \in Nat

VARIABLES
  \* the database
  rows,      \* assessments that exist
  status,    \* status of the job row of an assessment, "NONE" without a row
  age,       \* time since updated_at, kept while the job is RUNNING
  \* the process
  server,    \* "down", "starting" or "up"
  backlog,   \* queued jobs the start-up code has still to submit
  queue,     \* tasks the pool has not started
  pc,        \* where a pool thread stands
  on,        \* the assessment its task is about
  outcome,   \* how its run ended
  beating,   \* its heartbeat has not given up
  timer,     \* time since its last beat, or since its run ended
  missed,    \* beats that failed in a row, counted to Tolerated + 1
  scanning,  \* the thread whose run holds the database's write lock, if any
  cpc,       \* where a caller stands
  about,     \* the assessment it submits or deletes
  seen,      \* the job status it read
  \* history: what became of transactions and processes
  dropped,   \* assessments of which a claim or a final write raised
  crashes, dbErrors

dbVars     == <<rows, status, age>>
poolVars   == <<queue, pc, on, outcome, beating, timer, missed, scanning>>
callerVars == <<cpc, about, seen>>
envVars    == <<dropped, crashes, dbErrors>>
vars == <<dbVars, server, backlog, poolVars, callerVars, envVars>>

Caller == Client \union {Boot}
Finished == {"COMPLETED", "FAILED"}
Status == {"NONE", "QUEUED", "RUNNING"} \union Finished

Stale(a) == status[a] = "RUNNING" /\ age[a] > StaleAfter

SetJob(a, s) ==
  /\ status' = [status EXCEPT ![a] = s]
  /\ age' = [age EXCEPT ![a] = 0]

\* Variants named ...Slip are coding slips that TLC is shown to notice; no
\* action uses them.
TouchSlip(a) == UNCHANGED <<status, age>>

Touch(a) == age' = [age EXCEPT ![a] = 0] /\ UNCHANGED status

(***************************************************************************)
(* SQLite has one writer.  A transaction that writes waits until no run    *)
(* holds the lock, or raises after the busy timeout; others, for any other *)
(* reason, raise up to MaxDbErrors times.                                  *)
(***************************************************************************)
Unlocked == scanning = {}

Raises ==
  \/ ~Unlocked /\ UNCHANGED dbErrors
  \/ Unlocked /\ dbErrors < MaxDbErrors /\ dbErrors' = dbErrors + 1

-----------------------------------------------------------------------------
(***************************************************************************)
(* Start-up: recover_stale_jobs, then the select of the queued jobs, then  *)
(* submit_assessment for each; requests are served after that.             *)
(***************************************************************************)
RecoverStaleJobsSlip == UNCHANGED <<status, age>>

RecoverStaleJobs ==
  /\ status' = [a \in Assessment |-> IF Stale(a) THEN "QUEUED" ELSE status[a]]
  /\ age' = [a \in Assessment |-> IF Stale(a) THEN 0 ELSE age[a]]

Startup ==
  /\ server = "down"
  /\ server' = "starting"
  /\ RecoverStaleJobs
  /\ backlog' = {a \in Assessment : status'[a] = "QUEUED"}
  /\ UNCHANGED <<rows, poolVars, callerVars, envVars>>

Ready ==
  /\ server = "starting" /\ backlog = {}
  /\ server' = "up"
  /\ UNCHANGED <<dbVars, backlog, poolVars, callerVars, envVars>>

-----------------------------------------------------------------------------
(***************************************************************************)
(* submit_assessment: a read, a commit of what the read decided, and the   *)
(* hand-over to the pool.  None of it holds the module's lock.             *)
(***************************************************************************)
MaySubmit(c, a) ==
  IF c = Boot
  THEN server = "starting" /\ a \in backlog
  ELSE server = "up" /\ a \in rows /\ Len(queue) < MaxQueue

ActiveJobSlip(a) == status[a] \in {"QUEUED", "RUNNING"}

\* A RUNNING job that is not stale is left alone.
ActiveJob(a) == status[a] = "RUNNING" /\ ~Stale(a)

\* The request is answered, or the start-up loop moves to its next job.
Release(c, a) ==
  /\ cpc' = [cpc EXCEPT ![c] = "idle"]
  /\ about' = [about EXCEPT ![c] = NoAssessment]
  /\ seen' = [seen EXCEPT ![c] = "NONE"]
  /\ backlog' = IF c = Boot THEN backlog \ {a} ELSE backlog

SubmitRead(c, a) ==
  /\ cpc[c] = "idle" /\ MaySubmit(c, a)
  /\ IF ActiveJob(a)
     THEN Release(c, a)
     ELSE /\ cpc' = [cpc EXCEPT ![c] = "commit"]
          /\ about' = [about EXCEPT ![c] = a]
          /\ seen' = [seen EXCEPT ![c] = status[a]]
          /\ UNCHANGED backlog
  /\ UNCHANGED <<dbVars, server, poolVars, envVars>>

\* An insert needs the assessment and no job row; an update needs the row.
RowsAllow(a, old) ==
  IF old = "NONE" THEN a \in rows /\ status[a] = "NONE" ELSE status[a] # "NONE"

\* A job read as QUEUED keeps the status it has by now.
WriteQueued(a, old) == IF old = "QUEUED" THEN Touch(a) ELSE SetJob(a, "QUEUED")

SubmitCommit(c) ==
  LET a == about[c] IN
  /\ cpc[c] = "commit" /\ Unlocked
  /\ IF RowsAllow(a, seen[c])
     THEN /\ WriteQueued(a, seen[c])
          /\ cpc' = [cpc EXCEPT ![c] = "enqueue"]
          /\ UNCHANGED <<backlog, about, seen>>
     ELSE Release(c, a) /\ UNCHANGED <<status, age>>
  /\ UNCHANGED <<rows, server, poolVars, envVars>>

\* The request is answered with an error.  A start-up that raises does not come
\* up: that is a Crash.
SubmitFails(c) ==
  /\ c # Boot /\ cpc[c] = "commit" /\ Raises
  /\ Release(c, about[c])
  /\ UNCHANGED <<dbVars, server, poolVars, dropped, crashes>>

Enqueue(c) ==
  /\ cpc[c] = "enqueue"
  /\ queue' = Append(queue, about[c])
  /\ Release(c, about[c])
  /\ UNCHANGED <<dbVars, server, pc, on, outcome, beating, timer, missed, scanning,
                 envVars>>

-----------------------------------------------------------------------------
(***************************************************************************)
(* worker(): claim the job, start the heartbeat, run, stop the heartbeat,  *)
(* record the outcome.                                                     *)
(***************************************************************************)
Take(w) ==
  /\ pc[w] = "idle" /\ queue # <<>>
  /\ pc' = [pc EXCEPT ![w] = "claim"]
  /\ on' = [on EXCEPT ![w] = Head(queue)]
  /\ queue' = Tail(queue)
  /\ UNCHANGED <<dbVars, server, backlog, outcome, beating, timer, missed, scanning,
                 callerVars, envVars>>

StartHeartbeat(w) ==
  /\ beating' = [beating EXCEPT ![w] = TRUE]
  /\ timer' = [timer EXCEPT ![w] = 0]
  /\ missed' = [missed EXCEPT ![w] = 0]

\* Read and written under the module's lock.  Whatever the row says, it says
\* RUNNING from here on.
ClaimJob(a) ==
  IF status[a] # "NONE" THEN SetJob(a, "RUNNING") ELSE UNCHANGED <<status, age>>

Claim(w) ==
  /\ pc[w] = "claim"
  /\ status[on[w]] # "NONE" => Unlocked
  /\ pc' = [pc EXCEPT ![w] = "running"]
  /\ ClaimJob(on[w])
  /\ StartHeartbeat(w)
  /\ UNCHANGED <<rows, server, backlog, queue, on, outcome, scanning, callerVars,
                 envVars>>

EndTask(w) ==
  /\ pc' = [pc EXCEPT ![w] = "idle"]
  /\ on' = [on EXCEPT ![w] = NoAssessment]
  /\ outcome' = [outcome EXCEPT ![w] = "NONE"]
  /\ beating' = [beating EXCEPT ![w] = FALSE]
  /\ timer' = [timer EXCEPT ![w] = 0]
  /\ missed' = [missed EXCEPT ![w] = 0]

\* The claim stands outside the worker's try: the task dies, the row is left.
ClaimFails(w) ==
  /\ pc[w] = "claim" /\ Raises
  /\ dropped' = dropped \union {on[w]}
  /\ EndTask(w)
  /\ UNCHANGED <<dbVars, server, backlog, queue, scanning, callerVars, crashes>>

BeatDue(w) == pc[w] = "running" /\ beating[w] /\ timer[w] >= HeartbeatEvery

\* The heartbeat gives up for good when the job is gone or not RUNNING.
Beat(w) ==
  /\ BeatDue(w)
  /\ status[on[w]] = "RUNNING" => Unlocked
  /\ IF status[on[w]] = "RUNNING"
     THEN Touch(on[w]) /\ UNCHANGED beating
     ELSE beating' = [beating EXCEPT ![w] = FALSE] /\ UNCHANGED <<status, age>>
  /\ timer' = [timer EXCEPT ![w] = 0]
  /\ missed' = [missed EXCEPT ![w] = 0]
  /\ UNCHANGED <<rows, server, backlog, queue, pc, on, outcome, scanning, callerVars,
                 envVars>>

\* The exception is swallowed, however often it comes.  It comes for as long as
\* a run scans, the heartbeat's own run included: its transaction is another.
BeatFails(w) ==
  /\ BeatDue(w) /\ Raises
  /\ timer' = [timer EXCEPT ![w] = 0]
  /\ missed' = [missed EXCEPT ![w] = IF @ <= Tolerated THEN @ + 1 ELSE @]
  /\ UNCHANGED <<dbVars, server, backlog, queue, pc, on, outcome, beating, scanning,
                 callerVars, dropped, crashes>>

\* A new HOST asset is flushed, and the Nmap scan follows before the commit.
\* Which runs have a new HOST is left open.  The flush of a run that finds the
\* lock taken raises, and with it the run.
FlushHost(w) ==
  /\ pc[w] = "running" /\ Unlocked
  /\ scanning' = {w}
  /\ UNCHANGED <<dbVars, server, backlog, queue, pc, on, outcome, beating, timer,
                 missed, callerVars, envVars>>

CommitHost(w) ==
  /\ w \in scanning
  /\ scanning' = {}
  /\ UNCHANGED <<dbVars, server, backlog, queue, pc, on, outcome, beating, timer,
                 missed, callerVars, envVars>>

RunEnds(w) ==
  /\ pc[w] = "running"
  /\ pc' = [pc EXCEPT ![w] = "finish"]
  /\ \E o \in Finished : outcome' = [outcome EXCEPT ![w] = o]
  /\ timer' = [timer EXCEPT ![w] = 0]
  /\ scanning' = scanning \ {w}
  /\ UNCHANGED <<dbVars, server, backlog, queue, on, beating, missed,
                 callerVars, envVars>>

FinishJobSlip(a, o) ==
  IF o = "COMPLETED" /\ status[a] # "NONE"
  THEN SetJob(a, o) ELSE UNCHANGED <<status, age>>

FinishJobInsertSlip(a, o) == SetJob(a, o)

FinishJob(a, o) ==
  IF status[a] # "NONE" THEN SetJob(a, o) ELSE UNCHANGED <<status, age>>

Finish(w) ==
  /\ pc[w] = "finish"
  /\ status[on[w]] # "NONE" => Unlocked
  /\ FinishJob(on[w], outcome[w])
  /\ EndTask(w)
  /\ UNCHANGED <<rows, server, backlog, queue, scanning, callerVars, envVars>>

\* The final write raises: the job keeps the status it has.
FinishFails(w) ==
  /\ pc[w] = "finish" /\ Raises
  /\ dropped' = dropped \union {on[w]}
  /\ EndTask(w)
  /\ UNCHANGED <<dbVars, server, backlog, queue, scanning, callerVars, crashes>>

-----------------------------------------------------------------------------
(***************************************************************************)
(* delete_assessment: job_status in a session of its own, then the purge   *)
(* of the assessment's rows, the job among them, in one transaction.       *)
(***************************************************************************)
Deletable(a) == status[a] \notin {"QUEUED", "RUNNING"}

DeleteCheck(c, a) ==
  /\ server = "up" /\ cpc[c] = "idle" /\ a \in rows
  /\ Deletable(a)
  /\ cpc' = [cpc EXCEPT ![c] = "purge"]
  /\ about' = [about EXCEPT ![c] = a]
  /\ UNCHANGED <<dbVars, server, backlog, poolVars, seen, envVars>>

DeleteCommit(c) ==
  /\ cpc[c] = "purge" /\ Unlocked
  /\ rows' = rows \ {about[c]}
  /\ SetJob(about[c], "NONE")
  /\ Release(c, about[c])
  /\ UNCHANGED <<server, poolVars, envVars>>

DeleteFails(c) ==
  /\ cpc[c] = "purge" /\ Raises
  /\ Release(c, about[c])
  /\ UNCHANGED <<dbVars, server, poolVars, dropped, crashes>>

-----------------------------------------------------------------------------
(* The process dies; time passes, whether or not it runs.                  *)

Crash ==
  /\ server # "down" /\ crashes < MaxCrashes
  /\ crashes' = crashes + 1
  /\ server' = "down"
  /\ backlog' = {} /\ queue' = <<>>
  /\ pc' = [w \in Worker |-> "idle"]
  /\ on' = [w \in Worker |-> NoAssessment]
  /\ outcome' = [w \in Worker |-> "NONE"]
  /\ beating' = [w \in Worker |-> FALSE]
  /\ timer' = [w \in Worker |-> 0]
  /\ missed' = [w \in Worker |-> 0]
  /\ scanning' = {}
  /\ cpc' = [c \in Caller |-> "idle"]
  /\ about' = [c \in Caller |-> NoAssessment]
  /\ seen' = [c \in Caller |-> "NONE"]
  /\ UNCHANGED <<dbVars, dropped, dbErrors>>

Timed(w) == pc[w] = "finish" \/ (pc[w] = "running" /\ beating[w])

OnTime(w) ==
  /\ pc[w] = "running" /\ beating[w] => timer[w] < BeatBy
  /\ pc[w] = "finish" => timer[w] < FinishWithin

Tick ==
  /\ \A w \in Worker : OnTime(w)
  /\ age' = [a \in Assessment |->
              IF status[a] = "RUNNING" /\ ~Stale(a) THEN age[a] + 1 ELSE age[a]]
  /\ timer' = [w \in Worker |-> IF Timed(w) THEN timer[w] + 1 ELSE timer[w]]
  /\ UNCHANGED <<rows, status, server, backlog, queue, pc, on, outcome, beating,
                 missed, scanning, callerVars, envVars>>

-----------------------------------------------------------------------------
Init ==
  /\ rows = Assessment
  /\ status = [a \in Assessment |-> "NONE"]
  /\ age = [a \in Assessment |-> 0]
  /\ server = "down" /\ backlog = {} /\ queue = <<>>
  /\ pc = [w \in Worker |-> "idle"]
  /\ on = [w \in Worker |-> NoAssessment]
  /\ outcome = [w \in Worker |-> "NONE"]
  /\ beating = [w \in Worker |-> FALSE]
  /\ timer = [w \in Worker |-> 0]
  /\ missed = [w \in Worker |-> 0]
  /\ scanning = {}
  /\ cpc = [c \in Caller |-> "idle"]
  /\ about = [c \in Caller |-> NoAssessment]
  /\ seen = [c \in Caller |-> "NONE"]
  /\ dropped = {} /\ crashes = 0 /\ dbErrors = 0

CallerStep(c) ==
  \/ \E a \in Assessment : SubmitRead(c, a)
  \/ SubmitCommit(c) \/ SubmitFails(c) \/ Enqueue(c)

ClientStep(c) ==
  \/ \E a \in Assessment : DeleteCheck(c, a)
  \/ DeleteCommit(c) \/ DeleteFails(c)

WorkerStep(w) ==
  \/ Take(w) \/ Claim(w) \/ ClaimFails(w)
  \/ Beat(w) \/ BeatFails(w) \/ FlushHost(w) \/ CommitHost(w)
  \/ RunEnds(w) \/ Finish(w) \/ FinishFails(w)

Next ==
  \/ Startup \/ Ready \/ Crash \/ Tick
  \/ \E c \in Caller : CallerStep(c)
  \/ \E c \in Client : ClientStep(c)
  \/ \E w \in Worker : WorkerStep(w)

Spec == Init /\ [][Next]_vars

(***************************************************************************)
(* What the code's scheduling gives: threads that can run do run, a run    *)
(* ends because every tool call in it has a timeout, a transaction that    *)
(* waits for the lock is done or raises, a process that went down is       *)
(* started again, and time passes.  A client owes nothing beyond finishing *)
(* the request it is in.                                                   *)
(***************************************************************************)
Fairness ==
  /\ WF_vars(Startup) /\ WF_vars(Ready) /\ WF_vars(Tick)
  /\ WF_vars(\E a \in Assessment : SubmitRead(Boot, a))
  /\ \A c \in Caller : /\ WF_vars(SubmitCommit(c) \/ SubmitFails(c))
                       /\ WF_vars(Enqueue(c))
  /\ \A c \in Client : WF_vars(DeleteCommit(c) \/ DeleteFails(c))
  /\ \A w \in Worker : /\ WF_vars(Take(w)) /\ WF_vars(Claim(w) \/ ClaimFails(w))
                       /\ WF_vars(Beat(w) \/ BeatFails(w)) /\ WF_vars(RunEnds(w))
                       /\ WF_vars(Finish(w) \/ FinishFails(w))

FairSpec == Spec /\ Fairness

-----------------------------------------------------------------------------
DatabaseTypes ==
  /\ rows \subseteq Assessment
  /\ status \in [Assessment -> Status]
  /\ age \in [Assessment -> 0..(StaleAfter + 1)]

ProcessTypes ==
  /\ server \in {"down", "starting", "up"}
  /\ backlog \subseteq Assessment
  /\ queue \in Seq(Assessment)
  /\ pc \in [Worker -> {"idle", "claim", "running", "finish"}]
  /\ on \in [Worker -> Assessment \union {NoAssessment}]
  /\ outcome \in [Worker -> Finished \union {"NONE"}]
  /\ beating \in [Worker -> BOOLEAN]
  /\ timer \in [Worker -> Nat]
  /\ missed \in [Worker -> 0..(Tolerated + 1)]
  /\ scanning \subseteq Worker
  /\ cpc \in [Caller -> {"idle", "commit", "enqueue", "purge"}]
  /\ about \in [Caller -> Assessment \union {NoAssessment}]
  /\ seen \in [Caller -> Status]
  /\ dropped \subseteq Assessment
  /\ crashes \in 0..MaxCrashes /\ dbErrors \in 0..MaxDbErrors

JobHasAssessment == \A a \in Assessment \ rows : status[a] = "NONE"

ThreadsBusy ==
  /\ \A w \in Worker : pc[w] = "idle" <=> on[w] = NoAssessment
  /\ \A w \in Worker : pc[w] = "finish" => outcome[w] \in Finished
  /\ \A w \in scanning : pc[w] = "running"
  /\ \A c \in Caller : cpc[c] = "idle" <=> about[c] = NoAssessment

(* TypeOK: every variable keeps to its domain, a job row never outlives    *)
(* its assessment (Job.assessment_id), a thread is about an assessment     *)
(* exactly while it is busy, a run that ended has an outcome, and only one *)
(* that goes on holds the database's lock.                                 *)
TypeOK == DatabaseTypes /\ ProcessTypes /\ JobHasAssessment /\ ThreadsBusy

\* A worker that claimed its job and whose heartbeat has not given up.
Alive(w, a) == on[w] = a /\ pc[w] \in {"running", "finish"} /\ beating[w]

\* Somebody is going to start the job.
Awaited(a) ==
  \/ a \in backlog
  \/ \E c \in Caller : cpc[c] = "enqueue" /\ about[c] = a
  \/ \E i \in DOMAIN queue : queue[i] = a
  \/ \E w \in Worker : pc[w] = "claim" /\ on[w] = a

(* StaleOnlyIfMissed: the job of a worker that keeps its heartbeat looks   *)
(* stale only after more beats in a row have failed than the settings      *)
(* tolerate, whatever was resubmitted, deleted or restarted meanwhile, and *)
(* whoever touched the row last (_job_is_stale against _heartbeat and the  *)
(* final write of worker).                                                 *)
StaleOnlyIfMissed ==
  \A w \in Worker, a \in Assessment :
    Alive(w, a) /\ Stale(a) => missed[w] > Tolerated

(* LiveJobNeverStale: a live worker's job is not stale, as README.md:95    *)
(* and the docstring of _heartbeat have it.  A scan under the write lock   *)
(* refutes it.                                                             *)
LiveJobNeverStale ==
  \A w \in Worker, a \in Assessment : Alive(w, a) => ~Stale(a)

(* RunningHasWorker: short of a crash, or of a claim or final write of its *)
(* own that raised, a job that says RUNNING has a live worker, even when   *)
(* duplicate tasks for it overlap, finish in any order, or overwrite each  *)
(* other's status.                                                         *)
RunningHasWorker ==
  crashes = 0 =>
    \A a \in Assessment \ dropped :
      status[a] = "RUNNING" => \E w \in Worker : Alive(w, a)

(* NoLostJob: while the process is alive a QUEUED row always has a task,   *)
(* or a caller about to make one: the row and the in-memory queue never    *)
(* part (submit_assessment, lifespan) unless a claim or final write of     *)
(* that assessment raised, which takes the task and leaves the row.        *)
NoLostJob ==
  server # "down" =>
    \A a \in Assessment \ dropped : status[a] = "QUEUED" => Awaited(a)

(* ActiveJobNotDuplicated: two pool threads never run one assessment, as   *)
(* the docstring of submit_assessment says of active jobs.                 *)
ActiveJobNotDuplicated ==
  \A v, w \in Worker :
    v # w /\ pc[v] = "running" /\ pc[w] = "running" => on[v] # on[w]

(* QueuedJobStarts: a QUEUED job leaves that status even if the process    *)
(* crashes while it waits (lifespan resubmits what it finds), unless a     *)
(* transaction of its task raises: its row then waits for a restart.       *)
QueuedJobStarts ==
  \A a \in Assessment :
    status[a] = "QUEUED" ~> (status[a] # "QUEUED" \/ a \in dropped)

(* ActiveJobEnds: short of a crash an accepted job ends COMPLETED or       *)
(* FAILED, or is deleted, or its task is lost to a transaction that        *)
(* raises, whatever overlaps with it.                                      *)
ActiveJobEnds ==
  \A a \in Assessment :
    status[a] \in {"QUEUED", "RUNNING"}
      ~> (status[a] \in Finished \union {"NONE"} \/ crashes > 0 \/ a \in dropped)

(* StaleJobRecovered: a job that is stale by the time the process comes    *)
(* back is taken up again (recover_stale_jobs).                            *)
StaleJobRecovered ==
  \A a \in Assessment :
    (server = "down" /\ Stale(a))
      ~> (status[a] \in {"NONE"} \union Finished \/ a \in dropped)

(* RunningJobRecovered: start-up recovery covers running jobs: one that    *)
(* says RUNNING stops saying so, by its worker or by a recovery.           *)
RunningJobRecovered ==
  \A a \in Assessment : status[a] = "RUNNING" ~> status[a] # "RUNNING"
-----------------------------------------------------------------------------
(* What the proofs need beside the invariants above.                       *)

\* A beat and a final write come in time.
InTime ==
  \A w \in Worker :
    /\ pc[w] = "running" => timer[w] <= BeatBy
    /\ pc[w] = "finish" => timer[w] <= FinishWithin

\* How long ago, at most, a live worker has touched its job that missed no more
\* beats than tolerated.
Lag(w) ==
  missed[w] * BeatBy
    + (IF pc[w] = "running" THEN timer[w] ELSE BeatBy + timer[w])

AgeBound ==
  \A w \in Worker, a \in Assessment :
    Alive(w, a) /\ status[a] = "RUNNING" /\ missed[w] <= Tolerated
      => age[a] <= Lag(w)

\* The start-up code has the service to itself, and finds its jobs in place.
BootAlone ==
  /\ server # "up" => \A c \in Client : cpc[c] = "idle"
  /\ cpc[Boot] # "idle" =>
       /\ server = "starting" /\ about[Boot] \in backlog
       /\ cpc[Boot] \in {"commit", "enqueue"} /\ seen[Boot] # "NONE"
  /\ server = "starting" => \A a \in backlog : status[a] # "NONE"
=============================================================================
