----------------------------- MODULE ToolInstall -----------------------------
(***************************************************************************)
(* The one-click installer of the dashboard: POST /tools/install starts a  *)
(* thread that runs setup_optional_tools, GET /tools/install/status is     *)
(* polled, and every look for a tool goes through the memo of              *)
(* integrations/external/locate.py, which the thread clears at its end.    *)
(* All of this is in the memory of one process; the lock of the endpoints  *)
(* is not taken by the thread.                                             *)
(***************************************************************************)
EXTENDS Naturals

CONSTANTS
  Portable,    \* tools unpacked by the installer itself (Nuclei)
  Launched,    \* tools whose own installer is launched (Nmap, ZAP)
  Request,     \* threads that may look for a tool at once
  NoTool,
  TTL,         \* _CACHE_TTL_SECONDS, in ticks
  MaxInstalls  \* bound: installs accepted

Tool == Portable \union Launched
Install == 1..MaxInstalls
Seeker == Request \union Install

ASSUME ToolAssumption ==
  /\ NoTool \notin Tool /\ Portable \intersect Launched = {}
  /\ Request \intersect Install = {}
  /\ TTL \in Nat /\ MaxInstalls \in Nat

VARIABLES
  \* _install_state; log and error are told by the install they come from
  running, tool, log, error, finished,
  installs,   \* installs accepted so far
  \* the machine
  installed,  \* tools on disk
  launched,   \* tools whose installer waits for the user
  stdout,     \* the install that captures sys.stdout, 0 for the console
  \* install threads
  pc, job,    \* where one stands, the tool it is about
  sink,       \* the list its output goes to
  outer,      \* what sys.stdout was before
  verdict,    \* what its last check of the tool said
  failed,     \* it has raised
  \* the memo and those who look
  cache,      \* per tool [age, found]; an age beyond TTL stands for no entry
  look,       \* "idle", "resolve", "store" or "done"
  asked, elapsed, found,  \* tool looked for, time since, answer
  \* what the checks need to remember
  since,    \* how long a tool has been on disk
  overrun,  \* the install under which an earlier thread last set finished
  promised  \* tools on disk when the last install that succeeded ended

statusVars  == <<running, tool, log, error, finished, installs>>
machineVars == <<installed, launched, stdout>>
threadVars  == <<pc, job, sink, outer, verdict, failed>>
lookVars    == <<look, asked, elapsed, found>>
historyVars == <<since, overrun, promised>>
vars == <<statusVars, machineVars, threadVars, cache, lookVars, historyVars>>

Goto(i, there) == pc' = [pc EXCEPT ![i] = there]
Older(n) == IF n > TTL THEN n ELSE n + 1
Fresh(t) == cache[t].age <= TTL
Nothing == [age |-> TTL + 1, found |-> FALSE]

-----------------------------------------------------------------------------
(* locate: an entry that is fresh answers at once; otherwise the disk is   *)
(* searched and the answer stored under the time the look began.           *)

Return(p, answer) ==
  /\ look' = [look EXCEPT ![p] = IF p \in Request THEN "idle" ELSE "done"]
  /\ found' = [found EXCEPT ![p] = p \notin Request /\ answer]
  /\ asked' = [asked EXCEPT ![p] = NoTool]
  /\ elapsed' = [elapsed EXCEPT ![p] = 0]

Locate(p, t) ==
  /\ look[p] = "idle"
  /\ IF Fresh(t)
     THEN Return(p, cache[t].found)
     ELSE /\ look' = [look EXCEPT ![p] = "resolve"]
          /\ asked' = [asked EXCEPT ![p] = t]
          /\ UNCHANGED <<elapsed, found>>
  /\ UNCHANGED <<statusVars, machineVars, threadVars, cache, historyVars>>

Resolve(p) ==
  /\ look[p] = "resolve"
  /\ found' = [found EXCEPT ![p] = asked[p] \in installed]
  /\ look' = [look EXCEPT ![p] = "store"]
  /\ UNCHANGED <<statusVars, machineVars, threadVars, cache, asked, elapsed, historyVars>>

\* Variants named ...Slip are coding slips that TLC is shown to notice; no
\* action uses them.
EntrySlip(p) == [age |-> 0, found |-> found[p]]

EntryNameSlip(p) == [age |-> elapsed[p], found |-> asked[p]]

Entry(p) == [age |-> elapsed[p], found |-> found[p]]

Store(p) ==
  /\ look[p] = "store"
  /\ cache' = [cache EXCEPT ![asked[p]] = Entry(p)]
  /\ Return(p, found[p])
  /\ UNCHANGED <<statusVars, machineVars, threadVars, historyVars>>

-----------------------------------------------------------------------------
(* POST /tools/install, under its lock; the thread is started after it.    *)

MayInstallSlip == TRUE

MayInstall == ~running

ResetSlip(t) ==
  /\ running' = TRUE /\ tool' = t /\ log' = installs + 1 /\ error' = 0
  /\ UNCHANGED finished

Reset(t) ==
  /\ running' = TRUE /\ tool' = t /\ log' = installs + 1 /\ error' = 0
  /\ finished' = FALSE

Accept(t) ==
  /\ MayInstall /\ installs < MaxInstalls
  /\ installs' = installs + 1
  /\ Reset(t)
  /\ pc' = [pc EXCEPT ![installs'] = "made"]
  /\ job' = [job EXCEPT ![installs'] = t]
  /\ UNCHANGED <<machineVars, sink, outer, verdict, failed, cache, lookVars, historyVars>>

-----------------------------------------------------------------------------
(* _run_tool_install and the installer functions it calls.                 *)

\* The thread cannot be started, or its import of the installer fails, which
\* its try does not cover: what the endpoint set stays set.
StartFails(i) ==
  /\ pc[i] = "made"
  /\ Goto(i, "lost")
  /\ UNCHANGED <<statusVars, machineVars, job, sink, outer, verdict, failed, cache,
                 lookVars, historyVars>>

Begin(i) ==
  /\ pc[i] = "made"
  /\ sink' = [sink EXCEPT ![i] = log]
  /\ outer' = [outer EXCEPT ![i] = stdout]
  /\ stdout' = i
  /\ Goto(i, "check")
  /\ UNCHANGED <<statusVars, installed, launched, job, verdict, failed, cache,
                 lookVars, historyVars>>

\* The installers look for the tool first, and Nuclei's once more at the end.
Check(i) == pc[i] \in {"check", "recheck"} /\ Locate(i, job[i])

Checked(i) ==
  /\ pc[i] \in {"check", "recheck"} /\ look[i] = "done"
  /\ look' = [look EXCEPT ![i] = "idle"]
  /\ verdict' = [verdict EXCEPT ![i] = IF found[i] THEN "available" ELSE "missing"]
  /\ Goto(i, IF pc[i] = "check" /\ ~found[i] THEN "fetch" ELSE "leave")
  /\ UNCHANGED <<statusVars, machineVars, job, sink, outer, failed, cache, asked,
                 elapsed, found, historyVars>>

\* Portable tools are unpacked, if the archive holds one; the others'
\* installers are launched, and one that cannot be launched is only reported.
Fetch(i) ==
  /\ pc[i] = "fetch"
  /\ IF job[i] \in Portable
     THEN /\ installed' \in {installed, installed \union {job[i]}}
          /\ Goto(i, "recheck") /\ UNCHANGED launched
     ELSE /\ launched' \in {launched, launched \union {job[i]}}
          /\ Goto(i, "leave") /\ UNCHANGED installed
  /\ UNCHANGED <<statusVars, stdout, job, sink, outer, verdict, failed, cache,
                 lookVars, historyVars>>

\* A binary whose unpacking fails midway is a file that _resolve finds.
FetchFails(i) ==
  /\ pc[i] = "fetch"
  /\ failed' = [failed EXCEPT ![i] = TRUE]
  /\ installed' \in {installed, installed \union (Portable \intersect {job[i]})}
  /\ Goto(i, "leave")
  /\ UNCHANGED <<statusVars, launched, stdout, job, sink, outer, verdict, cache, lookVars,
                 historyVars>>

\* redirect_stdout puts back what it found; then the except clause.
Leave(i) ==
  /\ pc[i] = "leave"
  /\ stdout' = outer[i]
  /\ Goto(i, IF failed[i] THEN "record" ELSE "clear")
  /\ UNCHANGED <<statusVars, installed, launched, job, sink, outer, verdict, failed,
                 cache, lookVars, historyVars>>

Record(i) ==
  /\ pc[i] = "record"
  /\ error' = i
  /\ Goto(i, "clear")
  /\ UNCHANGED <<running, tool, log, finished, installs, machineVars, job, sink, outer,
                 verdict, failed, cache, lookVars, historyVars>>

\* clear_cache, then the two flags, one after the other.
ClearCache(i) ==
  /\ pc[i] = "clear"
  /\ cache' = [t \in Tool |-> Nothing]
  /\ promised' = IF failed[i] THEN promised ELSE installed
  /\ Goto(i, "release")
  /\ UNCHANGED <<statusVars, machineVars, job, sink, outer, verdict, failed, lookVars,
                 since, overrun>>

ReleasableSlip(i) == pc[i] = "release" /\ ~failed[i]

ReleasableEarlySlip(i) == pc[i] \in {"record", "release"}

Releasable(i) == pc[i] = "release"

Release(i) ==
  /\ Releasable(i)
  /\ running' = FALSE
  /\ Goto(i, "flag")
  /\ UNCHANGED <<tool, log, error, finished, installs, machineVars, job, sink, outer,
                 verdict, failed, cache, lookVars, historyVars>>

Flag(i) ==
  /\ pc[i] = "flag"
  /\ finished' = TRUE
  /\ overrun' = IF i # installs THEN installs ELSE overrun
  /\ Goto(i, "over")
  /\ UNCHANGED <<running, tool, log, error, installs, machineVars, job, sink, outer,
                 verdict, failed, cache, lookVars, since, promised>>

-----------------------------------------------------------------------------
(* The user clicks through an installer window; time passes.               *)

Appear(t) ==
  /\ t \in launched \ installed
  /\ installed' = installed \union {t}
  /\ UNCHANGED <<statusVars, launched, stdout, threadVars, cache, lookVars, historyVars>>

Tick ==
  /\ cache' = [t \in Tool |-> [cache[t] EXCEPT !.age = Older(@)]]
  /\ elapsed' = [p \in Seeker |-> IF look[p] \in {"resolve", "store"}
                                  THEN Older(elapsed[p]) ELSE elapsed[p]]
  /\ since' = [t \in Tool |-> IF t \in installed THEN Older(since[t]) ELSE since[t]]
  /\ UNCHANGED <<statusVars, machineVars, threadVars, look, asked, found, overrun, promised>>

Init ==
  /\ running = FALSE /\ tool = NoTool /\ log = 0 /\ error = 0 /\ finished = FALSE
  /\ installs = 0 /\ installed = {} /\ launched = {} /\ stdout = 0
  /\ pc = [i \in Install |-> "none"]
  /\ job = [i \in Install |-> NoTool]
  /\ sink = [i \in Install |-> 0]
  /\ outer = [i \in Install |-> 0]
  /\ verdict = [i \in Install |-> "none"]
  /\ failed = [i \in Install |-> FALSE]
  /\ cache = [t \in Tool |-> Nothing]
  /\ look = [p \in Seeker |-> "idle"]
  /\ asked = [p \in Seeker |-> NoTool]
  /\ elapsed = [p \in Seeker |-> 0]
  /\ found = [p \in Seeker |-> FALSE]
  /\ since = [t \in Tool |-> 0] /\ overrun = 0 /\ promised = {}

ThreadStep(i) ==
  \/ StartFails(i) \/ Begin(i)
  \/ Check(i) \/ Resolve(i) \/ Store(i) \/ Checked(i)
  \/ Fetch(i) \/ FetchFails(i) \/ Leave(i) \/ Record(i)
  \/ ClearCache(i) \/ Release(i) \/ Flag(i)

RequestStep(q) ==
  (\E t \in Tool : Locate(q, t)) \/ Resolve(q) \/ Store(q)

Next ==
  \/ \E t \in Tool : Accept(t) \/ Appear(t)
  \/ \E i \in Install : ThreadStep(i)
  \/ \E q \in Request : RequestStep(q)
  \/ Tick

Spec == Init /\ [][Next]_vars

(* Downloads have timeouts, so an install thread goes on or fails; nothing *)
(* else is owed.                                                           *)
FairSpec == Spec /\ \A i \in Install : WF_vars(ThreadStep(i))

-----------------------------------------------------------------------------
Ages == 0..(TTL + 1)

(* TypeOK: every variable keeps to its domain.                             *)
TypeOK ==
  /\ running \in BOOLEAN /\ tool \in Tool \union {NoTool} /\ finished \in BOOLEAN
  /\ {log, error, installs, stdout, overrun} \subseteq 0..MaxInstalls
  /\ installed \subseteq Tool /\ promised \subseteq Tool /\ launched \subseteq Launched
  /\ pc \in [Install -> {"none", "made", "lost", "check", "fetch", "recheck", "leave", "record",
                         "clear", "release", "flag", "over"}]
  /\ job \in [Install -> Tool \union {NoTool}]
  /\ sink \in [Install -> 0..MaxInstalls] /\ outer \in [Install -> 0..MaxInstalls]
  /\ verdict \in [Install -> {"none", "available", "missing"}]
  /\ failed \in [Install -> BOOLEAN]
  /\ cache \in [Tool -> [age : Ages, found : BOOLEAN]]
  /\ look \in [Seeker -> {"idle", "resolve", "store", "done"}]
  /\ asked \in [Seeker -> Tool \union {NoTool}]
  /\ elapsed \in [Seeker -> Ages] /\ found \in [Seeker -> BOOLEAN]
  /\ since \in [Tool -> Ages]

Working(i) == pc[i] \notin {"none", "flag", "over"}
Capturing(i) == pc[i] \in {"check", "fetch", "recheck", "leave"}

(* StatusIsOwn: while an install is at work, what the status endpoint      *)
(* shows is about it: its tool, its output, no error but its own, and it   *)
(* is not shown as finished, as test_tool_install.py:96-98 expects.  One   *)
(* race is excepted by name: the thread before it clears running and sets  *)
(* finished in two steps without the lock (main.py:371-372), and the flag  *)
(* that lands after the reset of line 382 makes GET /tools/install/status  *)
(* (388-397) call the install at work finished.                            *)
StatusIsOwn ==
  \A i \in Install : Working(i) =>
    /\ running /\ tool = job[i] /\ log = i /\ error \in {0, i}
    /\ finished => overrun = i
    /\ Capturing(i) => sink[i] = log

(* OutputCaptured: sys.stdout is redirected, process-wide, by the one      *)
(* install that prints, and given back to the console by the last.         *)
OutputCaptured ==
  /\ \A i \in Install : Capturing(i) => stdout = i
  /\ stdout # 0 => Capturing(stdout)

(* OutcomeShown: a poll that reads running as false finds the error of the *)
(* last install if it raised, and none if it did not.                      *)
OutcomeShown ==
  ~running /\ installs > 0 => error = IF failed[installs] THEN installs ELSE 0

(* MissesExpire: once a tool is on disk, no look is answered from the memo *)
(* of a miss after another TTL.  The documents promise more, see           *)
(* ClearedMemoTrue; this bound is what the memo does keep, whoever stores  *)
(* late, and the installer's own last look, which the memo of its first    *)
(* one may answer (setup_optional_tools.py:99), is under it too.           *)
MissesExpire ==
  \A t \in installed : Fresh(t) /\ ~cache[t].found => since[t] <= TTL

(* ClearedMemoTrue: after an install that succeeded has cleared the memo,  *)
(* the next look sees every tool that was on disk by then (main.py:368-369,*)
(* locate.py:11-13, CHANGELOG.md:5).  The code does not keep it: a look    *)
(* that searched the disk before the install stores its miss after the     *)
(* clear (locate.py:69-70), for the rest of that miss's TTL.               *)
ClearedMemoTrue == \A t \in promised : Fresh(t) => cache[t].found

(* InstallSettles: an accepted install gives way to the next one, whatever *)
(* its installer raises, unless its thread was lost before the try.        *)
InstallSettles == running ~> ~running \/ \E i \in Install : pc[i] = "lost"
=============================================================================
