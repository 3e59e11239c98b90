----------------------- MODULE AssessmentServiceProofs -----------------------
(***************************************************************************)
(* Safety of the service around the runs, for any threads, ids, requests,  *)
(* crashes and queue, and any mix of queued and synchronous starts.        *)
(*                                                                         *)
(* What carries the proofs: Placed (where a thread stands tells its        *)
(* operation and what it holds), LockHeld (no purge comes under the lock)  *)
(* and, for everything a thread knows of an assessment while requests go   *)
(* on around it, that it is still so or that harm remembers what was done. *)
(***************************************************************************)
EXTENDS AssessmentService, SequenceTheorems, FiniteSetTheorems, TLAPS
ThreadTypes ==
  /\ pc \in [Thread -> {"idle", "claim", "load", "scan", "store", "save", "read", "gather",
                        "write", "complete", "purge", "unlink"} \union Outcome]
  /\ op \in [Thread -> {"none", "run", "report", "delete", "delete all"}]
  /\ on \in [Thread -> 0..LastId] /\ mine \in [Thread -> 0..LastMade]
  /\ copy \in [Thread -> {NoReport} \union Report]
  /\ doomed \in [Thread -> SUBSET Id]

RowTypes ==
  /\ row \in [Id -> 0..LastMade]
  /\ state \in [Id -> {"NONE"} \union Active \union Outcome]
  /\ job \in [Id -> {"NONE"} \union Active \union Outcome]
  /\ saved \in [Id -> BOOLEAN] /\ found \in [Id -> SUBSET Made]
  /\ file \in [Id -> {NoReport} \union Report]

OtherTypes ==
  /\ queue \in Seq(Id)
  /\ lock \in Thread \union {NoThread}
  /\ harm \subseteq {"yank", "leak", "clobber", "timeout"} \X (0..LastMade)
  /\ made \in 0..LastMade /\ requests \in 0..MaxRequests /\ crashes \in 0..MaxCrashes

\* An id without a row has no child rows.
Bare(i) == state[i] = "NONE" /\ job[i] = "NONE" /\ ~saved[i] /\ found[i] = {}
Childless == \A i \in Id : row[i] = 0 => Bare(i)


Running == {"scan", "store", "save", "complete"}
Reading == {"read", "gather", "write"}
Scanned == {"save", "complete"} \union Reading

\* Where a thread stands tells its operation and what it holds.
PlacedAt(t) ==
  /\ pc[t] = "idle" =>
       op[t] = "none" /\ on[t] = 0 /\ mine[t] = 0 /\ copy[t] = NoReport /\ doomed[t] = {}
  /\ pc[t] \in {"claim"} \union Outcome => t \in Worker /\ op[t] = "run" /\ on[t] \in Id
  /\ pc[t] = "load" => op[t] = "run" /\ on[t] \in Id
  /\ pc[t] \in Running => op[t] = "run" /\ on[t] \in Id /\ mine[t] \in Made
  /\ pc[t] \in Reading =>
       op[t] \in {"run", "report"} /\ on[t] \in Id /\ (op[t] = "run" => mine[t] \in Made)
  /\ pc[t] \in {"gather", "write"} => copy[t] \in Report /\ copy[t].by = op[t]
  /\ pc[t] \in {"purge", "unlink"} => t \in Client /\ (op[t] = "delete all" \/ on[t] \in Id)
  /\ mine[t] # 0 => op[t] = "run" /\ pc[t] \in Running \union Reading
  /\ t \in Worker => op[t] \in {"none", "run"}

Placed == \A t \in Thread : PlacedAt(t)

\* The lock is held by a run whose assessment is there.
LockHeld == lock # NoThread => pc[lock] = "store" /\ row[on[lock]] # 0

\* What a thread may rely on together with the types.
Basics == ThreadTypes /\ RowTypes /\ OtherTypes /\ Childless /\ Placed /\ LockHeld

AnyYank == \E n \in Made : Yanked(n)
AnyHarm == \E n \in Made : Yanked(n) \/ <<"clobber", n>> \in harm
Leaked(n) == <<"leak", n>> \in harm

RunsOwn == \A t \in Thread : mine[t] # 0 => mine[t] = row[on[t]] \/ Yanked(mine[t])

RunsScanned ==
  /\ \A i \in Id : saved[i] => row[i] \in found[i] \/ AnyYank
  /\ \A t \in Thread :
       op[t] = "run" /\ pc[t] \in Scanned => mine[t] \in found[on[t]] \/ AnyYank

CopiesOwn ==
  \A t \in Thread :
    pc[t] \in {"gather", "write"} => copy[t].of = row[on[t]] \/ Leaked(copy[t].of)

FinalFile(i) ==
  /\ file[i] # NoReport
  /\ file[i].by = "report" \/ (file[i].final /\ file[i].holds = found[i])

RunsReport ==
  AnyHarm \/ \A t \in Thread : op[t] = "run" =>
    /\ pc[t] \in {"gather", "write"} => copy[t].final
    /\ pc[t] = "write" => copy[t].holds = found[on[t]]
    /\ pc[t] = "complete" => FinalFile(on[t])

CopiesHold ==
  \A t \in Thread : pc[t] \in {"gather", "write"} /\ copy[t].final =>
    \/ copy[t].of \in (IF pc[t] = "gather" THEN found[on[t]] ELSE copy[t].holds)
    \/ Leaked(copy[t].of) \/ AnyYank

(* The steps of Next, seen through what they do.                           *)
AnyStep ==
  \/ \E c \in Client, i \in Id :
       \/ Create(c, i) \/ Submit(c, i) \/ StartHere(c, i)
       \/ StartReport(c, i) \/ DeleteAssessment(c, i)
  \/ \E c \in Client : DeleteTarget(c)
  \/ \E w \in Worker : Take(w) \/ Claim(w) \/ Finish(w)
  \/ \E t \in Thread :
       \/ Load(t) \/ Scan(t) \/ Store(t) \/ ScanFails(t) \/ Save(t) \/ Complete(t)
       \/ ReadData(t) \/ WriteReport(t) \/ Purge(t) \/ Unlink(t) \/ GivesUp(t)
  \/ Restart
  \/ UNCHANGED vars

(* Every step is one of them.                                              *)
LEMMA Steps == [Next]_vars => AnyStep
  BY DEF Next, Request, Continue, AnyStep

USE DEF dbVars, threadVars

-----------------------------------------------------------------------------
(* Threads.                                                                *)

(* TypeOK by the variables it is about.                                    *)
LEMMA TypeParts == TypeOK <=> ThreadTypes /\ RowTypes /\ OtherTypes /\ Childless
  BY DEF TypeOK, ThreadTypes, RowTypes, OtherTypes, Childless, Bare, Existing

(* The numbers that stand for nothing, and those that do not.              *)
LEMMA Numbers ==
  /\ Id \subseteq 0..LastId /\ 0 \notin Id /\ 0 \in 0..LastId
  /\ Made \subseteq 0..LastMade /\ 0 \notin Made /\ 0 \in 0..LastMade
  /\ \A n \in 0..LastMade : n # 0 => n \in Made
  BY ServiceBounds DEF Id, Made

(* What a thread has where it stands, by its place.                        *)
LEMMA PlacedRuns ==
  ASSUME Placed, NEW t \in Thread
  PROVE  /\ pc[t] = "load" => op[t] = "run" /\ on[t] \in Id
         /\ pc[t] \in {"scan", "store", "save", "complete"} =>
              op[t] = "run" /\ on[t] \in Id /\ mine[t] \in Made
         /\ pc[t] \in {"read", "gather", "write"} =>
              /\ op[t] \in {"run", "report"} /\ on[t] \in Id
              /\ op[t] = "run" => mine[t] \in Made
         /\ pc[t] \in {"gather", "write"} => copy[t] \in Report /\ copy[t].by = op[t]
  BY DEF Placed, PlacedAt, Running, Reading

(* What a deletion deletes are ids.                                        *)
LEMMA PlacedDeletes ==
  ASSUME Placed, NEW t \in Thread, pc[t] \in {"purge", "unlink"}
  PROVE  t \in Client /\ Listed(t) \subseteq Id
  BY DEF Placed, PlacedAt, Listed, Existing

(* A run that ends leaves a pool thread with the outcome to record, and a  *)
(* request thread with nothing.                                            *)
LEMMA RunEndsTypes ==
  ASSUME ThreadTypes, NEW t \in Thread, NEW outcome \in Outcome, RunEnds(t, outcome)
  PROVE  ThreadTypes'
  BY Numbers DEF RunEnds, Leave, Goto, ThreadTypes, Outcome

(* What a run or a request reads of an assessment that is there is a part  *)
(* of a report.                                                            *)
LEMMA PartType ==
  ASSUME ThreadTypes, RowTypes, Placed, NEW t \in Thread, pc[t] \in {"read", "gather"},
         pc[t] = "read" => ~Gone(t)
  PROVE  Part(t) \in Report /\ Part(t).by = op[t]
<1>1. CASE pc[t] = "read"
  <2>1. row[on[t]] \in Made /\ op[t] \in {"run", "report"}
    BY <1>1, PlacedRuns, Numbers DEF Gone, RowTypes
  <2>2. SaysCompleted(t) \in BOOLEAN
    BY DEF SaysCompleted
  <2> QED BY <1>1, <2>1, <2>2 DEF Part, NoData, Report
<1>2. CASE pc[t] = "gather"
  <2>1. copy[t] \in Report /\ copy[t].by = op[t] /\ found[on[t]] \subseteq Made
    BY <1>2, PlacedRuns DEF RowTypes
  <2> QED BY <1>2, <2>1 DEF Part, Report
<1> QED BY <1>1, <1>2

(* Every step keeps the types of what threads hold.                        *)
LEMMA ThreadStep ==
  ASSUME ThreadTypes, RowTypes, OtherTypes, Placed, [Next]_vars
  PROVE  ThreadTypes'
<1>1. ASSUME NEW c \in Client, NEW i \in Id, Create(c, i) PROVE ThreadTypes'
  BY <1>1, Numbers DEF Create, ThreadTypes, Thread
<1>2. ASSUME NEW c \in Client, NEW i \in Id, Submit(c, i) PROVE ThreadTypes'
  BY <1>2, Numbers DEF Submit, ThreadTypes, Thread
<1>3. ASSUME NEW c \in Client, NEW i \in Id, StartHere(c, i) PROVE ThreadTypes'
  BY <1>3, Numbers DEF StartHere, Begin, Goto, ThreadTypes, Thread
<1>4. ASSUME NEW c \in Client, NEW i \in Id, StartReport(c, i) PROVE ThreadTypes'
  BY <1>4, Numbers DEF StartReport, Begin, Goto, ThreadTypes, Thread
<1>5. ASSUME NEW c \in Client, NEW i \in Id, DeleteAssessment(c, i) PROVE ThreadTypes'
  BY <1>5, Numbers DEF DeleteAssessment, Begin, Goto, ThreadTypes, Thread
<1>6. ASSUME NEW c \in Client, DeleteTarget(c) PROVE ThreadTypes'
  BY <1>6, Numbers DEF DeleteTarget, Begin, Goto, ThreadTypes, Thread
<1>7. ASSUME NEW w \in Worker, Take(w) PROVE ThreadTypes'
  <2>1. Head(queue) \in Id
    BY <1>7, HeadTailProperties DEF Take, OtherTypes
  <2> QED BY <1>7, <2>1, Numbers DEF Take, Begin, Goto, ThreadTypes, Thread
<1>8. ASSUME NEW w \in Worker, Claim(w) PROVE ThreadTypes'
  BY <1>8, Numbers DEF Claim, SetJob, Goto, ThreadTypes, Thread
<1>9. ASSUME NEW w \in Worker, Finish(w) PROVE ThreadTypes'
  BY <1>9, Numbers DEF Finish, SetJob, Leave, Goto, ThreadTypes, Thread, Outcome
<1>10. ASSUME NEW t \in Thread, Load(t) PROVE ThreadTypes'
  <2>1. CASE Gone(t) \/ state[on[t]] = "COMPLETED"
    BY <1>10, <2>1, RunEndsTypes DEF Load, Outcome
  <2>2. CASE ~(Gone(t) \/ state[on[t]] = "COMPLETED")
    <3>1. row[on[t]] \in 0..LastMade
      BY <1>10, PlacedRuns DEF Load, RowTypes
    <3> QED BY <1>10, <2>2, <3>1 DEF Load, Goto, ThreadTypes
  <2> QED BY <2>1, <2>2
<1>11. ASSUME NEW t \in Thread, Scan(t) PROVE ThreadTypes'
  BY <1>11, Numbers DEF Scan, Goto, ThreadTypes, Thread
<1>12. ASSUME NEW t \in Thread, Store(t) PROVE ThreadTypes'
  <2>1. CASE Gone(t)
    BY <1>12, <2>1, RunEndsTypes DEF Store, Outcome
  <2>2. CASE ~Gone(t)
    BY <1>12, <2>2 DEF Store, Goto, ThreadTypes
  <2> QED BY <2>1, <2>2
<1>13. ASSUME NEW t \in Thread, ScanFails(t) PROVE ThreadTypes'
  BY <1>13, RunEndsTypes DEF ScanFails, Outcome
<1>14. ASSUME NEW t \in Thread, Save(t) PROVE ThreadTypes'
  <2>1. CASE Gone(t)
    BY <1>14, <2>1, RunEndsTypes DEF Save, Outcome
  <2>2. CASE ~Gone(t)
    BY <1>14, <2>2 DEF Save, Goto, ThreadTypes
  <2> QED BY <2>1, <2>2
<1>15. ASSUME NEW t \in Thread, Complete(t) PROVE ThreadTypes'
  BY <1>15, RunEndsTypes DEF Complete, Outcome
<1>16. ASSUME NEW t \in Thread, ReadData(t) PROVE ThreadTypes'
  <2>1. CASE Gone(t) /\ RunEnds(t, "FAILED")
    BY <2>1, RunEndsTypes DEF Outcome
  <2>2. CASE ~(Gone(t) /\ RunEnds(t, "FAILED"))
    <3>1. Part(t) \in Report
      BY <1>16, <2>2, PartType DEF ReadData
    <3> QED BY <1>16, <2>2, <3>1 DEF ReadData, Goto, ThreadTypes
  <2> QED BY <2>1, <2>2
<1>17. ASSUME NEW t \in Thread, WriteReport(t) PROVE ThreadTypes'
  BY <1>17, Numbers DEF WriteReport, Leave, Goto, ThreadTypes, Thread
<1>18. ASSUME NEW t \in Thread, Purge(t) PROVE ThreadTypes'
  <2>1. Listed(t) \subseteq Id
    BY <1>18, PlacedDeletes DEF Purge
  <2> QED BY <1>18, <2>1 DEF Purge, Goto, ThreadTypes
<1>19. ASSUME NEW t \in Thread, Unlink(t) PROVE ThreadTypes'
  BY <1>19, Numbers DEF Unlink, Leave, Goto, ThreadTypes, Thread
<1>20. ASSUME NEW t \in Thread, GivesUp(t) PROVE ThreadTypes'
  <2>1. CASE pc[t] \in {"load", "scan", "store", "save", "complete"}
    BY <1>20, <2>1, RunEndsTypes DEF GivesUp, Outcome
  <2>2. CASE pc[t] \notin {"load", "scan", "store", "save", "complete"}
    BY <1>20, <2>2, Numbers DEF GivesUp, Leave, Goto, ThreadTypes
  <2> QED BY <2>1, <2>2
<1>21. CASE Restart
  BY <1>21, Numbers DEF Restart, ThreadTypes, Thread
<1>22. CASE UNCHANGED vars
  BY <1>22, Numbers DEF vars, ThreadTypes, Thread
<1> QED
  BY <1>1, <1>2, <1>3, <1>4, <1>5, <1>6, <1>7, <1>8, <1>9, <1>10, <1>11, <1>12, <1>13,
     <1>14, <1>15, <1>16, <1>17, <1>18, <1>19, <1>20, <1>21, <1>22, Steps
  DEF AnyStep

(* Every step keeps the types of rows and files.                           *)
LEMMA RowStep ==
  ASSUME RowTypes, ThreadTypes, OtherTypes, Placed, LockHeld, [Next]_vars
  PROVE  RowTypes'
<1>1. ASSUME NEW c \in Client, NEW i \in Id, Create(c, i) PROVE RowTypes'
  <2>1. made + 1 \in 0..LastMade
    BY <1>1, ServiceBounds DEF Create, OtherTypes
  <2> QED BY <1>1, <2>1 DEF Create, RowTypes, Active
<1>2. ASSUME NEW c \in Client, NEW i \in Id, Submit(c, i) PROVE RowTypes'
  BY <1>2 DEF Submit, RowTypes, Active
<1>3. ASSUME NEW c \in Client, NEW i \in Id, StartHere(c, i) PROVE RowTypes'
  BY <1>3 DEF StartHere, Begin, Goto, RowTypes
<1>4. ASSUME NEW c \in Client, NEW i \in Id, StartReport(c, i) PROVE RowTypes'
  BY <1>4 DEF StartReport, Begin, Goto, RowTypes
<1>5. ASSUME NEW c \in Client, NEW i \in Id, DeleteAssessment(c, i) PROVE RowTypes'
  BY <1>5 DEF DeleteAssessment, Begin, Goto, RowTypes
<1>6. ASSUME NEW c \in Client, DeleteTarget(c) PROVE RowTypes'
  BY <1>6 DEF DeleteTarget, Begin, Goto, RowTypes
<1>7. ASSUME NEW w \in Worker, Take(w) PROVE RowTypes'
  BY <1>7 DEF Take, Begin, Goto, RowTypes
<1>8. ASSUME NEW w \in Worker, Claim(w) PROVE RowTypes'
  BY <1>8 DEF Claim, SetJob, RowTypes, Active
<1>9. ASSUME NEW w \in Worker, Finish(w) PROVE RowTypes'
  BY <1>9 DEF Finish, SetJob, RowTypes, Outcome
<1>10. ASSUME NEW t \in Thread, Load(t) PROVE RowTypes'
  BY <1>10 DEF Load, RowTypes, Active
<1>11. ASSUME NEW t \in Thread, Scan(t) PROVE RowTypes'
  BY <1>11 DEF Scan, Goto, RowTypes
<1>12. ASSUME NEW t \in Thread, Store(t) PROVE RowTypes'
  <2>1. found' = found \/ found' = [found EXCEPT ![on[t]] = @ \union {mine[t]}]
    BY <1>12 DEF Store
  <2>2. on[t] \in Id /\ mine[t] \in Made
    BY <1>12, PlacedRuns DEF Store
  <2>3. found' \in [Id -> SUBSET Made]
    BY <2>1, <2>2 DEF RowTypes
  <2> QED BY <1>12, <2>3 DEF Store, RowTypes
<1>13. ASSUME NEW t \in Thread, ScanFails(t) PROVE RowTypes'
  <2>1. on[t] \in Id /\ mine[t] \in Made
    BY <1>13, PlacedRuns DEF ScanFails
  <2>2. found' \in [Id -> SUBSET Made]
    BY <1>13, <2>1 DEF ScanFails, RowTypes
  <2>3. state' \in [Id -> {"NONE"} \union Active \union Outcome]
    BY <1>13 DEF ScanFails, RowTypes, Outcome
  <2> QED BY <1>13, <2>2, <2>3 DEF ScanFails, RowTypes
<1>14. ASSUME NEW t \in Thread, Save(t) PROVE RowTypes'
  BY <1>14 DEF Save, RowTypes
<1>15. ASSUME NEW t \in Thread, Complete(t) PROVE RowTypes'
  BY <1>15 DEF Complete, RowTypes, Outcome
<1>16. ASSUME NEW t \in Thread, ReadData(t) PROVE RowTypes'
  BY <1>16 DEF ReadData, RunEnds, Leave, Goto, RowTypes
<1>17. ASSUME NEW t \in Thread, WriteReport(t) PROVE RowTypes'
  <2>1. copy[t] \in Report
    BY <1>17, PlacedRuns DEF WriteReport
  <2> QED BY <1>17, <2>1 DEF WriteReport, RowTypes
<1>18. ASSUME NEW t \in Thread, Purge(t) PROVE RowTypes'
  BY <1>18, Numbers DEF Purge, PurgeRows, RowTypes
<1>19. ASSUME NEW t \in Thread, Unlink(t) PROVE RowTypes'
  BY <1>19 DEF Unlink, RemoveReports, RowTypes
<1>20. ASSUME NEW t \in Thread, GivesUp(t) PROVE RowTypes'
  BY <1>20 DEF GivesUp, RunEnds, Leave, Goto, RowTypes
<1>21. CASE Restart
  BY <1>21 DEF Restart, RowTypes, Active
<1>22. CASE UNCHANGED vars
  BY <1>22 DEF vars, RowTypes
<1> QED
  BY <1>1, <1>2, <1>3, <1>4, <1>5, <1>6, <1>7, <1>8, <1>9, <1>10, <1>11, <1>12, <1>13,
     <1>14, <1>15, <1>16, <1>17, <1>18, <1>19, <1>20, <1>21, <1>22, Steps
  DEF AnyStep

(* The sequence of a finite set is one of its elements.                    *)
LEMMA SetToSeqType ==
  ASSUME NEW S \in SUBSET Id
  PROVE  SetToSeq(S) \in Seq(Id)
<1>1. IsFiniteSet(S)
  <2>1. IsFiniteSet(Id)
    BY ServiceBounds, FS_Interval DEF Id
  <2> QED BY <2>1, FS_Subset
<1>2. Cardinality(S) \in Nat /\ ExistsBijection(1..Cardinality(S), S)
  BY <1>1, FS_CardinalityType
<1>3. PICK f : f \in Bijection(1..Cardinality(S), S)
  BY <1>2 DEF ExistsBijection
<1>4. f \in [1..Cardinality(S) -> S] /\ IsInjective(f)
  BY <1>3 DEF Bijection, Injection, IsInjective
<1>5. SetToSeq(S) \in [1..Cardinality(S) -> S]
  BY <1>4, Zenon DEF SetToSeq
<1>6. SetToSeq(S) \in [1..Cardinality(S) -> Id]
  BY <1>5
<1> QED BY <1>2, <1>6, SeqDef

(* What harm is done is done to what was made.                             *)
HarmType == {"yank", "leak", "clobber", "timeout"} \X (0..LastMade)

(* Each kind of harm is.                                                   *)
LEMMA HarmTypes ==
  ASSUME RowTypes, NEW ids \in SUBSET Id
  PROVE  /\ PurgeHarm(ids) \subseteq HarmType /\ LeakOf(ids) \subseteq HarmType
         /\ ClobberOf(ids) \subseteq HarmType
         /\ {<<"timeout", row[i]>> : i \in ids} \subseteq HarmType
<1>1. \A i \in ids : row[i] \in 0..LastMade
  BY DEF RowTypes
<1>2. \A i \in Reports(ids) : file[i].of \in 0..LastMade
  BY Numbers DEF RowTypes, Reports, Report
<1>3. PurgeHarm(ids) \subseteq HarmType
  BY <1>1 DEF PurgeHarm, HarmType
<1>4. LeakOf(ids) \subseteq HarmType
  BY <1>2 DEF LeakOf, HarmType
<1>5. /\ ClobberOf(ids) \subseteq HarmType
      /\ {<<"timeout", row[i]>> : i \in ids} \subseteq HarmType
  BY <1>1 DEF ClobberOf, HarmType
<1> QED BY <1>3, <1>4, <1>5

(* The counters behind the bounds stay within them.                        *)
LEMMA CounterStep ==
  ASSUME OtherTypes, [Next]_vars
  PROVE  requests' \in 0..MaxRequests /\ crashes' \in 0..MaxCrashes
<1> USE ServiceBounds DEF OtherTypes
<1>1. ASSUME NEW c \in Client, Request(c)
      PROVE  requests' \in 0..MaxRequests /\ crashes' = crashes
  <2>1. requests' \in 0..MaxRequests
    BY <1>1 DEF Request
  <2>2. crashes' = crashes
    BY <1>1, Zenon
    DEF Request, Create, Submit, StartHere, StartReport, DeleteAssessment, DeleteTarget
  <2> QED BY <2>1, <2>2
<1>2. CASE Restart
  BY <1>2 DEF Restart
<1>3. CASE \E w \in Worker : Take(w) \/ Claim(w) \/ Finish(w)
  BY <1>3 DEF Take, Claim, Finish
<1>4. CASE \E t \in Thread : Continue(t)
  BY <1>4 DEF Continue, Load, Scan, Store, ScanFails, Save, Complete, ReadData, WriteReport,
     Purge, Unlink, GivesUp
<1>5. CASE UNCHANGED vars
  BY <1>5 DEF vars
<1> QED BY <1>1, <1>2, <1>3, <1>4, <1>5 DEF Next

(* Every step keeps the types of the rest.                                 *)
LEMMA OtherStep ==
  ASSUME OtherTypes, RowTypes, ThreadTypes, Placed, [Next]_vars
  PROVE  OtherTypes'
<1>0. requests' \in 0..MaxRequests /\ crashes' \in 0..MaxCrashes
  BY CounterStep
<1>1. ASSUME NEW c \in Client, NEW i \in Id, Create(c, i) PROVE OtherTypes'
  <2>1. made + 1 \in 0..LastMade
    BY <1>1, ServiceBounds DEF Create, OtherTypes
  <2> QED BY <1>1, <1>0, <2>1 DEF Create, OtherTypes
<1>2. ASSUME NEW c \in Client, NEW i \in Id, Submit(c, i) PROVE OtherTypes'
  <2>1. Append(queue, i) \in Seq(Id)
    BY <1>2, AppendProperties DEF OtherTypes
  <2> QED BY <1>2, <1>0, <2>1 DEF Submit, OtherTypes
<1>3. ASSUME NEW c \in Client, NEW i \in Id, StartHere(c, i) PROVE OtherTypes'
  BY <1>3, <1>0 DEF StartHere, Begin, Goto, OtherTypes
<1>4. ASSUME NEW c \in Client, NEW i \in Id, StartReport(c, i) PROVE OtherTypes'
  BY <1>4, <1>0 DEF StartReport, Begin, Goto, OtherTypes
<1>5. ASSUME NEW c \in Client, NEW i \in Id, DeleteAssessment(c, i) PROVE OtherTypes'
  BY <1>5, <1>0 DEF DeleteAssessment, Begin, Goto, OtherTypes
<1>6. ASSUME NEW c \in Client, DeleteTarget(c) PROVE OtherTypes'
  BY <1>6, <1>0 DEF DeleteTarget, Begin, Goto, OtherTypes
<1>7. ASSUME NEW w \in Worker, Take(w) PROVE OtherTypes'
  <2>1. Tail(queue) \in Seq(Id)
    BY <1>7, HeadTailProperties DEF Take, OtherTypes
  <2> QED BY <1>7, <1>0, <2>1 DEF Take, OtherTypes
<1>8. ASSUME NEW w \in Worker, Claim(w) PROVE OtherTypes'
  BY <1>8, <1>0 DEF Claim, SetJob, Goto, OtherTypes
<1>9. ASSUME NEW w \in Worker, Finish(w) PROVE OtherTypes'
  BY <1>9, <1>0 DEF Finish, SetJob, Leave, Goto, OtherTypes
<1>10. ASSUME NEW t \in Thread, Load(t) PROVE OtherTypes'
  BY <1>10, <1>0 DEF Load, RunEnds, Leave, Goto, OtherTypes
<1>11. ASSUME NEW t \in Thread, Scan(t) PROVE OtherTypes'
  BY <1>11, <1>0 DEF Scan, Goto, OtherTypes
<1>12. ASSUME NEW t \in Thread, Store(t) PROVE OtherTypes'
  BY <1>12, <1>0 DEF Store, Unlock, OtherTypes
<1>13. ASSUME NEW t \in Thread, ScanFails(t) PROVE OtherTypes'
  BY <1>13, <1>0 DEF ScanFails, Unlock, OtherTypes
<1>14. ASSUME NEW t \in Thread, Save(t) PROVE OtherTypes'
  BY <1>14, <1>0 DEF Save, RunEnds, Leave, Goto, OtherTypes
<1>15. ASSUME NEW t \in Thread, Complete(t) PROVE OtherTypes'
  BY <1>15, <1>0 DEF Complete, RunEnds, Leave, Goto, OtherTypes
<1>16. ASSUME NEW t \in Thread, ReadData(t) PROVE OtherTypes'
  BY <1>16, <1>0 DEF ReadData, RunEnds, Leave, Goto, OtherTypes
<1>17. ASSUME NEW t \in Thread, WriteReport(t) PROVE OtherTypes'
  BY <1>17, <1>0 DEF WriteReport, Leave, Goto, OtherTypes
<1>18. ASSUME NEW t \in Thread, Purge(t) PROVE OtherTypes'
  <2>1. Listed(t) \subseteq Id
    BY <1>18, PlacedDeletes DEF Purge
  <2>2. PurgeHarm(Listed(t)) \subseteq HarmType
    BY <2>1, HarmTypes
  <2> QED BY <1>18, <1>0, <2>2 DEF Purge, OtherTypes, HarmType
<1>19. ASSUME NEW t \in Thread, Unlink(t) PROVE OtherTypes'
  <2>1. PICK kept \in SUBSET Reports(doomed[t]) :
          harm' = harm \union LeakOf(kept) \union ClobberOf(Reports(doomed[t]) \ kept)
    BY <1>19 DEF Unlink
  <2>2. kept \subseteq Id /\ Reports(doomed[t]) \ kept \subseteq Id
    BY <1>19 DEF ThreadTypes, Reports
  <2>3. harm' \subseteq HarmType
    BY <2>1, <2>2, HarmTypes DEF OtherTypes, HarmType
  <2> QED BY <1>19, <1>0, <2>3 DEF Unlink, OtherTypes, HarmType
<1>20. ASSUME NEW t \in Thread, GivesUp(t) PROVE OtherTypes'
  <2>1. harm' \subseteq HarmType
    BY <1>20, HarmTypes DEF GivesUp, OtherTypes, HarmType, Existing
  <2> QED BY <1>20, <1>0, <2>1 DEF GivesUp, OtherTypes, HarmType
<1>21. CASE Restart
  <2>1. queue' \in Seq(Id)
    BY <1>21, SetToSeqType DEF Restart
  <2>2. harm' \subseteq HarmType
    <3>1. \A t \in Thread : LeakOf(doomed[t]) \subseteq HarmType
      BY HarmTypes DEF ThreadTypes
    <3> QED BY <1>21, <3>1 DEF Restart, OtherTypes, HarmType
  <2> QED BY <1>21, <1>0, <2>1, <2>2 DEF Restart, OtherTypes, HarmType
<1>22. CASE UNCHANGED vars
  BY <1>22, <1>0 DEF vars, OtherTypes
<1> QED
  BY <1>1, <1>2, <1>3, <1>4, <1>5, <1>6, <1>7, <1>8, <1>9, <1>10, <1>11, <1>12, <1>13,
     <1>14, <1>15, <1>16, <1>17, <1>18, <1>19, <1>20, <1>21, <1>22, Steps
  DEF AnyStep

-----------------------------------------------------------------------------
(* Where threads stand.                                                    *)

\* The steps of one thread.
StepOf(t) ==
  \/ /\ t \in Client
     /\ \/ \E i \in Id : \/ Create(t, i) \/ Submit(t, i) \/ StartHere(t, i)
                         \/ StartReport(t, i) \/ DeleteAssessment(t, i)
        \/ DeleteTarget(t)
  \/ t \in Worker /\ (Take(t) \/ Claim(t) \/ Finish(t))
  \/ Load(t) \/ Scan(t) \/ Store(t) \/ ScanFails(t) \/ Save(t) \/ Complete(t)
  \/ ReadData(t) \/ WriteReport(t) \/ Purge(t) \/ Unlink(t) \/ GivesUp(t)

\* What a step of another thread leaves alone.
Still(t) ==
  /\ pc'[t] = pc[t] /\ op'[t] = op[t] /\ on'[t] = on[t] /\ mine'[t] = mine[t]
  /\ copy'[t] = copy[t] /\ doomed'[t] = doomed[t]

(* A step is one thread's, a restart, or none.                             *)
LEMMA StepsOf ==
  [Next]_vars => (\E t \in Thread : StepOf(t)) \/ Restart \/ UNCHANGED vars
  BY Steps, Zenon DEF AnyStep, StepOf, Thread

(* The parts of a step that many actions share touch one thread.           *)
LEMMA OneThread ==
  ASSUME ThreadTypes, NEW t \in Thread, NEW u \in Thread, u # t
  PROVE  /\ \A place : Goto(t, place) => pc'[u] = pc[u]
         /\ Leave(t) => Still(u)
         /\ \A outcome : RunEnds(t, outcome) => Still(u)
         /\ \A what, i, place : Begin(t, what, i, place) => Still(u)
<1>1. \A place : Goto(t, place) => pc'[u] = pc[u]
  BY DEF Goto, ThreadTypes
<1>2. Leave(t) => Still(u)
  BY DEF Leave, Goto, Still, ThreadTypes
<1>3. \A outcome : RunEnds(t, outcome) => Still(u)
  BY <1>2 DEF RunEnds, Goto, Still, ThreadTypes
<1>4. \A what, i, place : Begin(t, what, i, place) => Still(u)
  BY DEF Begin, Goto, Still, ThreadTypes
<1> QED BY <1>1, <1>2, <1>3, <1>4

(* And so does each step.                                                  *)
LEMMA OthersStill ==
  ASSUME ThreadTypes, NEW t \in Thread, StepOf(t), NEW u \in Thread, u # t
  PROVE  Still(u)
<1>1. ASSUME NEW i \in Id, Create(t, i) \/ Submit(t, i) PROVE Still(u)
  BY <1>1 DEF Create, Submit, Still
<1>2. ASSUME NEW i \in Id, StartHere(t, i) \/ StartReport(t, i) \/ DeleteAssessment(t, i)
      PROVE  Still(u)
  BY <1>2, OneThread DEF StartHere, StartReport, DeleteAssessment
<1>3. CASE DeleteTarget(t) \/ Take(t)
  BY <1>3, OneThread DEF DeleteTarget, Take
<1>4. CASE Claim(t) \/ Scan(t)
  BY <1>4, OneThread DEF Claim, Scan, Still
<1>5. CASE Finish(t) \/ Unlink(t)
  BY <1>5, OneThread DEF Finish, Unlink
<1>6. CASE Load(t)
  BY <1>6, OneThread DEF Load, Still, ThreadTypes
<1>7. CASE Store(t)
  BY <1>7, OneThread DEF Store, Still
<1>8. CASE ScanFails(t) \/ Complete(t)
  BY <1>8, OneThread DEF ScanFails, Complete
<1>9. CASE Save(t)
  BY <1>9, OneThread DEF Save, Still
<1>10. CASE ReadData(t)
  BY <1>10, OneThread DEF ReadData, Still, ThreadTypes
<1>11. CASE WriteReport(t)
  BY <1>11, OneThread DEF WriteReport, Still, ThreadTypes
<1>12. CASE Purge(t)
  BY <1>12, OneThread DEF Purge, Still, ThreadTypes
<1>13. CASE GivesUp(t)
  BY <1>13, OneThread DEF GivesUp
<1> QED
  BY <1>1, <1>2, <1>3, <1>4, <1>5, <1>6, <1>7, <1>8, <1>9, <1>10, <1>11, <1>12, <1>13
  DEF StepOf

(* A thread that is done holds nothing; a pool thread whose run has ended  *)
(* keeps its task.                                                         *)
LEMMA LeaveAt ==
  ASSUME ThreadTypes, NEW t \in Thread, Leave(t)
  PROVE  /\ pc'[t] = "idle" /\ op'[t] = "none" /\ on'[t] = 0 /\ mine'[t] = 0
         /\ copy'[t] = NoReport /\ doomed'[t] = {}
  BY DEF Leave, Goto, ThreadTypes

(* Where a run ends.                                                       *)
LEMMA RunEndsAt ==
  ASSUME ThreadTypes, NEW t \in Thread, NEW outcome, RunEnds(t, outcome)
  PROVE  /\ mine'[t] = 0 /\ copy'[t] = NoReport
         /\ t \in Worker =>
              /\ pc'[t] = outcome /\ op'[t] = op[t] /\ on'[t] = on[t]
              /\ doomed'[t] = doomed[t]
         /\ t \notin Worker =>
              pc'[t] = "idle" /\ op'[t] = "none" /\ on'[t] = 0 /\ doomed'[t] = {}
<1>1. CASE t \in Worker
  BY <1>1 DEF RunEnds, Goto, ThreadTypes
<1>2. CASE t \notin Worker
  BY <1>2, LeaveAt DEF RunEnds
<1> QED BY <1>1, <1>2

(* Where an operation begins.                                              *)
LEMMA BeginAt ==
  ASSUME ThreadTypes, Placed, NEW t \in Thread, NEW what, NEW i, NEW place,
         Begin(t, what, i, place)
  PROVE  /\ pc[t] = "idle"
         /\ pc'[t] = place /\ op'[t] = what /\ on'[t] = i
         /\ mine'[t] = 0 /\ copy'[t] = NoReport /\ doomed'[t] = {}
  BY DEF Begin, Goto, ThreadTypes, Placed, PlacedAt

(* Where a thread left, and where a run ended, a thread is in place.       *)
LEMMA PlacedLeave ==
  ASSUME ThreadTypes, NEW t \in Thread, Leave(t)
  PROVE  PlacedAt(t)'
  BY LeaveAt DEF PlacedAt, Running, Reading, Outcome

(* The same where a run ends.                                              *)
LEMMA PlacedEnd ==
  ASSUME ThreadTypes, NEW t \in Thread, NEW outcome \in Outcome, RunEnds(t, outcome),
         op[t] = "run", on[t] \in Id
  PROVE  PlacedAt(t)'
  BY RunEndsAt DEF PlacedAt, Running, Reading, Outcome

(* At first every thread is idle.                                          *)
LEMMA PlacedInit == Init => Placed
  BY DEF Init, Placed, PlacedAt, Running, Reading, Outcome

(* Every step of a thread leaves it in place.                              *)
LEMMA PlacedOwn ==
  ASSUME Placed, ThreadTypes, RowTypes, OtherTypes, NEW t \in Thread, StepOf(t)
  PROVE  PlacedAt(t)'
<1> USE DEF PlacedAt, Running, Reading, Outcome
<1>1. t \in Worker => t \notin Client
  BY ThreadAssumption
<1>2. PlacedAt(t)
  BY DEF Placed
<1>3. ASSUME NEW i \in Id, t \in Client, Create(t, i) \/ Submit(t, i) PROVE PlacedAt(t)'
  BY <1>2, <1>3 DEF Create, Submit
<1>4. ASSUME NEW i \in Id, t \in Client,
             StartHere(t, i) \/ StartReport(t, i) \/ DeleteAssessment(t, i)
      PROVE  PlacedAt(t)'
  <2>1. \/ Begin(t, "run", i, "load") \/ Begin(t, "report", i, "read")
        \/ Begin(t, "delete", i, "purge")
    BY <1>4 DEF StartHere, StartReport, DeleteAssessment
  <2>2. /\ on'[t] = i /\ mine'[t] = 0
        /\ \/ pc'[t] = "load" /\ op'[t] = "run"
           \/ pc'[t] = "read" /\ op'[t] = "report"
           \/ pc'[t] = "purge" /\ op'[t] = "delete"
    BY <2>1, BeginAt
  <2> QED BY <1>1, <1>4, <2>2
<1>5. CASE t \in Client /\ DeleteTarget(t)
  <2>1. pc'[t] = "purge" /\ op'[t] = "delete all" /\ mine'[t] = 0
    BY <1>5, BeginAt DEF DeleteTarget
  <2> QED BY <1>1, <1>5, <2>1
<1>6. CASE t \in Worker /\ Take(t)
  <2>1. Head(queue) \in Id
    BY <1>6, HeadTailProperties DEF Take, OtherTypes
  <2>2. pc'[t] = "claim" /\ op'[t] = "run" /\ on'[t] = Head(queue) /\ mine'[t] = 0
    BY <1>6, BeginAt DEF Take
  <2> QED BY <1>6, <2>1, <2>2
<1>7. CASE t \in Worker /\ Claim(t)
  BY <1>2, <1>7 DEF Claim, Goto, ThreadTypes
<1>8. CASE t \in Worker /\ Finish(t)
  BY <1>8, PlacedLeave DEF Finish
<1>9. CASE Load(t)
  <2>1. op[t] = "run" /\ on[t] \in Id
    BY <1>9, PlacedRuns DEF Load
  <2>2. CASE Gone(t) \/ state[on[t]] = "COMPLETED"
    BY <1>9, <2>1, <2>2, PlacedEnd DEF Load
  <2>3. CASE ~(Gone(t) \/ state[on[t]] = "COMPLETED")
    <3>1. row[on[t]] \in Made
      BY <2>1, <2>3, Numbers DEF Gone, RowTypes
    <3> QED BY <1>2, <1>9, <2>1, <2>3, <3>1 DEF Load, Goto, ThreadTypes
  <2> QED BY <2>2, <2>3
<1>10. CASE Scan(t)
  BY <1>2, <1>10 DEF Scan, Goto, ThreadTypes
<1>11. CASE Store(t)
  <2>1. CASE Gone(t)
    BY <1>2, <1>11, <2>1, PlacedEnd DEF Store
  <2>2. CASE ~Gone(t)
    BY <1>2, <1>11, <2>2 DEF Store, Goto, ThreadTypes
  <2> QED BY <2>1, <2>2
<1>12. CASE ScanFails(t)
  BY <1>2, <1>12, PlacedEnd DEF ScanFails
<1>13. CASE Save(t)
  <2>1. CASE Gone(t)
    BY <1>2, <1>13, <2>1, PlacedEnd DEF Save
  <2>2. CASE ~Gone(t)
    BY <1>2, <1>13, <2>2 DEF Save, Goto, ThreadTypes
  <2> QED BY <2>1, <2>2
<1>14. CASE Complete(t)
  BY <1>2, <1>14, PlacedEnd DEF Complete
<1>15. CASE ReadData(t)
  <2>1. CASE Gone(t) /\ RunEnds(t, "FAILED")
    <3>1. CASE op[t] = "run"
      BY <1>2, <1>15, <2>1, <3>1, PlacedEnd DEF ReadData
    <3>2. CASE op[t] # "run"
      <4>1. t \notin Worker
        BY <1>2, <1>15, <3>2 DEF ReadData
      <4> QED BY <2>1, <4>1, PlacedLeave DEF RunEnds
    <3> QED BY <3>1, <3>2
  <2>2. CASE ~(Gone(t) /\ RunEnds(t, "FAILED"))
    <3>1. Part(t) \in Report /\ Part(t).by = op[t]
      BY <1>15, <2>2, PartType DEF ReadData
    <3> HIDE DEF Part
    <3> QED BY <1>2, <1>15, <2>2, <3>1 DEF ReadData, Goto, ThreadTypes
  <2> QED BY <2>1, <2>2
<1>16. CASE WriteReport(t)
  <2>1. CASE op[t] = "report"
    BY <1>16, <2>1, PlacedLeave DEF WriteReport
  <2>2. CASE op[t] # "report"
    BY <1>2, <1>16, <2>2 DEF WriteReport, Goto, ThreadTypes
  <2> QED BY <2>1, <2>2
<1>17. CASE Purge(t)
  BY <1>2, <1>17 DEF Purge, Goto, ThreadTypes
<1>18. CASE Unlink(t)
  BY <1>18, PlacedLeave DEF Unlink
<1>19. CASE GivesUp(t)
  <2>1. CASE pc[t] \in {"load", "scan", "store", "save", "complete"}
    BY <1>2, <1>19, <2>1, PlacedEnd DEF GivesUp
  <2>2. CASE pc[t] \notin {"load", "scan", "store", "save", "complete"}
    BY <1>19, <2>2, PlacedLeave DEF GivesUp
  <2> QED BY <2>1, <2>2
<1> QED
  BY <1>3, <1>4, <1>5, <1>6, <1>7, <1>8, <1>9, <1>10, <1>11, <1>12, <1>13, <1>14, <1>15,
     <1>16, <1>17, <1>18, <1>19
  DEF StepOf

(* And the others where they stand.                                        *)
LEMMA PlacedStep ==
  ASSUME Placed, ThreadTypes, RowTypes, OtherTypes, [Next]_vars
  PROVE  Placed'
<1>1. ASSUME NEW t \in Thread, StepOf(t) PROVE Placed'
  <2>1. ASSUME NEW u \in Thread, u # t PROVE PlacedAt(u)'
    <3>1. Still(u) /\ PlacedAt(u)
      BY <1>1, <2>1, OthersStill DEF Placed
    <3> QED BY <3>1 DEF Still, PlacedAt
  <2> QED BY <1>1, <2>1, PlacedOwn DEF Placed
<1>2. CASE Restart
  BY <1>2 DEF Restart, Placed, PlacedAt, Running, Reading, Outcome
<1>3. CASE UNCHANGED vars
  BY <1>3 DEF vars, Placed, PlacedAt
<1> QED BY <1>1, <1>2, <1>3, StepsOf

-----------------------------------------------------------------------------
(* What a step does to an id, and to a thread.                             *)

\* The assessment stays, and its child rows change as a run makes them.
Adds(t, i) ==
  /\ pc[t] = "store" /\ on[t] = i /\ row[i] # 0
  /\ found'[i] = found[i] \union {mine[t]}

Kept(i) ==
  /\ row'[i] = row[i]
  /\ found'[i] = found[i] \/ \E t \in Thread : Adds(t, i)
  /\ saved'[i] => saved[i] \/ \E t \in Thread : pc[t] = "save" /\ on[t] = i
  /\ state'[i] = "COMPLETED" =>
       state[i] = "COMPLETED" \/ \E t \in Thread : pc[t] = "complete" /\ on[t] = i
  /\ row[i] = 0 => Bare(i)'

\* The id is given to a new assessment.
Given(i) ==
  /\ row[i] = 0 /\ row'[i] \in Made /\ state'[i] = "QUEUED"
  /\ job'[i] = job[i] /\ saved'[i] = saved[i] /\ found'[i] = found[i]

\* The assessment is purged, and harm remembers who was at work on it.
Purged(i) ==
  /\ row[i] # 0 /\ row'[i] = 0 /\ Bare(i)'
  /\ \A t \in Thread : /\ RunGoing(t, i) => <<"yank", row[i]>> \in harm'
                       /\ ReportGoing(t, i) => <<"leak", row[i]>> \in harm'
  /\ \E c \in Client : pc'[c] = "unlink" /\ i \in doomed'[c]

(* Harm that was done stays remembered.                                    *)
LEMMA HarmGrows == ASSUME [Next]_vars PROVE harm \subseteq harm'
<1>1. CASE Restart
  BY <1>1 DEF Restart
<1>2. CASE UNCHANGED vars
  BY <1>2 DEF vars
<1>3. ASSUME NEW t \in Thread, Purge(t) \/ Unlink(t) PROVE harm \subseteq harm'
  BY <1>3 DEF Purge, Unlink
<1>4. ASSUME NEW t \in Thread, GivesUp(t) PROVE harm \subseteq harm'
  BY <1>4 DEF GivesUp
<1>5. ASSUME NEW t \in Thread, StepOf(t), ~Purge(t), ~Unlink(t), ~GivesUp(t)
      PROVE  harm' = harm
  BY <1>5, Zenon
  DEF StepOf, Create, Submit, StartHere, StartReport, DeleteAssessment, DeleteTarget, Take,
      Claim, Finish, Load, Scan, Store, ScanFails, Save, Complete, ReadData, WriteReport
<1> QED BY <1>1, <1>2, <1>3, <1>4, <1>5, StepsOf

(* A step keeps, gives out or purges an id.                                *)
LEMMA IdStep ==
  ASSUME Basics, NEW j \in Id, [Next]_vars
  PROVE  Kept(j) \/ Given(j) \/ Purged(j)
<1> USE DEF Basics
<1>0. ASSUME UNCHANGED <<row, state, job, saved, found>> PROVE Kept(j)
  BY <1>0 DEF Kept, Bare, Childless
<1>1. ASSUME NEW c \in Client, NEW i \in Id, Create(c, i)
      PROVE  Kept(j) \/ Given(j) \/ Purged(j)
  <2>1. CASE i = j
    <3>1. row[j] = 0
      BY <1>1, <2>1, Numbers DEF Create, NewId, Existing
    <3>2. made + 1 \in Made
      BY <1>1, ServiceBounds DEF Create, OtherTypes, Made
    <3> QED BY <1>1, <2>1, <3>1, <3>2 DEF Create, Given, RowTypes
  <2>2. CASE i # j
    BY <1>1, <2>2 DEF Create, Kept, Bare, Childless, RowTypes
  <2> QED BY <2>1, <2>2
<1>2. ASSUME NEW c \in Client, NEW i \in Id, Submit(c, i)
      PROVE  Kept(j) \/ Given(j) \/ Purged(j)
  BY <1>2 DEF Submit, Existing, Kept, Bare, Childless, RowTypes
<1>3. ASSUME NEW c \in Client, NEW i \in Id, StartHere(c, i)
      PROVE  Kept(j) \/ Given(j) \/ Purged(j)
  <2>1. UNCHANGED <<row, state, job, saved, found>>
    BY <1>3 DEF StartHere
  <2> QED BY <2>1, <1>0
<1>4. ASSUME NEW c \in Client, NEW i \in Id, StartReport(c, i)
      PROVE  Kept(j) \/ Given(j) \/ Purged(j)
  <2>1. UNCHANGED <<row, state, job, saved, found>>
    BY <1>4 DEF StartReport
  <2> QED BY <2>1, <1>0
<1>5. ASSUME NEW c \in Client, NEW i \in Id, DeleteAssessment(c, i)
      PROVE  Kept(j) \/ Given(j) \/ Purged(j)
  <2>1. UNCHANGED <<row, state, job, saved, found>>
    BY <1>5 DEF DeleteAssessment
  <2> QED BY <2>1, <1>0
<1>6. ASSUME NEW c \in Client, DeleteTarget(c) PROVE Kept(j) \/ Given(j) \/ Purged(j)
  <2>1. UNCHANGED <<row, state, job, saved, found>>
    BY <1>6 DEF DeleteTarget
  <2> QED BY <2>1, <1>0
<1>7. ASSUME NEW w \in Worker, Take(w) PROVE Kept(j) \/ Given(j) \/ Purged(j)
  <2>1. UNCHANGED <<row, state, job, saved, found>>
    BY <1>7 DEF Take
  <2> QED BY <2>1, <1>0
<1>8. ASSUME NEW w \in Worker, Claim(w) PROVE Kept(j) \/ Given(j) \/ Purged(j)
  BY <1>8 DEF Claim, SetJob, Kept, Bare, Childless, RowTypes
<1>9. ASSUME NEW w \in Worker, Finish(w) PROVE Kept(j) \/ Given(j) \/ Purged(j)
  BY <1>9 DEF Finish, SetJob, Kept, Bare, Childless, RowTypes
<1>10. ASSUME NEW t \in Thread, Load(t) PROVE Kept(j) \/ Given(j) \/ Purged(j)
  BY <1>10 DEF Load, Gone, Kept, Bare, Childless, RowTypes
<1>11. ASSUME NEW t \in Thread, Scan(t) PROVE Kept(j) \/ Given(j) \/ Purged(j)
  <2>1. UNCHANGED <<row, state, job, saved, found>>
    BY <1>11 DEF Scan
  <2> QED BY <2>1, <1>0
<1>12. ASSUME NEW t \in Thread, Store(t) PROVE Kept(j) \/ Given(j) \/ Purged(j)
  BY <1>12 DEF Store, Gone, Kept, Adds, Bare, Childless, RowTypes
<1>13. ASSUME NEW t \in Thread, ScanFails(t) PROVE Kept(j) \/ Given(j) \/ Purged(j)
  <2>1. row' = row /\ saved' = saved /\ job' = job
    BY <1>13 DEF ScanFails
  <2>2. state'[j] # "COMPLETED" \/ state'[j] = state[j]
    BY <1>13 DEF ScanFails, RowTypes
  <2>3. row[j] = 0 => state'[j] = state[j]
    BY <1>13 DEF ScanFails, RowTypes, Gone
  <2>4. found'[j] = found[j] \/ Adds(t, j)
    <3>1. lock = t => row[on[t]] # 0
      BY ThreadAssumption DEF LockHeld
    <3>2. CASE lock = t /\ on[t] = j
      BY <1>13, <3>1, <3>2 DEF ScanFails, RowTypes, Adds
    <3>3. CASE ~(lock = t /\ on[t] = j)
      BY <1>13, <3>3 DEF ScanFails, RowTypes
    <3> QED BY <3>2, <3>3
  <2> QED BY <2>1, <2>2, <2>3, <2>4 DEF Kept, Adds, Bare, Childless
<1>14. ASSUME NEW t \in Thread, Save(t) PROVE Kept(j) \/ Given(j) \/ Purged(j)
  BY <1>14 DEF Save, Gone, Kept, Bare, Childless, RowTypes
<1>15. ASSUME NEW t \in Thread, Complete(t) PROVE Kept(j) \/ Given(j) \/ Purged(j)
  BY <1>15 DEF Complete, Gone, Kept, Bare, Childless, RowTypes
<1>16. ASSUME NEW t \in Thread, ReadData(t) PROVE Kept(j) \/ Given(j) \/ Purged(j)
  <2>1. UNCHANGED <<row, state, job, saved, found>>
    BY <1>16 DEF ReadData
  <2> QED BY <2>1, <1>0
<1>17. ASSUME NEW t \in Thread, WriteReport(t) PROVE Kept(j) \/ Given(j) \/ Purged(j)
  <2>1. UNCHANGED <<row, state, job, saved, found>>
    BY <1>17 DEF WriteReport
  <2> QED BY <2>1, <1>0
<1>18. ASSUME NEW t \in Thread, Purge(t) PROVE Kept(j) \/ Given(j) \/ Purged(j)
  <2>1. CASE j \in Listed(t) /\ row[j] # 0
    <3>1. row'[j] = 0 /\ Bare(j)'
      BY <1>18, <2>1 DEF Purge, PurgeRows, Bare
    <3>2. \A u \in Thread : /\ RunGoing(u, j) => <<"yank", row[j]>> \in harm'
                            /\ ReportGoing(u, j) => <<"leak", row[j]>> \in harm'
      BY <1>18, <2>1 DEF Purge, PurgeHarm
    <3>3. t \in Client /\ pc'[t] = "unlink" /\ j \in doomed'[t]
      BY <1>18, <2>1, PlacedDeletes DEF Purge, Goto, ThreadTypes
    <3> QED BY <2>1, <3>1, <3>2, <3>3 DEF Purged
  <2>2. CASE j \notin Listed(t)
    BY <1>18, <2>2 DEF Purge, PurgeRows, Kept, Bare, Childless
  <2>3. CASE row[j] = 0
    BY <1>18, <2>3 DEF Purge, PurgeRows, Kept, Bare, Childless
  <2> QED BY <2>1, <2>2, <2>3
<1>19. ASSUME NEW t \in Thread, Unlink(t) PROVE Kept(j) \/ Given(j) \/ Purged(j)
  <2>1. UNCHANGED <<row, state, job, saved, found>>
    BY <1>19 DEF Unlink
  <2> QED BY <2>1, <1>0
<1>20. ASSUME NEW t \in Thread, GivesUp(t) PROVE Kept(j) \/ Given(j) \/ Purged(j)
  <2>1. UNCHANGED <<row, state, job, saved, found>>
    BY <1>20 DEF GivesUp
  <2> QED BY <2>1, <1>0
<1>21. CASE Restart
  BY <1>21 DEF Restart, Kept, Bare, Childless, RowTypes
<1>22. CASE UNCHANGED vars
  <2>1. UNCHANGED <<row, state, job, saved, found>>
    BY <1>22 DEF vars
  <2> QED BY <2>1, <1>0
<1> QED
  BY <1>1, <1>2, <1>3, <1>4, <1>5, <1>6, <1>7, <1>8, <1>9, <1>10, <1>11, <1>12, <1>13,
     <1>14, <1>15, <1>16, <1>17, <1>18, <1>19, <1>20, <1>21, <1>22, Steps
  DEF AnyStep

(* So an id without a row stays without child rows.                        *)
LEMMA ChildlessStep ==
  ASSUME Basics, [Next]_vars
  PROVE  Childless'
<1>1. \A i \in Id : Kept(i) \/ Given(i) \/ Purged(i)
  BY IdStep
<1> QED BY <1>1, Numbers DEF Childless, Kept, Given, Purged

(* Nobody purges or creates under another thread's lock.                   *)
LEMMA LockStep ==
  ASSUME Basics, [Next]_vars
  PROVE  LockHeld'
<1> USE DEF Basics
<1>1. ASSUME NEW t \in Thread, StepOf(t), lock' # NoThread
      PROVE  pc'[lock'] = "store" /\ row'[on'[lock']] # 0
  <2>1. CASE Scan(t) /\ lock' = t /\ ~Gone(t)
    BY <2>1 DEF Scan, Gone, Goto, ThreadTypes
  <2>2. CASE Store(t) \/ ScanFails(t)
    <3>1. lock = NoThread \/ lock = t
      BY <2>2 DEF Store, ScanFails, Free
    <3> QED BY <1>1, <2>2, <3>1 DEF Store, ScanFails, Unlock
  <2>3. CASE ~(Scan(t) /\ lock' = t /\ ~Gone(t)) /\ ~Store(t) /\ ~ScanFails(t)
    <3>1. lock' = lock
      BY <1>1, <2>3, Zenon
      DEF StepOf, Create, Submit, StartHere, StartReport, DeleteAssessment, DeleteTarget,
          Take, Claim, Finish, Load, Scan, Save, Complete, ReadData, WriteReport, Purge,
          Unlink, GivesUp
    <3>2. lock \in Thread /\ pc[lock] = "store" /\ row[on[lock]] # 0
      BY <1>1, <3>1 DEF LockHeld, OtherTypes
    <3>3. t # lock
      BY <1>1, <2>3, <3>2, ThreadAssumption DEF StepOf, Create, Submit, StartHere, StartReport,
         DeleteAssessment, DeleteTarget, Take, Begin, Claim, Finish, Load, Scan, Save,
         Complete, ReadData, WriteReport, Purge, Unlink, GivesUp, Free, Outcome
    <3>4. Still(lock)
      BY <1>1, <3>2, <3>3, OthersStill
    <3>5. row' = row
      <4>1. ~Free(t)
        BY <1>1, <3>1, <3>3 DEF Free
      <4> QED
        BY <1>1, <4>1, Zenon
        DEF StepOf, Create, Submit, StartHere, StartReport, DeleteAssessment, DeleteTarget,
            Take, Claim, Finish, Load, Scan, Store, ScanFails, Save, Complete, ReadData,
            WriteReport, Purge, Unlink, GivesUp
    <3> QED BY <3>1, <3>2, <3>4, <3>5 DEF Still
  <2> QED BY <2>1, <2>2, <2>3
<1>2. CASE Restart
  BY <1>2 DEF Restart, LockHeld
<1>3. CASE UNCHANGED vars
  BY <1>3 DEF vars, LockHeld
<1> QED BY <1>1, <1>2, <1>3, StepsOf DEF LockHeld

\* A thread that rests holds no assessment.
Rests(t) ==
  /\ mine'[t] = 0
  /\ \/ pc'[t] \in {"idle", "claim", "load", "purge", "unlink"} \union Outcome
     \/ pc'[t] = "read" /\ op'[t] = "report"

\* A run loads its assessment.
Loads(t) ==
  /\ pc[t] = "load" /\ on[t] \in Id /\ row[on[t]] # 0 /\ on'[t] = on[t]
  /\ mine'[t] = row[on[t]] /\ row' = row /\ found' = found
  /\ pc'[t] = "scan" \/ (pc'[t] = "read" /\ saved[on[t]])

\* A run or a report goes on, from where it stands to there.
Goes(t, there) ==
  /\ pc'[t] = there /\ on'[t] = on[t] /\ op'[t] = op[t] /\ mine'[t] = mine[t]
  /\ row' = row

Advances(t) ==
  \/ pc[t] = "scan" /\ Goes(t, "store")
  \/ /\ pc[t] = "store" /\ Goes(t, "save")
     /\ found'[on[t]] = found[on[t]] \union {mine[t]}
  \/ pc[t] = "save" /\ Goes(t, "read") /\ found' = found
  \/ /\ pc[t] = "read" /\ Goes(t, "gather") /\ found' = found
     /\ copy'[t].of = row[on[t]] /\ copy'[t].final = SaysCompleted(t)
  \/ /\ pc[t] = "gather" /\ Goes(t, "write") /\ found' = found
     /\ copy'[t].of = copy[t].of /\ copy'[t].final = copy[t].final
     /\ copy'[t].holds = found[on[t]]
  \/ /\ pc[t] = "write" /\ Goes(t, "complete") /\ found' = found
     /\ file'[on[t]] = copy[t]

Moves(t) == Still(t) \/ Rests(t) \/ Loads(t) \/ Advances(t)

(* A thread whose run ends, or that is done, rests.                        *)
LEMMA Resting ==
  ASSUME ThreadTypes, NEW t \in Thread
  PROVE  /\ Leave(t) => Rests(t)
         /\ \A outcome \in Outcome : RunEnds(t, outcome) => Rests(t)
<1>1. Leave(t) => Rests(t)
  BY LeaveAt DEF Rests
<1>2. ASSUME NEW outcome \in Outcome, RunEnds(t, outcome) PROVE Rests(t)
  <2>1. CASE t \in Worker
    BY <1>2, <2>1, RunEndsAt DEF Rests
  <2>2. CASE t \notin Worker
    BY <1>1, <1>2, <2>2 DEF RunEnds
  <2> QED BY <2>1, <2>2
<1> QED BY <1>1, <1>2

(* What the thread of a step does.                                         *)
LEMMA OwnMoves ==
  ASSUME Basics, NEW t \in Thread, StepOf(t)
  PROVE  Moves(t)
<1> USE DEF Basics, Moves
<1>1. ASSUME NEW i \in Id, Create(t, i) \/ Submit(t, i) PROVE Still(t)
  BY <1>1 DEF Create, Submit, Still
<1>2. ASSUME NEW i \in Id, StartHere(t, i) \/ StartReport(t, i) \/ DeleteAssessment(t, i)
      PROVE  Rests(t)
  <2>1. \/ Begin(t, "run", i, "load") \/ Begin(t, "report", i, "read")
        \/ Begin(t, "delete", i, "purge")
    BY <1>2 DEF StartHere, StartReport, DeleteAssessment
  <2> QED BY <2>1, BeginAt DEF Rests
<1>3. CASE DeleteTarget(t) \/ Take(t)
  <2>1. Begin(t, "delete all", 0, "purge") \/ Begin(t, "run", Head(queue), "claim")
    BY <1>3 DEF DeleteTarget, Take
  <2> QED BY <2>1, BeginAt DEF Rests
<1>4. CASE Claim(t) \/ Purge(t)
  <2>1. mine[t] = 0
    BY <1>4 DEF Claim, Purge, Placed, PlacedAt, Running, Reading
  <2>2. mine'[t] = mine[t] /\ pc'[t] \in {"load", "unlink"}
    BY <1>4 DEF Claim, Purge, Goto, ThreadTypes
  <2> QED BY <2>1, <2>2 DEF Rests
<1>5. CASE Finish(t) \/ Unlink(t)
  BY <1>5, Resting DEF Finish, Unlink
<1>6. CASE Load(t)
  <2>1. CASE Gone(t) \/ state[on[t]] = "COMPLETED"
    BY <1>6, <2>1, Resting DEF Load, Outcome
  <2>2. CASE ~(Gone(t) \/ state[on[t]] = "COMPLETED")
    <3>1. on[t] \in Id
      BY <1>6, PlacedRuns DEF Load
    <3> QED BY <1>6, <2>2, <3>1 DEF Load, Loads, Gone, Goto, ThreadTypes
  <2> QED BY <2>1, <2>2
<1>7. CASE Scan(t)
  BY <1>7 DEF Scan, Goto, Advances, Goes, ThreadTypes
<1>8. CASE Store(t)
  <2>1. CASE Gone(t)
    BY <1>8, <2>1, Resting DEF Store, Outcome
  <2>2. CASE ~Gone(t)
    <3>1. on[t] \in Id
      BY <1>8, PlacedRuns DEF Store
    <3> QED BY <1>8, <2>2, <3>1 DEF Store, Goto, Advances, Goes, ThreadTypes, RowTypes
  <2> QED BY <2>1, <2>2
<1>9. CASE ScanFails(t) \/ Complete(t)
  BY <1>9, Resting DEF ScanFails, Complete, Outcome
<1>10. CASE Save(t)
  <2>1. CASE Gone(t)
    BY <1>10, <2>1, Resting DEF Save, Outcome
  <2>2. CASE ~Gone(t)
    BY <1>10, <2>2 DEF Save, Goto, Advances, Goes, ThreadTypes
  <2> QED BY <2>1, <2>2
<1>11. CASE ReadData(t)
  <2>1. CASE Gone(t) /\ RunEnds(t, "FAILED")
    BY <2>1, Resting DEF Outcome
  <2>2. CASE ~(Gone(t) /\ RunEnds(t, "FAILED")) /\ pc[t] = "read"
    <3>1. /\ Part(t).of = row[on[t]] /\ Part(t).final = SaysCompleted(t)
      BY <2>2 DEF Part, NoData
    <3>2. copy'[t] = Part(t) /\ pc'[t] = "gather"
      BY <1>11, <2>2 DEF ReadData, Goto, ThreadTypes
    <3> QED BY <1>11, <2>2, <3>1, <3>2 DEF ReadData, Advances, Goes
  <2>3. CASE ~(Gone(t) /\ RunEnds(t, "FAILED")) /\ pc[t] = "gather"
    <3>1. copy[t] \in Report
      BY <2>3, PlacedRuns
    <3>2. /\ Part(t).of = copy[t].of /\ Part(t).final = copy[t].final
          /\ Part(t).holds = found[on[t]]
      BY <2>3, <3>1 DEF Part, Report
    <3>3. copy'[t] = Part(t) /\ pc'[t] = "write"
      BY <1>11, <2>3 DEF ReadData, Goto, ThreadTypes
    <3> QED BY <1>11, <2>3, <3>2, <3>3 DEF ReadData, Advances, Goes
  <2> QED BY <1>11, <2>1, <2>2, <2>3 DEF ReadData
<1>12. CASE WriteReport(t)
  <2>1. CASE op[t] = "report"
    BY <1>12, <2>1, Resting DEF WriteReport
  <2>2. CASE op[t] # "report"
    <3>1. on[t] \in Id
      BY <1>12, PlacedRuns DEF WriteReport
    <3> QED BY <1>12, <2>2, <3>1 DEF WriteReport, Goto, Advances, Goes, ThreadTypes, RowTypes
  <2> QED BY <2>1, <2>2
<1>13. CASE GivesUp(t)
  BY <1>13, Resting DEF GivesUp, Outcome
<1> QED
  BY <1>1, <1>2, <1>3, <1>4, <1>5, <1>6, <1>7, <1>8, <1>9, <1>10, <1>11, <1>12, <1>13
  DEF StepOf, Moves

(* What any step does to any thread.                                       *)
LEMMA MovesStep ==
  ASSUME Basics, NEW t \in Thread, [Next]_vars
  PROVE  Moves(t)
<1>1. ASSUME NEW u \in Thread, StepOf(u) PROVE Moves(t)
  BY <1>1, OwnMoves, OthersStill DEF Basics, Moves
<1>2. CASE Restart
  BY <1>2 DEF Restart, Moves, Rests
<1>3. CASE UNCHANGED vars
  BY <1>3 DEF vars, Moves, Still
<1> QED BY <1>1, <1>2, <1>3, StepsOf

-----------------------------------------------------------------------------
(* Whose findings are stored.                                              *)

(* A run's assessment is the one the id stands for, or harm remembers.     *)
LEMMA RunStays ==
  ASSUME Basics, RunsOwn, NEW t \in Thread, mine[t] # 0, [Next]_vars
  PROVE  /\ on[t] \in Id /\ mine[t] \in Made
         /\ <<"yank", mine[t]>> \in harm' \/ (row[on[t]] = mine[t] /\ Kept(on[t]))
<1>1. on[t] \in Id /\ mine[t] \in Made
  BY Numbers DEF Basics, Placed, PlacedAt, Running, Reading, ThreadTypes
<1>2. CASE Yanked(mine[t])
  BY <1>1, <1>2, HarmGrows DEF Yanked
<1>3. CASE ~Yanked(mine[t])
  <2>1. row[on[t]] = mine[t]
    BY <1>3 DEF RunsOwn
  <2>2. Kept(on[t]) \/ Given(on[t]) \/ Purged(on[t])
    BY <1>1, IdStep
  <2>3. ~Given(on[t])
    BY <2>1 DEF Given
  <2>4. Purged(on[t]) => <<"yank", mine[t]>> \in harm'
    BY <2>1 DEF Purged, RunGoing
  <2> QED BY <1>1, <2>1, <2>2, <2>3, <2>4 DEF Yanked
<1> QED BY <1>1, <1>2, <1>3

(* A run's assessment stays the run's own.                                 *)
LEMMA RunsOwnStep ==
  ASSUME Basics, RunsOwn, [Next]_vars
  PROVE  RunsOwn'
<1>1. ASSUME NEW t \in Thread, mine'[t] # 0
      PROVE  mine'[t] = row'[on'[t]] \/ <<"yank", mine'[t]>> \in harm'
  <2>1. CASE mine'[t] = mine[t] /\ on'[t] = on[t]
    BY <1>1, <2>1, RunStays DEF Kept
  <2>2. CASE Loads(t)
    BY <2>2 DEF Loads
  <2> QED BY <1>1, <2>1, <2>2, MovesStep DEF Moves, Still, Rests, Advances, Goes
<1> QED BY <1>1 DEF RunsOwn, Yanked

(* Only a run stores under an id, and only its own findings.               *)
LEMMA OwnFindingsStep ==
  ASSUME Basics, RunsOwn, OwnFindings, [Next]_vars
  PROVE  OwnFindings'
<1>1. ASSUME NEW i \in Id, NEW n \in found'[i]
      PROVE  n = row'[i] \/ <<"yank", n>> \in harm'
  <2>1. CASE Kept(i)
    <3>1. CASE n \in found[i]
      BY <2>1, <3>1, HarmGrows DEF OwnFindings, Yanked, Kept
    <3>2. CASE n \notin found[i]
      <4>1. PICK t \in Thread : Adds(t, i)
        BY <1>1, <2>1, <3>2 DEF Kept
      <4>2. n = mine[t] /\ on[t] = i /\ mine[t] # 0
        BY <1>1, <3>2, <4>1, PlacedRuns, Numbers DEF Adds, Basics
      <4> QED BY <2>1, <4>2, HarmGrows DEF RunsOwn, Yanked, Kept
    <3> QED BY <3>1, <3>2
  <2>2. CASE Given(i)
    BY <1>1, <2>2 DEF Given, Basics, Childless, Bare
  <2>3. CASE Purged(i)
    BY <1>1, <2>3 DEF Purged, Bare
  <2> QED BY <2>1, <2>2, <2>3, IdStep
<1> QED BY <1>1 DEF OwnFindings, Yanked

-----------------------------------------------------------------------------
(* What was scanned.                                                       *)

(* What an id kept has found, it has still.                                *)
LEMMA FindingsStay ==
  ASSUME NEW i \in Id, Kept(i)
  PROVE  found[i] \subseteq found'[i]
  BY DEF Kept, Adds

(* Who yanked once is remembered.                                          *)
LEMMA YankStays ==
  ASSUME [Next]_vars
  PROVE  /\ AnyYank => AnyYank'
         /\ \A n \in Made : <<"yank", n>> \in harm' => AnyYank'
  BY HarmGrows DEF AnyYank, Yanked

(* What a run has scanned is stored under its id for good.                 *)
LEMMA ScanStays ==
  ASSUME Basics, RunsOwn, RunsScanned, NEW t \in Thread, op[t] = "run", pc[t] \in Scanned,
         [Next]_vars
  PROVE  mine[t] \in found'[on[t]] \/ AnyYank'
<1>1. mine[t] \in found[on[t]] \/ AnyYank
  BY DEF RunsScanned
<1>2. mine[t] # 0 /\ mine[t] \in Made /\ on[t] \in Id
  BY PlacedRuns, Numbers DEF Basics, Scanned, Reading
<1>3. CASE <<"yank", mine[t]>> \in harm'
  BY <1>2, <1>3, YankStays
<1>4. CASE Kept(on[t])
  BY <1>1, <1>2, <1>4, FindingsStay, YankStays
<1> QED BY <1>2, <1>3, <1>4, RunStays

(* A run that has scanned belongs to the assessment whose findings are     *)
(* there.                                                                  *)
LEMMA ScannedRow ==
  ASSUME Basics, RunsOwn, RunsScanned, NEW t \in Thread, op[t] = "run", pc[t] \in Scanned
  PROVE  row[on[t]] \in found[on[t]] \/ AnyYank
<1>1. mine[t] \in found[on[t]] \/ AnyYank
  BY DEF RunsScanned
<1>2. mine[t] \in Made /\ mine[t] # 0
  BY PlacedRuns, Numbers DEF Basics, Scanned, Reading
<1> QED BY <1>1, <1>2 DEF RunsOwn, AnyYank

(* The id of a checkpoint, or of a completed assessment, has been scanned. *)
LEMMA ScannedStep ==
  ASSUME Basics, RunsOwn, RunsScanned, CompletedWasScanned, [Next]_vars,
         NEW i \in Id, saved'[i] \/ state'[i] = "COMPLETED"
  PROVE  row'[i] \in found'[i] \/ AnyYank'
<1>1. CASE Kept(i)
  <2>1. row[i] \in found[i] \/ AnyYank
    <3>1. CASE saved[i]
      BY <3>1 DEF RunsScanned
    <3>2. CASE state[i] = "COMPLETED"
      BY <3>2 DEF CompletedWasScanned, AnyYank
    <3>3. ASSUME NEW t \in Thread, pc[t] \in {"save", "complete"}, on[t] = i
          PROVE  row[i] \in found[i] \/ AnyYank
      BY <3>3, ScannedRow, PlacedRuns DEF Basics, Scanned
    <3> QED BY <1>1, <3>1, <3>2, <3>3 DEF Kept
  <2> QED BY <1>1, <2>1, FindingsStay, YankStays DEF Kept
<1>2. CASE Given(i)
  BY <1>2 DEF Given, Basics, Childless, Bare
<1>3. CASE Purged(i)
  BY <1>3 DEF Purged, Bare
<1> QED BY <1>1, <1>2, <1>3, IdStep

(* Whoever is past the scan has it stored.                                 *)
LEMMA RunsScannedStep ==
  ASSUME Basics, RunsOwn, RunsScanned, CompletedWasScanned, [Next]_vars
  PROVE  RunsScanned'
<1>1. ASSUME NEW t \in Thread, op'[t] = "run", pc'[t] \in Scanned
      PROVE  mine'[t] \in found'[on'[t]] \/ AnyYank'
  <2>1. CASE Still(t)
    BY <1>1, <2>1, ScanStays DEF Still
  <2>2. CASE Rests(t)
    BY <1>1, <2>2 DEF Rests, Scanned, Reading, Outcome
  <2>3. CASE Loads(t)
    BY <1>1, <2>3, YankStays DEF Loads, RunsScanned, Scanned, Reading
  <2>4. CASE pc[t] = "store" /\ Advances(t)
    BY <2>4 DEF Advances, Goes
  <2>5. CASE pc[t] # "store" /\ Advances(t)
    BY <1>1, <2>5, ScanStays DEF Advances, Goes, Scanned, Reading
  <2> QED BY <2>1, <2>2, <2>3, <2>4, <2>5, MovesStep DEF Moves
<1> QED BY <1>1, ScannedStep DEF RunsScanned

(* And so has whoever is COMPLETED.                                        *)
LEMMA CompletedStep ==
  ASSUME Basics, RunsOwn, RunsScanned, CompletedWasScanned, [Next]_vars
  PROVE  CompletedWasScanned'
  BY ScannedStep DEF CompletedWasScanned, AnyYank

-----------------------------------------------------------------------------
(* Whose reports there are.                                                *)

\* A report file is written or removed.
Written(i) ==
  /\ row' = row /\ found' = found
  /\ \E t \in Thread : pc[t] = "write" /\ on[t] = i /\ file'[i] = copy[t]

Removed(i) ==
  /\ file'[i] = NoReport
  /\ row[i] # 0 => <<"clobber", row[i]>> \in harm'

(* What a step does to a report file.                                      *)
LEMMA FileStep ==
  ASSUME Basics, NEW i \in Id, [Next]_vars
  PROVE  file'[i] = file[i] \/ Written(i) \/ Removed(i)
<1> USE DEF Basics
<1>1. ASSUME NEW t \in Thread, WriteReport(t) PROVE file'[i] = file[i] \/ Written(i)
  BY <1>1 DEF WriteReport, Written, RowTypes
<1>2. ASSUME NEW t \in Thread, Unlink(t) PROVE file'[i] = file[i] \/ Removed(i)
  <2>1. PICK kept \in SUBSET Reports(doomed[t]) :
          /\ RemoveReports(t, kept)
          /\ harm' = harm \union LeakOf(kept) \union ClobberOf(Reports(doomed[t]) \ kept)
    BY <1>2 DEF Unlink
  <2>2. CASE i \in (Reports(doomed[t]) \ kept) \intersect Existing
    BY <2>1, <2>2 DEF Removed, RemoveReports, Reports, ClobberOf
  <2>3. CASE i \in doomed[t] \ kept /\ i \notin (Reports(doomed[t]) \ kept) \intersect Existing
    BY <2>1, <2>3 DEF Removed, RemoveReports, Reports, Existing
  <2>4. CASE i \notin doomed[t] \ kept
    BY <2>1, <2>4 DEF RemoveReports
  <2> QED BY <2>2, <2>3, <2>4
<1>3. ASSUME NEW t \in Thread, StepOf(t), ~WriteReport(t), ~Unlink(t) PROVE file' = file
  BY <1>3, Zenon
  DEF StepOf, Create, Submit, StartHere, StartReport, DeleteAssessment, DeleteTarget, Take,
      Claim, Finish, Load, Scan, Store, ScanFails, Save, Complete, ReadData, Purge, GivesUp
<1>4. CASE Restart \/ UNCHANGED vars
  BY <1>4 DEF Restart, vars
<1> QED BY <1>1, <1>2, <1>3, <1>4, StepsOf

(* A deletion goes on until it has removed the file, or left it for good.  *)
LEMMA DoomedStep ==
  ASSUME Basics, NEW c \in Client, NEW i \in Id, pc[c] = "unlink", i \in doomed[c],
         file[i] # NoReport, [Next]_vars
  PROVE  \/ pc'[c] = "unlink" /\ i \in doomed'[c]
         \/ file'[i] = NoReport
         \/ <<"leak", file[i].of>> \in harm'
<1> USE DEF Basics, Thread
<1>1. ASSUME NEW u \in Thread, u # c, StepOf(u)
      PROVE  pc'[c] = "unlink" /\ i \in doomed'[c]
  BY <1>1, OthersStill DEF Still
<1>2. CASE StepOf(c)
  <2>1. Unlink(c)
    BY <1>2 DEF StepOf, Create, Submit, StartHere, StartReport, DeleteAssessment, DeleteTarget,
       Take, Begin, Claim, Finish, Load, Scan, Store, ScanFails, Save, Complete, ReadData,
       WriteReport, Purge, GivesUp, Outcome
  <2>2. PICK kept \in SUBSET Reports(doomed[c]) :
          /\ RemoveReports(c, kept)
          /\ harm' = harm \union LeakOf(kept) \union ClobberOf(Reports(doomed[c]) \ kept)
    BY <2>1 DEF Unlink
  <2>3. CASE i \in kept
    BY <2>2, <2>3 DEF LeakOf, Reports
  <2>4. CASE i \notin kept
    BY <2>2, <2>4 DEF RemoveReports
  <2> QED BY <2>3, <2>4
<1>3. CASE Restart
  <2>1. <<"leak", file[i].of>> \in LeakOf(doomed[c])
    BY DEF LeakOf, Reports
  <2> QED BY <1>3, <2>1 DEF Restart
<1>4. CASE UNCHANGED vars
  BY <1>4 DEF vars
<1> QED BY <1>1, <1>2, <1>3, <1>4, StepsOf

(* A report in the making stays its id's, or harm remembers.               *)
LEMMA CopyStays ==
  ASSUME Basics, CopiesOwn, NEW t \in Thread, pc[t] \in {"gather", "write"}, [Next]_vars
  PROVE  /\ on[t] \in Id /\ copy[t] \in Report /\ copy[t].of \in Made /\ copy[t].by = op[t]
         /\ <<"leak", copy[t].of>> \in harm' \/ (copy[t].of = row[on[t]] /\ Kept(on[t]))
<1>1. on[t] \in Id /\ copy[t] \in Report /\ copy[t].by = op[t]
  BY PlacedRuns DEF Basics
<1>2. copy[t].of \in Made /\ copy[t].of # 0
  BY <1>1, Numbers DEF Report
<1>3. CASE Leaked(copy[t].of)
  BY <1>1, <1>2, <1>3, HarmGrows DEF Leaked
<1>4. CASE copy[t].of = row[on[t]]
  <2>1. Kept(on[t]) \/ Given(on[t]) \/ Purged(on[t])
    BY <1>1, IdStep
  <2>2. ~Given(on[t])
    BY <1>2, <1>4 DEF Given
  <2>3. Purged(on[t]) => <<"leak", copy[t].of>> \in harm'
    BY <1>4 DEF Purged, ReportGoing
  <2> QED BY <1>1, <1>2, <1>4, <2>1, <2>2, <2>3
<1> QED BY <1>3, <1>4 DEF CopiesOwn

(* What a report is written from stays its subject's.                      *)
LEMMA CopiesOwnStep ==
  ASSUME Basics, CopiesOwn, [Next]_vars
  PROVE  CopiesOwn'
<1>1. ASSUME NEW t \in Thread, pc'[t] \in {"gather", "write"}
      PROVE  copy'[t].of = row'[on'[t]] \/ <<"leak", copy'[t].of>> \in harm'
  <2>1. CASE Still(t)
    BY <1>1, <2>1, CopyStays DEF Still, Kept
  <2>2. CASE Rests(t) \/ Loads(t)
    BY <1>1, <2>2 DEF Rests, Loads, Outcome
  <2>3. CASE Advances(t) /\ pc[t] = "gather"
    BY <2>3, CopyStays DEF Advances, Goes
  <2>4. CASE Advances(t) /\ pc[t] # "gather"
    BY <1>1, <2>4 DEF Advances, Goes
  <2> QED BY <2>1, <2>2, <2>3, <2>4, MovesStep DEF Moves
<1> QED BY <1>1 DEF CopiesOwn, Leaked

(* And what is written is the report of the id's assessment.               *)
LEMMA ReportOfItsOwnerStep ==
  ASSUME Basics, CopiesOwn, ReportOfItsOwner, [Next]_vars
  PROVE  ReportOfItsOwner'
<1>1. ASSUME NEW i \in Id, file'[i] # NoReport
      PROVE  \/ file'[i].of = row'[i]
             \/ <<"leak", file'[i].of>> \in harm'
             \/ \E c \in Client : pc'[c] = "unlink" /\ i \in doomed'[c]
  <2>1. CASE file'[i] = file[i]
    <3>1. CASE file[i].of = row[i]
      <4>1. row[i] # 0
        BY <1>1, <2>1, <3>1, Numbers DEF Basics, RowTypes, Report
      <4> QED BY <2>1, <3>1, <4>1, IdStep DEF Kept, Given, Purged
    <3>2. CASE <<"leak", file[i].of>> \in harm
      BY <2>1, <3>2, HarmGrows
    <3>3. ASSUME NEW c \in Client, pc[c] = "unlink", i \in doomed[c]
          PROVE  \/ <<"leak", file'[i].of>> \in harm'
                 \/ pc'[c] = "unlink" /\ i \in doomed'[c]
      BY <1>1, <2>1, <3>3, DoomedStep
    <3> QED BY <1>1, <2>1, <3>1, <3>2, <3>3 DEF ReportOfItsOwner
  <2>2. CASE Written(i)
    BY <2>2, CopyStays DEF Written
  <2>3. CASE Removed(i)
    BY <1>1, <2>3 DEF Removed
  <2> QED BY <2>1, <2>2, <2>3, FileStep
<1> QED BY <1>1 DEF ReportOfItsOwner

-----------------------------------------------------------------------------
(* Final reports.                                                          *)

(* Harm that is not there afterwards was not there before.                 *)
LEMMA Unharmed ==
  ASSUME [Next]_vars, ~AnyHarm'
  PROVE  /\ ~AnyHarm /\ ~AnyYank
         /\ \A n \in Made : <<"yank", n>> \notin harm' /\ <<"clobber", n>> \notin harm'
  BY HarmGrows DEF AnyHarm, AnyYank, Yanked

(* Without harm a run that has scanned has its assessment to itself.       *)
LEMMA RunUnharmed ==
  ASSUME Basics, RunsOwn, RunsScanned, NEW t \in Thread, op[t] = "run", pc[t] \in Scanned,
         [Next]_vars, ~AnyHarm'
  PROVE  on[t] \in Id /\ Kept(on[t]) /\ row[on[t]] \in found[on[t]] /\ row[on[t]] # 0
<1>1. mine[t] # 0
  BY PlacedRuns, Numbers DEF Basics, Scanned, Reading
<1>2. on[t] \in Id /\ Kept(on[t]) /\ row[on[t]] = mine[t]
  BY <1>1, RunStays, Unharmed
<1> QED BY <1>1, <1>2, ScannedRow, Unharmed

(* Then nothing is added to what it has found.                             *)
LEMMA FoundUnharmed ==
  ASSUME Basics, RunsOwn, NEW i \in Id, Kept(i), row[i] \in found[i], [Next]_vars, ~AnyHarm'
  PROVE  found'[i] = found[i]
<1>1. ASSUME NEW t \in Thread, Adds(t, i) PROVE mine[t] = row[i]
  <2>1. mine[t] \in Made /\ mine[t] # 0 /\ on[t] = i
    BY <1>1, PlacedRuns, Numbers DEF Adds, Basics
  <2> QED BY <2>1, Unharmed DEF RunsOwn, AnyYank
<1> QED BY <1>1 DEF Kept, Adds

(* And its final report stays in place.                                    *)
LEMMA FinalFileStays ==
  ASSUME Basics, RunsOwn, RunsReport, NEW i \in Id, Kept(i), row[i] \in found[i], row[i] # 0,
         FinalFile(i), [Next]_vars, ~AnyHarm'
  PROVE  FinalFile(i)'
<1>1. CASE file'[i] = file[i]
  BY <1>1, FoundUnharmed DEF FinalFile
<1>2. CASE Written(i)
  <2>1. PICK t \in Thread : pc[t] = "write" /\ on[t] = i /\ file'[i] = copy[t]
    BY <1>2 DEF Written
  <2>2. copy[t] \in Report /\ copy[t].by = op[t] /\ op[t] \in {"run", "report"}
    BY <2>1, PlacedRuns DEF Basics
  <2>3. file'[i] # NoReport
    BY <2>1, <2>2, ServiceBounds
  <2>4. op[t] = "run" => copy[t].final /\ copy[t].holds = found[i]
    BY <2>1, Unharmed DEF RunsReport
  <2> QED BY <1>2, <2>1, <2>2, <2>3, <2>4 DEF Written, FinalFile
<1>3. CASE Removed(i)
  <2>1. row[i] \in Made
    BY Numbers DEF Basics, RowTypes
  <2> QED BY <1>3, <2>1, Unharmed DEF Removed
<1> QED BY <1>1, <1>2, <1>3, FileStep

(* A run's report is final, and holds all that is found.                   *)
LEMMA RunsReportStep ==
  ASSUME Basics, RunsOwn, RunsScanned, RunsReport, [Next]_vars
  PROVE  RunsReport'
<1>1. ASSUME ~AnyHarm', NEW t \in Thread, op'[t] = "run"
      PROVE  /\ pc'[t] \in {"gather", "write"} => copy'[t].final
             /\ pc'[t] = "write" => copy'[t].holds = found'[on'[t]]
             /\ pc'[t] = "complete" => /\ file'[on'[t]] # NoReport
                                       /\ \/ file'[on'[t]].by = "report"
                                          \/ /\ file'[on'[t]].final
                                             /\ file'[on'[t]].holds = found'[on'[t]]
  <2>1. op[t] = "run" =>
          /\ pc[t] \in {"gather", "write"} => copy[t].final
          /\ pc[t] = "write" => copy[t].holds = found[on[t]]
          /\ pc[t] = "complete" => FinalFile(on[t])
    BY <1>1, Unharmed DEF RunsReport
  <2>2. CASE Still(t) /\ pc[t] \in {"gather", "write", "complete"}
    <3>1. op[t] = "run" /\ pc[t] \in Scanned
      BY <1>1, <2>2 DEF Still, Scanned, Reading
    <3>2. on[t] \in Id /\ Kept(on[t]) /\ row[on[t]] \in found[on[t]] /\ row[on[t]] # 0
      BY <1>1, <3>1, RunUnharmed
    <3>3. found'[on[t]] = found[on[t]]
      BY <1>1, <3>2, FoundUnharmed
    <3>4. pc[t] = "complete" => FinalFile(on[t])'
      <4>1. CASE pc[t] = "complete"
        <5>1. FinalFile(on[t])
          BY <2>1, <3>1, <4>1
        <5>2. ASSUME NEW i \in Id, i = on[t] PROVE FinalFile(i)'
          BY <1>1, <3>2, <5>1, <5>2, FinalFileStays
        <5> QED BY <2>2, <3>2, <5>2 DEF Still, FinalFile
      <4> QED BY <4>1
    <3> QED BY <2>1, <2>2, <3>1, <3>3, <3>4 DEF Still, FinalFile
  <2>3. CASE Still(t) /\ pc[t] \notin {"gather", "write", "complete"}
    BY <2>3 DEF Still
  <2>4. CASE Rests(t) \/ Loads(t)
    BY <2>4 DEF Rests, Loads, Outcome
  <2>5. CASE Advances(t) /\ pc[t] = "read"
    BY <1>1, <2>5 DEF Advances, Goes, SaysCompleted
  <2>6. CASE Advances(t) /\ pc[t] = "gather"
    BY <1>1, <2>1, <2>6 DEF Advances, Goes
  <2>7. CASE Advances(t) /\ pc[t] = "write"
    <3>1. copy[t] # NoReport
      BY <2>7, PlacedRuns, ServiceBounds DEF Basics
    <3> QED BY <1>1, <2>1, <2>7, <3>1 DEF Advances, Goes
  <2>8. CASE Advances(t) /\ pc[t] \notin Reading
    BY <2>8 DEF Advances, Goes, Reading
  <2> QED
    BY <2>2, <2>3, <2>4, <2>5, <2>6, <2>7, <2>8, MovesStep DEF Moves, Reading
<1> QED BY <1>1 DEF RunsReport, FinalFile

(* And so does the report of a COMPLETED assessment.                       *)
LEMMA FinalReportStep ==
  ASSUME Basics, RunsOwn, RunsScanned, CompletedWasScanned, RunsReport, FinalReport,
         [Next]_vars
  PROVE  FinalReport'
<1>1. ASSUME NEW i \in Id, state'[i] = "COMPLETED", ~AnyHarm' PROVE FinalFile(i)'
  <2>1. Kept(i)
    BY <1>1, IdStep DEF Given, Purged, Bare
  <2>2. row[i] \in found[i] /\ row[i] # 0 /\ FinalFile(i)
    <3>1. CASE state[i] = "COMPLETED"
      <4>1. FinalFile(i)
        BY <1>1, <3>1, Unharmed DEF FinalReport, FinalFile, AnyHarm
      <4>2. row[i] # 0
        BY <3>1 DEF Basics, Childless, Bare
      <4>3. row[i] \in found[i]
        BY <1>1, <3>1, Unharmed DEF CompletedWasScanned, AnyYank
      <4> QED BY <4>1, <4>2, <4>3
    <3>2. ASSUME NEW t \in Thread, pc[t] = "complete", on[t] = i
          PROVE  row[i] \in found[i] /\ row[i] # 0 /\ FinalFile(i)
      <4>1. op[t] = "run"
        BY <3>2, PlacedRuns DEF Basics
      <4>2. FinalFile(i)
        BY <1>1, <3>2, <4>1, Unharmed DEF RunsReport
      <4> QED BY <1>1, <3>2, <4>1, <4>2, RunUnharmed DEF Scanned
    <3> QED BY <1>1, <2>1, <3>1, <3>2 DEF Kept
  <2> QED BY <1>1, <2>1, <2>2, FinalFileStays
<1> QED BY <1>1 DEF FinalReport, FinalFile, AnyHarm

(* What a report that shows an assessment as completed will hold.          *)
LEMMA CopiesHoldStep ==
  ASSUME Basics, RunsOwn, RunsScanned, CompletedWasScanned, CopiesOwn, CopiesHold, [Next]_vars
  PROVE  CopiesHold'
<1>1. ASSUME NEW t \in Thread, pc'[t] \in {"gather", "write"}, copy'[t].final
      PROVE  \/ copy'[t].of \in (IF pc'[t] = "gather" THEN found'[on'[t]] ELSE copy'[t].holds)
             \/ <<"leak", copy'[t].of>> \in harm' \/ AnyYank'
  <2>1. CASE Still(t) /\ pc[t] = "gather"
    <3>1. copy[t].of \in found[on[t]] \/ <<"leak", copy[t].of>> \in harm' \/ AnyYank'
      BY <1>1, <2>1, HarmGrows, YankStays DEF Still, CopiesHold, Leaked
    <3>2. on[t] \in Id /\ (<<"leak", copy[t].of>> \in harm' \/ Kept(on[t]))
      BY <2>1, CopyStays
    <3>3. copy[t].of \in found'[on[t]] \/ <<"leak", copy[t].of>> \in harm' \/ AnyYank'
      BY <3>1, <3>2, FindingsStay
    <3> QED BY <2>1, <3>3 DEF Still
  <2>2. CASE Still(t) /\ pc[t] = "write"
    BY <1>1, <2>2, HarmGrows, YankStays DEF Still, CopiesHold, Leaked
  <2>3. CASE Rests(t) \/ Loads(t)
    BY <1>1, <2>3 DEF Rests, Loads, Outcome
  <2>4. CASE Advances(t) /\ pc[t] = "read"
    <3>1. op[t] = "run" \/ state[on[t]] = "COMPLETED"
      BY <1>1, <2>4 DEF Advances, SaysCompleted
    <3>2. on[t] \in Id
      BY <2>4, PlacedRuns DEF Basics
    <3>3. row[on[t]] \in found[on[t]] \/ AnyYank
      BY <2>4, <3>1, <3>2, ScannedRow DEF CompletedWasScanned, AnyYank, Scanned, Reading
    <3> QED BY <2>4, <3>3, YankStays DEF Advances, Goes
  <2>5. CASE Advances(t) /\ pc[t] = "gather"
    BY <1>1, <2>5, HarmGrows, YankStays DEF Advances, Goes, CopiesHold, Leaked
  <2>6. CASE Advances(t) /\ pc[t] \notin {"read", "gather"}
    BY <1>1, <2>6 DEF Advances, Goes
  <2> QED BY <1>1, <2>1, <2>2, <2>3, <2>4, <2>5, <2>6, MovesStep DEF Moves, Still
<1> QED BY <1>1 DEF CopiesHold, Leaked

(* And what a report on disk that shows one as completed holds.            *)
LEMMA FinalHoldsAllStep ==
  ASSUME Basics, CopiesHold, FinalHoldsAll, [Next]_vars
  PROVE  FinalHoldsAll'
<1>1. ASSUME NEW i \in Id, file'[i] # NoReport, file'[i].final
      PROVE  file'[i].of \in file'[i].holds \/ <<"leak", file'[i].of>> \in harm' \/ AnyYank'
  <2>1. CASE file'[i] = file[i]
    BY <1>1, <2>1, HarmGrows, YankStays DEF FinalHoldsAll, AnyYank
  <2>2. CASE Written(i)
    BY <1>1, <2>2, HarmGrows, YankStays DEF Written, CopiesHold, Leaked
  <2>3. CASE Removed(i)
    BY <1>1, <2>3 DEF Removed
  <2> QED BY <2>1, <2>2, <2>3, FileStep
<1> QED BY <1>1 DEF FinalHoldsAll, AnyYank

-----------------------------------------------------------------------------
(* Who serves a job.                                                       *)

(* The pool has every task it had and the new one, or all but the one      *)
(* taken.                                                                  *)
LEMMA Tasks ==
  ASSUME NEW s \in Seq(Id), NEW i \in Id
  PROVE  /\ i \in ToSet(Append(s, i)) /\ ToSet(s) \subseteq ToSet(Append(s, i))
         /\ s # <<>> => ToSet(s) \subseteq {Head(s)} \union ToSet(Tail(s))
<1>1. i \in ToSet(Append(s, i))
  BY DEF ToSet
<1>2. ToSet(s) \subseteq ToSet(Append(s, i))
  BY DEF ToSet
<1>3. ASSUME s # <<>>, NEW k \in DOMAIN s, s[k] # Head(s) PROVE s[k] \in ToSet(Tail(s))
  <2>1. k - 1 \in DOMAIN Tail(s) /\ Tail(s)[k - 1] = s[k]
    BY <1>3
  <2> QED BY <2>1 DEF ToSet
<1> QED BY <1>1, <1>2, <1>3 DEF ToSet

(* A pool thread keeps its task until the job is settled, or it gave up.   *)
LEMMA WorkerKeeps ==
  ASSUME Basics, NEW w \in Worker, on[w] \in Id, row[on[w]] # 0, StepOf(w)
  PROVE  \/ on'[w] = on[w] \/ job'[on[w]] \notin Active
         \/ <<"timeout", row[on[w]]>> \in harm'
<1> USE DEF Basics, Thread
<1>1. w \notin Client /\ pc[w] # "idle" /\ op[w] \in {"none", "run"}
  BY ThreadAssumption, Numbers DEF Placed, PlacedAt
<1>2. ~Take(w) /\ ~Purge(w) /\ ~Unlink(w)
  BY <1>1, PlacedDeletes DEF Take, Begin, Purge, Unlink
<1>3. CASE Claim(w) \/ Scan(w)
  BY <1>3 DEF Claim, Scan
<1>4. CASE Finish(w)
  BY <1>4 DEF Finish, SetJob, RowTypes, Active
<1>5. CASE Load(w)
  BY <1>5, RunEndsAt DEF Load
<1>6. CASE Store(w) \/ Save(w)
  BY <1>6, RunEndsAt DEF Store, Save
<1>7. CASE ScanFails(w) \/ Complete(w)
  BY <1>7, RunEndsAt DEF ScanFails, Complete
<1>8. CASE ReadData(w)
  BY <1>8, RunEndsAt DEF ReadData
<1>9. CASE WriteReport(w)
  BY <1>1, <1>9 DEF WriteReport
<1>10. CASE GivesUp(w)
  BY <1>10, RunEndsAt DEF GivesUp, Existing
<1> QED BY <1>1, <1>2, <1>3, <1>4, <1>5, <1>6, <1>7, <1>8, <1>9, <1>10 DEF StepOf

(* A task stays with the pool until a thread has it.                       *)
LEMMA TaskStays ==
  ASSUME Basics, NEW i \in Id, i \in ToSet(queue), [Next]_vars
  PROVE  i \in ToSet(queue') \/ (\E w \in Worker : on'[w] = i) \/ crashes' > 0
<1> USE DEF Basics, OtherTypes
<1>1. ASSUME NEW t \in Thread, NEW j \in Id, Submit(t, j) PROVE i \in ToSet(queue')
  BY <1>1, Tasks DEF Submit
<1>2. ASSUME NEW w \in Worker, Take(w) PROVE i \in ToSet(queue') \/ on'[w] = i
  <2>1. i = Head(queue) \/ i \in ToSet(queue')
    BY <1>2, Tasks DEF Take
  <2>2. on'[w] = Head(queue)
    BY <1>2, BeginAt DEF Take, Thread
  <2> QED BY <2>1, <2>2
<1>3. ASSUME NEW t \in Thread, StepOf(t), \A j \in Id : ~Submit(t, j),
             t \in Worker => ~Take(t)
      PROVE  queue' = queue
  BY <1>3, Zenon
  DEF StepOf, Create, StartHere, StartReport, DeleteAssessment, DeleteTarget, Claim, Finish,
      Load, Scan, Store, ScanFails, Save, Complete, ReadData, WriteReport, Purge, Unlink,
      GivesUp
<1>4. CASE Restart
  BY <1>4, ServiceBounds DEF Restart
<1>5. CASE UNCHANGED vars
  BY <1>5 DEF vars
<1>6. ASSUME NEW t \in Thread, StepOf(t)
      PROVE  i \in ToSet(queue') \/ \E w \in Worker : on'[w] = i
  <2>1. CASE Take(t) /\ t \in Worker
    BY <1>2, <2>1
  <2>2. CASE \E j \in Id : Submit(t, j)
    BY <1>1, <2>2
  <2>3. CASE ~(Take(t) /\ t \in Worker) /\ \A j \in Id : ~Submit(t, j)
    BY <1>3, <1>6, <2>3
  <2> QED BY <2>1, <2>2, <2>3
<1> QED BY <1>4, <1>5, <1>6, StepsOf

(* A job that is served stays so until it is settled.                      *)
LEMMA ServedStays ==
  ASSUME Basics, NEW i \in Id, row[i] # 0, Served(i), job'[i] \in Active, [Next]_vars
  PROVE  Served(i)' \/ crashes' > 0 \/ <<"timeout", row[i]>> \in harm'
<1>1. CASE i \in ToSet(queue)
  BY <1>1, TaskStays DEF Served
<1>2. ASSUME NEW w \in Worker, on[w] = i
      PROVE  on'[w] = i \/ crashes' > 0 \/ <<"timeout", row[i]>> \in harm'
  <2>1. CASE StepOf(w)
    BY <1>2, <2>1, WorkerKeeps
  <2>2. ASSUME NEW u \in Thread, u # w, StepOf(u) PROVE on'[w] = i
    BY <1>2, <2>2, OthersStill DEF Basics, Still, Thread
  <2>3. CASE Restart
    BY <2>3, ServiceBounds DEF Restart, Basics, OtherTypes
  <2>4. CASE UNCHANGED vars
    BY <1>2, <2>4 DEF vars
  <2> QED BY <2>1, <2>2, <2>3, <2>4, StepsOf
<1> QED BY <1>1, <1>2 DEF Served

(* A job becomes active when it is submitted or claimed.                   *)
LEMMA JobStep ==
  ASSUME Basics, NEW i \in Id, row'[i] # 0, job'[i] \in Active, [Next]_vars
  PROVE  \/ row[i] = row'[i] /\ job[i] \in Active
         \/ Served(i)' \/ crashes' > 0
<1> USE DEF Basics, RowTypes, OtherTypes
<1>1. ASSUME NEW c \in Thread, NEW j \in Id, Create(c, j)
      PROVE  row[i] = row'[i] /\ job[i] \in Active
  <2>1. row[j] = 0
    BY <1>1, Numbers DEF Create, NewId, Existing
  <2>2. job[j] \notin Active
    BY <2>1 DEF Childless, Bare, Active
  <2> QED BY <1>1, <2>1, <2>2 DEF Create
<1>2. ASSUME NEW c \in Thread, NEW j \in Id, Submit(c, j)
      PROVE  row[i] = row'[i] /\ (job[i] \in Active \/ Served(i)')
  <2>1. CASE i = j
    BY <1>2, <2>1, Tasks DEF Submit, Served
  <2>2. CASE i # j
    BY <1>2, <2>2 DEF Submit
  <2> QED BY <2>1, <2>2
<1>3. ASSUME NEW w \in Worker, Claim(w)
      PROVE  row[i] = row'[i] /\ (job[i] \in Active \/ Served(i)')
  <2>1. on'[w] = on[w] /\ row' = row
    BY <1>3 DEF Claim
  <2>2. on[w] = i \/ job'[i] = job[i]
    BY <1>3 DEF Claim, SetJob
  <2> QED BY <2>1, <2>2 DEF Served
<1>4. ASSUME NEW w \in Worker, Finish(w) PROVE row[i] = row'[i] /\ job[i] \in Active
  BY <1>4 DEF Finish, SetJob, Active, Outcome
<1>5. ASSUME NEW c \in Thread, Purge(c) PROVE row[i] = row'[i] /\ job[i] \in Active
  BY <1>5 DEF Purge, PurgeRows, Active
<1>6. ASSUME NEW t \in Thread, StepOf(t), \A j \in Id : ~Create(t, j) /\ ~Submit(t, j),
             t \in Worker => ~Claim(t) /\ ~Finish(t), ~Purge(t)
      PROVE  row' = row /\ job' = job
  BY <1>6, Zenon
  DEF StepOf, StartHere, StartReport, DeleteAssessment, DeleteTarget, Take, Load, Scan,
      Store, ScanFails, Save, Complete, ReadData, WriteReport, Unlink, GivesUp
<1>7. CASE Restart
  BY <1>7, ServiceBounds DEF Restart
<1>8. CASE UNCHANGED vars
  BY <1>8 DEF vars
<1> QED BY <1>1, <1>2, <1>3, <1>4, <1>5, <1>6, <1>7, <1>8, StepsOf

(* A crash is never forgotten.                                             *)
LEMMA CrashesStep ==
  ASSUME [Next]_vars
  PROVE  crashes' \in {crashes, crashes + 1}
<1>1. ASSUME NEW t \in Thread, StepOf(t) PROVE crashes' = crashes
  BY <1>1, Zenon
  DEF StepOf, Create, Submit, StartHere, StartReport, DeleteAssessment, DeleteTarget, Take,
      Claim, Finish, Load, Scan, Store, ScanFails, Save, Complete, ReadData, WriteReport,
      Purge, Unlink, GivesUp
<1> QED BY <1>1, StepsOf DEF Restart, vars

(* So no active job is left to nobody.                                     *)
LEMMA ActiveJobServedStep ==
  ASSUME Basics, ActiveJobServed, [Next]_vars
  PROVE  ActiveJobServed'
<1>1. ASSUME NEW i \in Id, row'[i] # 0, job'[i] \in Active
      PROVE  Served(i)' \/ crashes' > 0 \/ <<"timeout", row'[i]>> \in harm'
  <2>1. CASE row[i] = row'[i] /\ job[i] \in Active
    <3>1. Served(i) \/ crashes > 0 \/ <<"timeout", row[i]>> \in harm
      BY <1>1, <2>1 DEF ActiveJobServed, Existing
    <3>2. CASE Served(i)
      BY <1>1, <2>1, <3>2, ServedStays
    <3>3. CASE crashes > 0
      <4>1. crashes' \in {crashes, crashes + 1}
        BY CrashesStep
      <4> QED BY <3>3, <4>1 DEF Basics, OtherTypes
    <3>4. CASE <<"timeout", row[i]>> \in harm
      BY <2>1, <3>4, HarmGrows
    <3> QED BY <3>1, <3>2, <3>3, <3>4
  <2> QED BY <1>1, <2>1, JobStep
<1> QED BY <1>1 DEF ActiveJobServed, Existing

-----------------------------------------------------------------------------
(* The theorems.                                                           *)

(* Initially there is nothing: no row, no report, no thread at work.       *)
LEMMA BasicsInit == Init => Basics
<1> SUFFICES ASSUME Init PROVE Basics
  OBVIOUS
<1>1. ThreadTypes
  BY Numbers DEF Init, ThreadTypes
<1>2. RowTypes
  BY Numbers DEF Init, RowTypes
<1>3. OtherTypes
  BY ServiceBounds DEF Init, OtherTypes
<1>4. Childless /\ LockHeld
  BY DEF Init, Childless, Bare, LockHeld
<1> QED BY <1>1, <1>2, <1>3, <1>4, PlacedInit DEF Basics

(* And every step keeps types, places and the lock.                        *)
LEMMA BasicsStep == Basics /\ [Next]_vars => Basics'
<1> SUFFICES ASSUME Basics, [Next]_vars PROVE Basics'
  OBVIOUS
<1>1. ThreadTypes' /\ RowTypes' /\ OtherTypes'
  BY ThreadStep, RowStep, OtherStep DEF Basics
<1>2. Placed' /\ Childless' /\ LockHeld'
  BY PlacedStep, ChildlessStep, LockStep DEF Basics
<1> QED BY <1>1, <1>2 DEF Basics

\* What holds of the service throughout.
ServiceInv ==
  /\ Basics
  /\ RunsOwn /\ OwnFindings
  /\ RunsScanned /\ CompletedWasScanned
  /\ CopiesOwn /\ ReportOfItsOwner
  /\ RunsReport /\ FinalReport
  /\ CopiesHold /\ FinalHoldsAll
  /\ ActiveJobServed

(* ServiceInv is inductive, whatever order requests, runs, deletions,      *)
(* reports, timeouts and crashes come in.                                  *)
THEOREM ServiceInvariant == Spec => []ServiceInv
<1>1. Init => ServiceInv
  <2> SUFFICES ASSUME Init PROVE ServiceInv
    OBVIOUS
  <2>1. RunsOwn /\ RunsScanned /\ CopiesOwn /\ RunsReport /\ CopiesHold
    BY DEF Init, RunsOwn, RunsScanned, CopiesOwn, RunsReport, CopiesHold, Scanned, Reading
  <2>2. OwnFindings /\ CompletedWasScanned /\ ReportOfItsOwner /\ FinalReport /\ FinalHoldsAll
    BY DEF Init, OwnFindings, CompletedWasScanned, ReportOfItsOwner, FinalReport, FinalHoldsAll
  <2>3. ActiveJobServed
    BY DEF Init, ActiveJobServed, Existing
  <2> QED BY <2>1, <2>2, <2>3, BasicsInit DEF ServiceInv
<1>2. ServiceInv /\ [Next]_vars => ServiceInv'
  <2> SUFFICES ASSUME ServiceInv, [Next]_vars PROVE ServiceInv'
    OBVIOUS
  <2> USE DEF ServiceInv
  <2>1. Basics'
    BY BasicsStep
  <2>2. RunsOwn' /\ OwnFindings'
    BY RunsOwnStep, OwnFindingsStep
  <2>3. RunsScanned' /\ CompletedWasScanned'
    BY RunsScannedStep, CompletedStep
  <2>4. CopiesOwn' /\ ReportOfItsOwner'
    BY CopiesOwnStep, ReportOfItsOwnerStep
  <2>5. RunsReport' /\ FinalReport'
    BY RunsReportStep, FinalReportStep
  <2>6. CopiesHold' /\ FinalHoldsAll'
    BY CopiesHoldStep, FinalHoldsAllStep
  <2>7. ActiveJobServed'
    BY ActiveJobServedStep
  <2> QED BY <2>1, <2>2, <2>3, <2>4, <2>5, <2>6, <2>7
<1> QED BY <1>1, <1>2, PTL DEF Spec

(* Every variable keeps its kind of value, and no row, checkpoint, finding *)
(* or job survives the assessment whose id it has (_purge_assessment).     *)
THEOREM ServiceTypes == Spec => []TypeOK
<1>1. ServiceInv => TypeOK
  BY TypeParts DEF ServiceInv, Basics
<1> QED BY <1>1, ServiceInvariant, PTL

(* Under an id given out again no finding of an earlier assessment is      *)
(* stored, unless a purge met its run (main.py:283, models.py:43).         *)
THEOREM FindingsOwned == Spec => []OwnFindings
<1>1. ServiceInv => OwnFindings
  BY DEF ServiceInv
<1> QED BY <1>1, ServiceInvariant, PTL

(* No assessment is COMPLETED on another one's checkpoint or run           *)
(* (orchestrator.py:404).                                                  *)
THEOREM CompletionsScanned == Spec => []CompletedWasScanned
<1>1. ServiceInv => CompletedWasScanned
  BY DEF ServiceInv
<1> QED BY <1>1, ServiceInvariant, PTL

(* What /reports/view serves for an id is its assessment's, outside a      *)
(* deletion at work, failed or overtaken (main.py:120, 737, 758).          *)
THEOREM ReportsOwned == Spec => []ReportOfItsOwner
<1>1. ServiceInv => ReportOfItsOwner
  BY DEF ServiceInv
<1> QED BY <1>1, ServiceInvariant, PTL

(* A COMPLETED assessment has its final report on disk, with all that was  *)
(* found, when nothing was purged or removed under a thread                *)
(* (orchestrator.py:404, main.py:740).                                     *)
THEOREM FinalReports == Spec => []FinalReport
<1>1. ServiceInv => FinalReport
  BY DEF ServiceInv
<1> QED BY <1>1, ServiceInvariant, PTL

(* A report that says COMPLETED holds the assessment's findings, although  *)
(* its status and findings come from separate queries                      *)
(* (generator.py:16-20).                                                   *)
THEOREM FinalsHoldAll == Spec => []FinalHoldsAll
<1>1. ServiceInv => FinalHoldsAll
  BY DEF ServiceInv
<1> QED BY <1>1, ServiceInvariant, PTL

(* No interleaving of submissions, deletions, id reuse and synchronous     *)
(* runs leaves an active job to nobody (jobs.py:151, 208).                 *)
THEOREM ActiveJobsServed == Spec => []ActiveJobServed
<1>1. ServiceInv => ActiveJobServed
  BY DEF ServiceInv
<1> QED BY <1>1, ServiceInvariant, PTL
==============================================================================
