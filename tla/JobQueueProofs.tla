--------------------------- MODULE JobQueueProofs ---------------------------
(* Safety of the job queue for every number of assessments, workers and    *)
(* clients, and every setting that meets TimingAssumption.                 *)
EXTENDS JobQueue, TLAPS

USE DEF Caller, Finished, Status

LEMMA Constants ==
  /\ StaleAfter \in Nat /\ Tolerated \in Nat /\ MaxCrashes \in Nat
  /\ MaxDbErrors \in Nat /\ NoAssessment \notin Assessment
  BY CallerAssumption, TimingAssumption, BoundAssumption

(* A busy thread is about an assessment.                                   *)
LEMMA Busy ==
  ASSUME TypeOK
  PROVE  /\ \A w \in Worker : pc[w] # "idle" => on[w] \in Assessment
         /\ \A c \in Caller : cpc[c] # "idle" => about[c] \in Assessment
         /\ \A w \in Worker : pc[w] = "finish" => outcome[w] \in Finished
  BY DEF TypeOK, ProcessTypes, ThreadsBusy

-----------------------------------------------------------------------------
LEMMA TypeInit == Init => TypeOK
  BY Constants
  DEF Init, TypeOK, DatabaseTypes, ProcessTypes, JobHasAssessment, ThreadsBusy

(* TypeOK is inductive: one step per action; an action that writes the     *)
(* database has its database part first.                                   *)
LEMMA TypeStep == TypeOK /\ [Next]_vars => TypeOK'
<1> SUFFICES ASSUME TypeOK, [Next]_vars PROVE TypeOK'
  OBVIOUS
<1> DEFINE Db == DatabaseTypes /\ JobHasAssessment
           Threads == ProcessTypes /\ ThreadsBusy
<1>a. TypeOK' <=> Db' /\ Threads'
  BY DEF TypeOK
<1>b. UNCHANGED dbVars => Db'
  BY DEF TypeOK, DatabaseTypes, JobHasAssessment, dbVars
<1> USE Constants
<1>1. CASE Startup
  <2>1. Db'
    <3>1. status' \in [Assessment -> Status] /\ rows' \subseteq Assessment
      BY <1>1 DEF Startup, RecoverStaleJobs, TypeOK, DatabaseTypes
    <3>2. age' \in [Assessment -> 0..(StaleAfter + 1)]
      BY <1>1 DEF Startup, RecoverStaleJobs, TypeOK, DatabaseTypes
    <3>3. JobHasAssessment'
      BY <1>1 DEF Startup, RecoverStaleJobs, Stale, TypeOK, DatabaseTypes,
                  JobHasAssessment
    <3> QED BY <3>1, <3>2, <3>3 DEF DatabaseTypes
  <2>2. Threads'
    BY <1>1 DEF Startup, TypeOK, ProcessTypes, ThreadsBusy,
                poolVars, callerVars, envVars
  <2> QED BY <1>a, <2>1, <2>2
<1>2. CASE Ready
  <2>1. Threads'
    BY <1>2 DEF Ready, TypeOK, ProcessTypes, ThreadsBusy, poolVars, callerVars, envVars
  <2> QED BY <1>2, <1>a, <1>b, <2>1 DEF Ready
<1>3. CASE Crash
  <2>1. Threads'
    BY <1>3 DEF Crash, TypeOK, ProcessTypes, ThreadsBusy
  <2> QED BY <1>3, <1>a, <1>b, <2>1 DEF Crash
<1>4. CASE Tick
  <2>1. Db'
    BY <1>4 DEF Tick, Stale, TypeOK, DatabaseTypes, JobHasAssessment
  <2>2. Threads'
    BY <1>4 DEF Tick, TypeOK, ProcessTypes, ThreadsBusy, callerVars, envVars
  <2> QED BY <1>a, <2>1, <2>2
<1>5. ASSUME NEW c \in Caller, NEW a \in Assessment, SubmitRead(c, a)
      PROVE  TypeOK'
  <2>1. Threads'
    <3>1. CASE ActiveJob(a)
      <4>1. Release(c, a)
        BY <1>5, <3>1, Zenon DEF SubmitRead
      <4> QED
        BY <1>5, <4>1 DEF SubmitRead, Release, TypeOK, ProcessTypes, ThreadsBusy,
                          poolVars, envVars
    <3>2. CASE ~ActiveJob(a)
      <4>1. /\ cpc' = [cpc EXCEPT ![c] = "commit"]
            /\ about' = [about EXCEPT ![c] = a]
            /\ seen' = [seen EXCEPT ![c] = status[a]]
            /\ UNCHANGED backlog
        BY <1>5, <3>2, Zenon DEF SubmitRead
      <4> QED
        BY <1>5, <4>1 DEF SubmitRead, TypeOK, DatabaseTypes, ProcessTypes, ThreadsBusy,
                          poolVars, envVars
    <3> QED BY <3>1, <3>2
  <2> QED BY <1>5, <1>a, <1>b, <2>1 DEF SubmitRead
<1>6. ASSUME NEW c \in Caller, SubmitCommit(c)
      PROVE  TypeOK'
  <2> DEFINE a == about[c]
  <2>1. a \in Assessment
    BY <1>6, Busy DEF SubmitCommit
  <2>2. CASE RowsAllow(a, seen[c])
    <3>1. Db'
      BY <1>6, <2>1, <2>2
      DEF SubmitCommit, RowsAllow, WriteQueued, SetJob, Touch,
          TypeOK, DatabaseTypes, JobHasAssessment
    <3>2. Threads'
      <4>1. /\ cpc' = [cpc EXCEPT ![c] = "enqueue"] /\ cpc[c] = "commit"
            /\ UNCHANGED <<server, backlog, about, seen>>
            /\ UNCHANGED poolVars /\ UNCHANGED envVars
        BY <1>6, <2>2, Zenon DEF SubmitCommit
      <4> QED BY <4>1 DEF TypeOK, ProcessTypes, ThreadsBusy, poolVars, envVars
    <3> QED BY <1>a, <3>1, <3>2
  <2>3. CASE ~RowsAllow(a, seen[c])
    <3>1. Threads'
      <4>1. Release(c, a)
        BY <1>6, <2>3, Zenon DEF SubmitCommit
      <4> QED
        BY <1>6, <2>1, <4>1
        DEF SubmitCommit, Release, TypeOK, ProcessTypes, ThreadsBusy, poolVars, envVars
    <3> QED BY <1>6, <1>a, <1>b, <2>3, <3>1 DEF SubmitCommit, dbVars
  <2> QED BY <2>2, <2>3
<1>7. ASSUME NEW c \in Caller, SubmitFails(c)
      PROVE  TypeOK'
  <2>1. Threads'
    BY <1>7 DEF SubmitFails, Raises, Release, TypeOK, ProcessTypes, ThreadsBusy, poolVars
  <2> QED BY <1>7, <1>a, <1>b, <2>1 DEF SubmitFails
<1>8. ASSUME NEW c \in Caller, Enqueue(c)
      PROVE  TypeOK'
  <2>1. about[c] \in Assessment
    BY <1>8, Busy DEF Enqueue
  <2>2. Threads'
    BY <1>8, <2>1 DEF Enqueue, Release, TypeOK, ProcessTypes, ThreadsBusy, envVars
  <2> QED BY <1>8, <1>a, <1>b, <2>2 DEF Enqueue
<1>9. ASSUME NEW c \in Client, NEW a \in Assessment, DeleteCheck(c, a)
      PROVE  TypeOK'
  <2>1. Threads'
    BY <1>9 DEF DeleteCheck, TypeOK, ProcessTypes, ThreadsBusy, poolVars, envVars
  <2> QED BY <1>9, <1>a, <1>b, <2>1 DEF DeleteCheck
<1>10. ASSUME NEW c \in Client, DeleteCommit(c)
       PROVE  TypeOK'
  <2>1. about[c] \in Assessment
    BY <1>10, Busy DEF DeleteCommit
  <2>2. Db'
    BY <1>10, <2>1 DEF DeleteCommit, SetJob, TypeOK, DatabaseTypes, JobHasAssessment
  <2>3. Threads'
    BY <1>10 DEF DeleteCommit, Release, TypeOK, ProcessTypes, ThreadsBusy,
                 poolVars, envVars
  <2> QED BY <1>a, <2>2, <2>3
<1>11. ASSUME NEW w \in Worker, Take(w)
       PROVE  TypeOK'
  <2>1. Threads'
    BY <1>11 DEF Take, TypeOK, ProcessTypes, ThreadsBusy, callerVars, envVars
  <2> QED BY <1>11, <1>a, <1>b, <2>1 DEF Take
<1>12. ASSUME NEW w \in Worker, Claim(w)
       PROVE  TypeOK'
  <2>1. on[w] \in Assessment
    BY <1>12, Busy DEF Claim
  <2>2. Db'
    BY <1>12, <2>1
    DEF Claim, ClaimJob, SetJob, TypeOK, DatabaseTypes, JobHasAssessment
  <2>3. Threads'
    BY <1>12 DEF Claim, StartHeartbeat, TypeOK, ProcessTypes, ThreadsBusy,
                 callerVars, envVars
  <2> QED BY <1>a, <2>2, <2>3
<1>13. ASSUME NEW w \in Worker, ClaimFails(w)
       PROVE  TypeOK'
  <2>1. Threads'
    BY <1>13 DEF ClaimFails, Raises, EndTask, TypeOK, ProcessTypes, ThreadsBusy, callerVars
  <2> QED BY <1>13, <1>a, <1>b, <2>1 DEF ClaimFails
<1>14. ASSUME NEW w \in Worker, Beat(w)
       PROVE  TypeOK'
  <2>1. on[w] \in Assessment
    BY <1>14, Busy DEF Beat, BeatDue
  <2>2. Db'
    BY <1>14, <2>1 DEF Beat, Touch, TypeOK, DatabaseTypes, JobHasAssessment
  <2>3. Threads'
    <3>1. beating' \in [Worker -> BOOLEAN]
      BY <1>14 DEF Beat, TypeOK, ProcessTypes
    <3>2. /\ timer' = [timer EXCEPT ![w] = 0]
          /\ missed' = [missed EXCEPT ![w] = 0]
          /\ UNCHANGED <<server, backlog, queue, pc, on, outcome, scanning,
                         callerVars, envVars>>
      BY <1>14 DEF Beat
    <3> QED
      BY <3>1, <3>2 DEF TypeOK, ProcessTypes, ThreadsBusy, callerVars, envVars
  <2> QED BY <1>a, <2>2, <2>3
<1>15. ASSUME NEW w \in Worker, BeatFails(w)
       PROVE  TypeOK'
  <2>1. Threads'
    BY <1>15 DEF BeatFails, BeatDue, Raises, TypeOK, ProcessTypes, ThreadsBusy, callerVars, envVars
  <2> QED BY <1>15, <1>a, <1>b, <2>1 DEF BeatFails
<1>16. ASSUME NEW w \in Worker, RunEnds(w)
       PROVE  TypeOK'
  <2>1. Threads'
    BY <1>16 DEF RunEnds, TypeOK, ProcessTypes, ThreadsBusy, callerVars, envVars
  <2> QED BY <1>16, <1>a, <1>b, <2>1 DEF RunEnds
<1>17. ASSUME NEW w \in Worker, Finish(w)
       PROVE  TypeOK'
  <2>1. on[w] \in Assessment /\ outcome[w] \in Finished
    BY <1>17, Busy DEF Finish
  <2>2. Db'
    BY <1>17, <2>1
    DEF Finish, FinishJob, SetJob, TypeOK, DatabaseTypes, JobHasAssessment
  <2>3. Threads'
    BY <1>17 DEF Finish, EndTask, TypeOK, ProcessTypes, ThreadsBusy,
                 callerVars, envVars
  <2> QED BY <1>a, <2>2, <2>3
<1>18. ASSUME NEW w \in Worker, FinishFails(w)
       PROVE  TypeOK'
  <2>1. Threads'
    BY <1>18 DEF FinishFails, Raises, EndTask, TypeOK, ProcessTypes, ThreadsBusy, callerVars
  <2> QED BY <1>18, <1>a, <1>b, <2>1 DEF FinishFails
<1>19. ASSUME NEW c \in Client, DeleteFails(c)
       PROVE  TypeOK'
  <2>1. Threads'
    BY <1>19 DEF DeleteFails, Raises, Release, TypeOK, ProcessTypes, ThreadsBusy, poolVars
  <2> QED BY <1>19, <1>a, <1>b, <2>1 DEF DeleteFails
<1>20. ASSUME NEW w \in Worker, FlushHost(w) \/ CommitHost(w)
       PROVE  TypeOK'
  <2>1. Threads'
    BY <1>20 DEF FlushHost, CommitHost, TypeOK, ProcessTypes, ThreadsBusy, callerVars, envVars
  <2> QED BY <1>20, <1>a, <1>b, <2>1 DEF FlushHost, CommitHost
<1>21. CASE UNCHANGED vars
  <2>1. Threads'
    BY <1>21 DEF vars, poolVars, callerVars, envVars, TypeOK, ProcessTypes, ThreadsBusy
  <2> QED BY <1>21, <1>a, <1>b, <2>1 DEF vars
<1> QED
  BY <1>1, <1>2, <1>3, <1>4, <1>5, <1>6, <1>7, <1>8, <1>9, <1>10, <1>11, <1>12,
     <1>13, <1>14, <1>15, <1>16, <1>17, <1>18, <1>19, <1>20, <1>21
  DEF Next, CallerStep, ClientStep, WorkerStep

(* TypeCorrect: the typing of rows, jobs and threads holds throughout.     *)
THEOREM TypeCorrect == Spec => []TypeOK
  BY TypeInit, TypeStep, PTL DEF Spec

-----------------------------------------------------------------------------
(* A live worker's job is stale only after beats that failed.              *)

WorkView == <<status, age, pc, on, beating, timer, missed>>

LEMMA MissedBeats ==
  ASSUME NEW m \in 0..(Tolerated + 1)
  PROVE  /\ m * BeatBy \in Nat
         /\ (m + 1) * BeatBy = m * BeatBy + BeatBy
         /\ m <= Tolerated => m * BeatBy + BeatBy + FinishWithin <= StaleAfter
<1>1. m \in Nat /\ Tolerated \in Nat /\ BeatBy \in Nat
  BY TimingAssumption
<1>2. m * BeatBy \in Nat /\ (m + 1) * BeatBy = m * BeatBy + BeatBy
  BY <1>1
<1>3. m <= Tolerated => m * BeatBy <= Tolerated * BeatBy
  BY <1>1
<1> QED
  BY <1>1, <1>2, <1>3, TimingAssumption

LEMMA AgeInit == Init => InTime /\ AgeBound
  BY TimingAssumption DEF Init, InTime, AgeBound, Alive

LEMMA AgeStep ==
  TypeOK /\ InTime /\ AgeBound /\ [Next]_vars => InTime' /\ AgeBound'
<1> SUFFICES ASSUME TypeOK, InTime, AgeBound, [Next]_vars
             PROVE  InTime' /\ AgeBound'
  OBVIOUS
<1> DEFINE Good == InTime /\ AgeBound
<1>t. /\ HeartbeatEvery \in Nat /\ BeatBy \in Nat /\ FinishWithin \in Nat
      /\ StaleAfter \in Nat
  BY TimingAssumption
<1>f. UNCHANGED WorkView => Good'
  BY DEF WorkView, InTime, AgeBound, Alive, Lag
<1>1. CASE Startup
  BY <1>1 DEF Startup, RecoverStaleJobs, poolVars, InTime, AgeBound, Alive, Lag,
              TypeOK, DatabaseTypes
<1>2. CASE Ready
  BY <1>2, <1>f DEF Ready, WorkView, dbVars, poolVars
<1>3. CASE Crash
  BY <1>3 DEF Crash, InTime, AgeBound, Alive
<1>4. CASE Tick
  <2>1. InTime'
    BY <1>4, <1>t DEF Tick, OnTime, Timed, InTime, TypeOK, ProcessTypes
  <2>2. ASSUME NEW w \in Worker, NEW a \in Assessment,
               Alive(w, a)', status'[a] = "RUNNING", missed'[w] <= Tolerated
        PROVE  age'[a] <= Lag(w)'
    <3>1. Alive(w, a) /\ status[a] = "RUNNING" /\ Timed(w)
      BY <1>4, <2>2 DEF Tick, Alive, Timed
    <3>3. timer'[w] = timer[w] + 1 /\ UNCHANGED <<missed, pc>>
      BY <1>4, <3>1 DEF Tick
    <3>2. age[a] <= Lag(w)
      BY <2>2, <3>1, <3>3 DEF AgeBound
    <3>4. age'[a] <= age[a] + 1
      BY <1>4 DEF Tick, TypeOK, DatabaseTypes
    <3>5. missed[w] * BeatBy \in Nat
      BY MissedBeats DEF TypeOK, ProcessTypes
    <3>6. age[a] \in Nat /\ age'[a] \in Nat /\ timer[w] \in Nat
      BY <1>4, <1>t DEF Tick, TypeOK, DatabaseTypes, ProcessTypes
    <3> QED BY <1>t, <3>2, <3>3, <3>4, <3>5, <3>6 DEF Lag
  <2> QED BY <2>1, <2>2 DEF AgeBound
<1>5. ASSUME NEW c \in Caller, NEW a \in Assessment, SubmitRead(c, a)
      PROVE  Good'
  BY <1>5, <1>f DEF SubmitRead, WorkView, dbVars, poolVars
<1>6. ASSUME NEW c \in Caller, SubmitCommit(c)
      PROVE  Good'
  <2>1. UNCHANGED poolVars
    BY <1>6 DEF SubmitCommit
  <2>2. InTime'
    BY <2>1 DEF poolVars, InTime
  <2>3. \A b \in Assessment : status'[b] = "RUNNING" =>
          status[b] = "RUNNING" /\ (age'[b] = age[b] \/ age'[b] = 0)
    BY <1>6 DEF SubmitCommit, WriteQueued, SetJob, Touch, TypeOK, DatabaseTypes
  <2>4. ASSUME NEW w \in Worker PROVE Lag(w)' = Lag(w) /\ 0 <= Lag(w)
    <3>1. missed[w] * BeatBy \in Nat /\ timer[w] \in Nat
      BY MissedBeats DEF TypeOK, ProcessTypes
    <3> QED BY <2>1, <1>t, <3>1 DEF poolVars, Lag
  <2>5. AgeBound'
    BY <2>1, <2>3, <2>4 DEF poolVars, AgeBound, Alive
  <2> QED BY <2>2, <2>5
<1>7. ASSUME NEW c \in Caller, SubmitFails(c)
      PROVE  Good'
  BY <1>7, <1>f DEF SubmitFails, WorkView, dbVars, poolVars
<1>8. ASSUME NEW c \in Caller, Enqueue(c)
      PROVE  Good'
  BY <1>8, <1>f DEF Enqueue, WorkView, dbVars
<1>9. ASSUME NEW c \in Client, NEW a \in Assessment, DeleteCheck(c, a)
      PROVE  Good'
  BY <1>9, <1>f DEF DeleteCheck, WorkView, dbVars, poolVars
<1>10. ASSUME NEW c \in Client, DeleteCommit(c)
       PROVE  Good'
  BY <1>10, Busy DEF DeleteCommit, SetJob, poolVars, InTime, AgeBound, Alive, Lag,
                     TypeOK, DatabaseTypes
<1>11. ASSUME NEW w \in Worker, Take(w)
       PROVE  Good'
  BY <1>11 DEF Take, dbVars, InTime, AgeBound, Alive, Lag, TypeOK, ProcessTypes
<1>12. ASSUME NEW w \in Worker, Claim(w)
       PROVE  Good'
  <2>1. on[w] \in Assessment
    BY <1>12, Busy DEF Claim
  <2>2. InTime'
    BY <1>12, <1>t DEF Claim, StartHeartbeat, InTime, TypeOK, ProcessTypes
  <2>3. ASSUME NEW v \in Worker, NEW a \in Assessment,
               Alive(v, a)', status'[a] = "RUNNING", missed'[v] <= Tolerated
        PROVE  age'[a] <= Lag(v)'
    <3>1. /\ on' = on /\ missed'[v] \in 0..(Tolerated + 1) /\ timer'[v] \in Nat
      BY <1>12, Constants DEF Claim, StartHeartbeat, TypeOK, ProcessTypes
    <3>2. 0 <= Lag(v)'
      BY <3>1, <1>t, MissedBeats DEF Lag
    <3>3. CASE a = on[w]
      <4>1. age'[a] = 0
        BY <1>12, <2>1, <2>3, <3>3
        DEF Claim, ClaimJob, SetJob, TypeOK, DatabaseTypes
      <4> QED BY <3>2, <4>1
    <3>4. CASE a # on[w]
      <4>1. v # w
        BY <2>3, <3>1, <3>4 DEF Alive
      <4>2. age'[a] = age[a] /\ status'[a] = status[a]
        BY <1>12, <2>1, <3>4 DEF Claim, ClaimJob, SetJob, TypeOK, DatabaseTypes
      <4>3. /\ pc'[v] = pc[v] /\ beating'[v] = beating[v] /\ timer'[v] = timer[v]
            /\ missed'[v] = missed[v]
        BY <1>12, <4>1 DEF Claim, StartHeartbeat, TypeOK, ProcessTypes
      <4> QED BY <2>3, <3>1, <4>2, <4>3 DEF AgeBound, Alive, Lag
    <3> QED BY <3>3, <3>4
  <2> QED BY <2>2, <2>3 DEF AgeBound
<1>13. ASSUME NEW w \in Worker, ClaimFails(w)
       PROVE  Good'
  BY <1>13 DEF ClaimFails, EndTask, dbVars, InTime, AgeBound, Alive, Lag,
               TypeOK, ProcessTypes
<1>14. ASSUME NEW w \in Worker, Beat(w)
       PROVE  Good'
  <2>1. on[w] \in Assessment
    BY <1>14, Busy DEF Beat, BeatDue
  <2>2. InTime'
    BY <1>14, <1>t DEF Beat, InTime, TypeOK, ProcessTypes
  <2>3. ASSUME NEW v \in Worker, NEW a \in Assessment,
               Alive(v, a)', status'[a] = "RUNNING", missed'[v] <= Tolerated
        PROVE  age'[a] <= Lag(v)'
    <3>1. /\ on' = on /\ pc' = pc
          /\ missed'[v] \in 0..(Tolerated + 1) /\ timer'[v] \in Nat
      BY <1>14, Constants DEF Beat, TypeOK, ProcessTypes
    <3>2. 0 <= Lag(v)'
      BY <3>1, <1>t, MissedBeats DEF Lag
    <3>3. status' = status
      BY <1>14 DEF Beat, Touch
    <3>4. CASE a = on[w]
      <4>1. age'[a] = 0
        BY <1>14, <2>1, <2>3, <3>3, <3>4 DEF Beat, Touch, TypeOK, DatabaseTypes
      <4> QED BY <3>2, <4>1
    <3>5. CASE a # on[w]
      <4>1. v # w
        BY <2>3, <3>1, <3>5 DEF Alive
      <4>2. age'[a] = age[a]
        BY <1>14, <2>1, <3>5 DEF Beat, Touch, TypeOK, DatabaseTypes
      <4>3. /\ beating'[v] = beating[v] /\ timer'[v] = timer[v]
            /\ missed'[v] = missed[v]
        BY <1>14, <4>1 DEF Beat, TypeOK, ProcessTypes
      <4> QED BY <2>3, <3>1, <3>3, <4>2, <4>3 DEF AgeBound, Alive, Lag
    <3> QED BY <3>4, <3>5
  <2> QED BY <2>2, <2>3 DEF AgeBound
<1>15. ASSUME NEW w \in Worker, BeatFails(w)
       PROVE  Good'
  <2>1. InTime'
    BY <1>15, <1>t DEF BeatFails, InTime, TypeOK, ProcessTypes
  <2>2. ASSUME NEW v \in Worker, NEW a \in Assessment,
               Alive(v, a)', status'[a] = "RUNNING", missed'[v] <= Tolerated
        PROVE  age'[a] <= Lag(v)'
    <3>1. missed[v] <= Tolerated
      BY <1>15, <2>2, TimingAssumption DEF BeatFails, TypeOK, ProcessTypes
    <3>2. age'[a] = age[a] /\ pc' = pc
      BY <1>15 DEF BeatFails, dbVars
    <3>5. age[a] <= Lag(v)
      BY <1>15, <2>2, <3>1 DEF BeatFails, dbVars, AgeBound, Alive
    <3>3. CASE v = w
      <4>1. /\ pc[w] = "running" /\ timer[w] <= BeatBy /\ timer'[w] = 0
            /\ missed'[w] = missed[w] + 1 /\ missed[w] \in 0..(Tolerated + 1)
        BY <1>15, <3>1, <3>3 DEF BeatFails, BeatDue, InTime, TypeOK, ProcessTypes
      <4>2. /\ (missed[w] + 1) * BeatBy = missed[w] * BeatBy + BeatBy
            /\ missed[w] * BeatBy \in Nat
        BY <4>1, MissedBeats
      <4>3. age[a] \in Nat /\ timer[w] \in Nat
        BY DEF TypeOK, DatabaseTypes, ProcessTypes
      <4>4. age[a] <= missed[w] * BeatBy + timer[w]
        BY <3>5, <3>3, <4>1 DEF Lag
      <4>5. Lag(w)' = missed[w] * BeatBy + BeatBy
        BY <1>t, <3>2, <4>1, <4>2 DEF Lag
      <4> QED BY <1>t, <3>2, <3>3, <4>1, <4>2, <4>3, <4>4, <4>5
    <3>4. CASE v # w
      BY <1>15, <3>5, <3>2, <3>4 DEF BeatFails, Lag, TypeOK, ProcessTypes
    <3> QED BY <3>3, <3>4
  <2> QED BY <2>1, <2>2 DEF AgeBound
<1>16. ASSUME NEW w \in Worker, RunEnds(w)
       PROVE  Good'
  <2>1. InTime'
    BY <1>16, <1>t DEF RunEnds, InTime, TypeOK, ProcessTypes
  <2>2. ASSUME NEW v \in Worker, NEW a \in Assessment,
               Alive(v, a)', status'[a] = "RUNNING", missed'[v] <= Tolerated
        PROVE  age'[a] <= Lag(v)'
    <3>1. age[a] <= Lag(v) /\ age' = age /\ missed' = missed
      BY <1>16, <2>2 DEF RunEnds, dbVars, AgeBound, Alive, TypeOK, ProcessTypes
    <3>2. CASE v = w
      <4>1. /\ pc[w] = "running" /\ timer[w] <= BeatBy
            /\ pc'[w] = "finish" /\ timer'[w] = 0
        BY <1>16 DEF RunEnds, InTime, TypeOK, ProcessTypes
      <4>2. missed[w] * BeatBy \in Nat /\ age[a] \in Nat /\ timer[w] \in Nat
        BY MissedBeats DEF TypeOK, DatabaseTypes, ProcessTypes
      <4> QED BY <1>t, <3>1, <3>2, <4>1, <4>2 DEF Lag
    <3>3. CASE v # w
      BY <1>16, <3>1, <3>3 DEF RunEnds, Lag, TypeOK, ProcessTypes
    <3> QED BY <3>2, <3>3
  <2> QED BY <2>1, <2>2 DEF AgeBound
<1>17. ASSUME NEW w \in Worker, Finish(w)
       PROVE  Good'
  <2>1. on[w] \in Assessment /\ outcome[w] \in Finished
    BY <1>17, Busy DEF Finish
  <2>2. InTime'
    BY <1>17 DEF Finish, EndTask, InTime, TypeOK, ProcessTypes
  <2>3. \A a \in Assessment : status'[a] = "RUNNING" =>
          status[a] = "RUNNING" /\ age'[a] = age[a]
    BY <1>17, <2>1 DEF Finish, FinishJob, SetJob, TypeOK, DatabaseTypes
  <2>4. AgeBound'
    BY <1>17, <2>3 DEF Finish, EndTask, AgeBound, Alive, Lag, TypeOK, ProcessTypes
  <2> QED BY <2>2, <2>4
<1>18. ASSUME NEW w \in Worker, FinishFails(w)
       PROVE  Good'
  BY <1>18 DEF FinishFails, EndTask, dbVars, InTime, AgeBound, Alive, Lag,
               TypeOK, ProcessTypes
<1>19. ASSUME NEW c \in Client, DeleteFails(c)
       PROVE  Good'
  BY <1>19, <1>f DEF DeleteFails, WorkView, dbVars, poolVars
<1>20. ASSUME NEW w \in Worker, FlushHost(w) \/ CommitHost(w)
       PROVE  Good'
  BY <1>20, <1>f DEF FlushHost, CommitHost, WorkView, dbVars
<1>21. CASE UNCHANGED vars
  BY <1>21, <1>f DEF vars, dbVars, poolVars, WorkView
<1> QED
  BY <1>1, <1>2, <1>3, <1>4, <1>5, <1>6, <1>7, <1>8, <1>9, <1>10, <1>11, <1>12,
     <1>13, <1>14, <1>15, <1>16, <1>17, <1>18, <1>19, <1>20, <1>21
  DEF Next, CallerStep, ClientStep, WorkerStep

(* A worker that is alive has touched its job at most StaleAfter ago,      *)
(* unless it missed more beats than tolerated.                             *)
LEMMA NeverStale == TypeOK /\ InTime /\ AgeBound => StaleOnlyIfMissed
<1> SUFFICES ASSUME TypeOK, InTime, AgeBound,
                    NEW w \in Worker, NEW a \in Assessment, Alive(w, a), Stale(a),
                    ~(missed[w] > Tolerated)
             PROVE  FALSE
  BY DEF StaleOnlyIfMissed
<1>1. /\ missed[w] \in 0..(Tolerated + 1) /\ timer[w] \in Nat /\ age[a] \in Nat
      /\ StaleAfter \in Nat /\ BeatBy \in Nat /\ FinishWithin \in Nat
      /\ Tolerated \in Nat
  BY TimingAssumption DEF TypeOK, DatabaseTypes, ProcessTypes
<1>m. missed[w] <= Tolerated
  BY <1>1
<1>2. /\ missed[w] * BeatBy \in Nat
      /\ missed[w] * BeatBy + BeatBy + FinishWithin <= StaleAfter
  BY <1>1, <1>m, MissedBeats
<1>3. Lag(w) <= StaleAfter
  BY <1>1, <1>2 DEF Lag, Alive, InTime
<1>4. age[a] <= Lag(w) /\ age[a] > StaleAfter
  BY <1>m DEF AgeBound, Stale
<1>5. Lag(w) \in Nat
  BY <1>1, <1>2 DEF Lag
<1> QED BY <1>1, <1>3, <1>4, <1>5

(* StaleMeansMissed: for every setting that meets TimingAssumption, and    *)
(* however many beats fail, a job whose worker is alive looks stale only   *)
(* when more beats in a row have failed than the settings tolerate.        *)
THEOREM StaleMeansMissed == Spec => []StaleOnlyIfMissed
  BY TypeInit, TypeStep, AgeInit, AgeStep, NeverStale, PTL DEF Spec

-----------------------------------------------------------------------------
(* A RUNNING job has a live worker, short of a crash or a failed claim or  *)
(* final write of its own.  The last thread to claim the job is the        *)
(* witness: nothing but its own Finish, or a status other than RUNNING,    *)
(* ends its heartbeat.                                                     *)

LEMMA WorkerKept ==
  ASSUME TypeOK, RunningHasWorker, [Next]_vars, crashes' = 0,
         NEW a \in Assessment, a \notin dropped', status'[a] = "RUNNING"
  PROVE  \E w \in Worker : Alive(w, a)'
<1> DEFINE Calm == crashes = 0 /\ a \notin dropped
           Kept == status[a] = "RUNNING"
                     /\ \A w \in Worker : Alive(w, a) => Alive(w, a)'
<1>k. ASSUME Calm, Kept PROVE \E w \in Worker : Alive(w, a)'
  BY <1>k DEF RunningHasWorker
<1>f. UNCHANGED WorkView /\ Calm => \E w \in Worker : Alive(w, a)'
  BY <1>k DEF WorkView, Alive
<1>1. CASE Startup
  BY <1>1, <1>k DEF Startup, RecoverStaleJobs, poolVars, envVars, Alive
<1>2. CASE Ready
  BY <1>2, <1>f DEF Ready, WorkView, dbVars, poolVars, envVars
<1>3. CASE Crash
  BY <1>3 DEF Crash, TypeOK, ProcessTypes
<1>4. CASE Tick
  BY <1>4, <1>k DEF Tick, envVars, Alive
<1>5. ASSUME NEW c \in Caller, NEW b \in Assessment, SubmitRead(c, b)
      PROVE  \E w \in Worker : Alive(w, a)'
  BY <1>5, <1>f DEF SubmitRead, WorkView, dbVars, poolVars, envVars
<1>6. ASSUME NEW c \in Caller, SubmitCommit(c)
      PROVE  \E w \in Worker : Alive(w, a)'
  <2>1. status[a] = "RUNNING"
    BY <1>6 DEF SubmitCommit, WriteQueued, SetJob, Touch, TypeOK, DatabaseTypes
  <2>2. UNCHANGED <<poolVars, envVars>>
    BY <1>6 DEF SubmitCommit
  <2> QED BY <2>1, <2>2, <1>k DEF poolVars, envVars, Alive
<1>7. ASSUME NEW c \in Caller, SubmitFails(c)
      PROVE  \E w \in Worker : Alive(w, a)'
  BY <1>7, <1>f DEF SubmitFails, WorkView, dbVars, poolVars
<1>8. ASSUME NEW c \in Caller, Enqueue(c)
      PROVE  \E w \in Worker : Alive(w, a)'
  BY <1>8, <1>f DEF Enqueue, WorkView, dbVars, envVars
<1>9. ASSUME NEW c \in Client, NEW b \in Assessment, DeleteCheck(c, b)
      PROVE  \E w \in Worker : Alive(w, a)'
  BY <1>9, <1>f DEF DeleteCheck, WorkView, dbVars, poolVars, envVars
<1>10. ASSUME NEW c \in Client, DeleteCommit(c)
       PROVE  \E w \in Worker : Alive(w, a)'
  <2>1. status[a] = "RUNNING"
    BY <1>10 DEF DeleteCommit, SetJob, TypeOK, DatabaseTypes
  <2> QED BY <1>10, <2>1, <1>k DEF DeleteCommit, poolVars, envVars, Alive
<1>11. ASSUME NEW w \in Worker, Take(w)
       PROVE  \E v \in Worker : Alive(v, a)'
  BY <1>11, <1>k DEF Take, dbVars, envVars, Alive, TypeOK, ProcessTypes
<1>12. ASSUME NEW w \in Worker, Claim(w)
       PROVE  \E v \in Worker : Alive(v, a)'
  <2>1. on[w] \in Assessment
    BY <1>12, Busy DEF Claim
  <2>2. CASE a = on[w]
    <3>1. Alive(w, a)'
      BY <1>12, <2>2 DEF Claim, StartHeartbeat, Alive, TypeOK, ProcessTypes
    <3> QED BY <3>1
  <2>3. CASE a # on[w]
    <3>1. status[a] = "RUNNING"
      BY <1>12, <2>1, <2>3 DEF Claim, ClaimJob, SetJob, TypeOK, DatabaseTypes
    <3>2. \A v \in Worker : Alive(v, a) => Alive(v, a)'
      BY <1>12, <2>3 DEF Claim, StartHeartbeat, Alive, TypeOK, ProcessTypes
    <3> QED BY <1>12, <3>1, <3>2, <1>k DEF Claim, envVars
  <2> QED BY <2>2, <2>3
<1>13. ASSUME NEW w \in Worker, ClaimFails(w)
       PROVE  \E v \in Worker : Alive(v, a)'
  <2>1. a # on[w] /\ Calm
    BY <1>13 DEF ClaimFails
  <2>2. \A v \in Worker : Alive(v, a) => Alive(v, a)'
    BY <1>13, <2>1 DEF ClaimFails, EndTask, Alive, TypeOK, ProcessTypes
  <2> QED BY <1>13, <2>1, <2>2, <1>k DEF ClaimFails, dbVars
<1>14. ASSUME NEW w \in Worker, Beat(w)
       PROVE  \E v \in Worker : Alive(v, a)'
  <2>1. status' = status /\ pc' = pc /\ on' = on /\ UNCHANGED envVars
    BY <1>14 DEF Beat, Touch
  <2>2. \A v \in Worker : Alive(v, a) => Alive(v, a)'
    <3> SUFFICES ASSUME NEW v \in Worker, Alive(v, a) PROVE Alive(v, a)'
      OBVIOUS
    <3>1. CASE v = w
      <4>1. status[on[w]] = "RUNNING"
        BY <2>1, <3>1 DEF Alive
      <4>2. UNCHANGED beating
        BY <1>14, <4>1 DEF Beat
      <4> QED BY <2>1, <4>2 DEF Alive
    <3>2. CASE v # w
      BY <1>14, <2>1, <3>2 DEF Beat, Alive, TypeOK, ProcessTypes
    <3> QED BY <3>1, <3>2
  <2> QED BY <2>1, <2>2, <1>k DEF envVars
<1>15. ASSUME NEW w \in Worker, BeatFails(w)
       PROVE  \E v \in Worker : Alive(v, a)'
  BY <1>15, <1>k DEF BeatFails, dbVars, Alive
<1>16. ASSUME NEW w \in Worker, RunEnds(w)
       PROVE  \E v \in Worker : Alive(v, a)'
  BY <1>16, <1>k DEF RunEnds, dbVars, envVars, Alive, TypeOK, ProcessTypes
<1>17. ASSUME NEW w \in Worker, Finish(w)
       PROVE  \E v \in Worker : Alive(v, a)'
  <2>1. on[w] \in Assessment /\ outcome[w] \in Finished
    BY <1>17, Busy DEF Finish
  <2>2. a # on[w] /\ status[a] = "RUNNING"
    BY <1>17, <2>1 DEF Finish, FinishJob, SetJob, TypeOK, DatabaseTypes
  <2>3. \A v \in Worker : Alive(v, a) => Alive(v, a)'
    BY <1>17, <2>2 DEF Finish, EndTask, Alive, TypeOK, ProcessTypes
  <2> QED BY <1>17, <2>2, <2>3, <1>k DEF Finish, envVars
<1>18. ASSUME NEW w \in Worker, FinishFails(w)
       PROVE  \E v \in Worker : Alive(v, a)'
  <2>1. a # on[w] /\ Calm
    BY <1>18 DEF FinishFails
  <2>2. \A v \in Worker : Alive(v, a) => Alive(v, a)'
    BY <1>18, <2>1 DEF FinishFails, EndTask, Alive, TypeOK, ProcessTypes
  <2> QED BY <1>18, <2>1, <2>2, <1>k DEF FinishFails, dbVars
<1>19. ASSUME NEW c \in Client, DeleteFails(c)
       PROVE  \E v \in Worker : Alive(v, a)'
  BY <1>19, <1>f DEF DeleteFails, WorkView, dbVars, poolVars
<1>20. ASSUME NEW w \in Worker, FlushHost(w) \/ CommitHost(w)
       PROVE  \E v \in Worker : Alive(v, a)'
  BY <1>20, <1>f DEF FlushHost, CommitHost, WorkView, dbVars, envVars
<1>21. CASE UNCHANGED vars
  BY <1>21, <1>f DEF vars, dbVars, poolVars, envVars, WorkView
<1> QED
  BY <1>1, <1>2, <1>3, <1>4, <1>5, <1>6, <1>7, <1>8, <1>9, <1>10, <1>11, <1>12,
     <1>13, <1>14, <1>15, <1>16, <1>17, <1>18, <1>19, <1>20, <1>21
  DEF Next, CallerStep, ClientStep, WorkerStep

(* RunningIsServed: duplicate tasks, lost heartbeats, resubmissions and    *)
(* deletions in any order never leave a job RUNNING with nobody on it.     *)
THEOREM RunningIsServed == Spec => []RunningHasWorker
<1>1. Init => RunningHasWorker
  BY DEF Init, RunningHasWorker
<1>2. TypeOK /\ RunningHasWorker /\ [Next]_vars => RunningHasWorker'
  BY WorkerKept DEF RunningHasWorker
<1> QED
  BY TypeInit, TypeStep, <1>1, <1>2, PTL DEF Spec

-----------------------------------------------------------------------------
(* A QUEUED row is never without a task.                                   *)

LEMMA BootStep == TypeOK /\ BootAlone /\ [Next]_vars => BootAlone'
<1> SUFFICES ASSUME TypeOK, BootAlone, [Next]_vars PROVE BootAlone'
  OBVIOUS
<1> USE CallerAssumption
<1> DEFINE View == <<server, backlog, status, callerVars>>
<1>f. UNCHANGED View => BootAlone'
  BY DEF callerVars, BootAlone
<1>g. ASSUME UNCHANGED <<server, backlog, callerVars>>,
             \A a \in Assessment : status[a] # "NONE" => status'[a] # "NONE"
      PROVE  BootAlone'
  BY <1>g DEF callerVars, BootAlone, TypeOK, ProcessTypes
<1>1. CASE Startup
  BY <1>1 DEF Startup, callerVars, BootAlone, TypeOK, ProcessTypes
<1>2. CASE Ready
  BY <1>2 DEF Ready, callerVars, BootAlone
<1>3. CASE Crash
  BY <1>3 DEF Crash, BootAlone
<1>4. CASE Tick
  BY <1>4, <1>f DEF Tick
<1>5. ASSUME NEW c \in Caller, NEW a \in Assessment, SubmitRead(c, a)
      PROVE  BootAlone'
  <2>1. CASE ActiveJob(a)
    <3>1. Release(c, a) /\ UNCHANGED <<dbVars, server>>
      BY <1>5, <2>1, Zenon DEF SubmitRead
    <3> QED
      BY <1>5, <3>1 DEF SubmitRead, MaySubmit, Release, dbVars, BootAlone,
                        TypeOK, ProcessTypes
  <2>2. CASE ~ActiveJob(a)
    <3>1. /\ cpc' = [cpc EXCEPT ![c] = "commit"]
          /\ about' = [about EXCEPT ![c] = a]
          /\ seen' = [seen EXCEPT ![c] = status[a]]
          /\ UNCHANGED <<backlog, dbVars, server>>
      BY <1>5, <2>2, Zenon DEF SubmitRead
    <3> QED
      BY <1>5, <3>1 DEF SubmitRead, MaySubmit, dbVars, BootAlone, TypeOK, ProcessTypes
  <2> QED BY <2>1, <2>2
<1>6. ASSUME NEW c \in Caller, SubmitCommit(c)
      PROVE  BootAlone'
  <2>1. about[c] \in Assessment
    BY <1>6, Busy DEF SubmitCommit
  <2>2. \A a \in Assessment : status[a] # "NONE" => status'[a] # "NONE"
    BY <1>6, <2>1
    DEF SubmitCommit, WriteQueued, SetJob, Touch, TypeOK, DatabaseTypes
  <2>3. CASE RowsAllow(about[c], seen[c])
    <3>1. /\ cpc' = [cpc EXCEPT ![c] = "enqueue"]
          /\ UNCHANGED <<backlog, about, seen, server>>
      BY <1>6, <2>3 DEF SubmitCommit
    <3> QED
      BY <1>6, <2>2, <3>1 DEF SubmitCommit, BootAlone, TypeOK, ProcessTypes
  <2>4. CASE ~RowsAllow(about[c], seen[c])
    <3>1. Release(c, about[c]) /\ UNCHANGED server
      BY <1>6, <2>4, Zenon DEF SubmitCommit
    <3> QED
      BY <1>6, <2>2, <3>1 DEF SubmitCommit, Release, BootAlone, TypeOK, ProcessTypes
  <2> QED BY <2>3, <2>4
<1>7. ASSUME NEW c \in Caller, SubmitFails(c)
      PROVE  BootAlone'
  BY <1>7 DEF SubmitFails, Release, dbVars, BootAlone, TypeOK, ProcessTypes
<1>8. ASSUME NEW c \in Caller, Enqueue(c)
      PROVE  BootAlone'
  BY <1>8 DEF Enqueue, Release, dbVars, BootAlone, TypeOK, ProcessTypes
<1>9. ASSUME NEW c \in Client, NEW a \in Assessment, DeleteCheck(c, a)
      PROVE  BootAlone'
  BY <1>9 DEF DeleteCheck, dbVars, BootAlone, TypeOK, ProcessTypes
<1>10. ASSUME NEW c \in Client, DeleteCommit(c)
       PROVE  BootAlone'
  <2>1. server = "up"
    BY <1>10 DEF DeleteCommit, BootAlone, TypeOK, ProcessTypes
  <2> QED
    BY <1>10, <2>1 DEF DeleteCommit, Release, BootAlone, TypeOK, ProcessTypes
<1>11. ASSUME NEW w \in Worker, Take(w)
       PROVE  BootAlone'
  BY <1>11, <1>f DEF Take, dbVars
<1>12. ASSUME NEW w \in Worker, Claim(w)
       PROVE  BootAlone'
  BY <1>12, <1>g, Busy DEF Claim, ClaimJob, SetJob, TypeOK, DatabaseTypes
<1>13. ASSUME NEW w \in Worker, ClaimFails(w)
       PROVE  BootAlone'
  BY <1>13, <1>f DEF ClaimFails, dbVars
<1>14. ASSUME NEW w \in Worker, Beat(w)
       PROVE  BootAlone'
  BY <1>14, <1>f DEF Beat, Touch
<1>15. ASSUME NEW w \in Worker, BeatFails(w)
       PROVE  BootAlone'
  BY <1>15, <1>f DEF BeatFails, dbVars
<1>16. ASSUME NEW w \in Worker, RunEnds(w)
       PROVE  BootAlone'
  BY <1>16, <1>f DEF RunEnds, dbVars
<1>17. ASSUME NEW w \in Worker, Finish(w)
       PROVE  BootAlone'
  BY <1>17, <1>g, Busy DEF Finish, FinishJob, SetJob, TypeOK, DatabaseTypes
<1>18. ASSUME NEW w \in Worker, FinishFails(w)
       PROVE  BootAlone'
  BY <1>18, <1>f DEF FinishFails, dbVars
<1>19. ASSUME NEW c \in Client, DeleteFails(c)
       PROVE  BootAlone'
  BY <1>19 DEF DeleteFails, Release, dbVars, BootAlone, TypeOK, ProcessTypes
<1>20. ASSUME NEW w \in Worker, FlushHost(w) \/ CommitHost(w)
       PROVE  BootAlone'
  BY <1>20, <1>f DEF FlushHost, CommitHost, dbVars
<1>21. CASE UNCHANGED vars
  BY <1>21, <1>f DEF vars, dbVars
<1> QED
  BY <1>1, <1>2, <1>3, <1>4, <1>5, <1>6, <1>7, <1>8, <1>9, <1>10, <1>11, <1>12,
     <1>13, <1>14, <1>15, <1>16, <1>17, <1>18, <1>19, <1>20, <1>21
  DEF Next, CallerStep, ClientStep, WorkerStep

LEMMA TaskKept ==
  ASSUME TypeOK, BootAlone, NoLostJob, [Next]_vars,
         server' # "down",
         NEW a \in Assessment, a \notin dropped', status'[a] = "QUEUED"
  PROVE  Awaited(a)'
<1> DEFINE View == <<server, dropped, status, backlog, callerVars, queue, pc, on>>
<1>k. ASSUME server # "down", a \notin dropped, status[a] = "QUEUED" PROVE Awaited(a)
  BY <1>k DEF NoLostJob
<1>f. UNCHANGED View => Awaited(a)'
  BY <1>k DEF callerVars, Awaited
<1>1. CASE Startup
  BY <1>1 DEF Startup, Awaited
<1>2. CASE Ready
  BY <1>2, <1>k DEF Ready, dbVars, poolVars, callerVars, envVars, Awaited
<1>3. CASE Crash
  BY <1>3 DEF Crash
<1>4. CASE Tick
  BY <1>4, <1>f DEF Tick, envVars
<1>5. ASSUME NEW c \in Caller, NEW b \in Assessment, SubmitRead(c, b)
      PROVE  Awaited(a)'
  <2>1. UNCHANGED <<dbVars, server, poolVars, envVars>> /\ cpc[c] = "idle"
    BY <1>5 DEF SubmitRead
  <2>2. Awaited(a)
    BY <2>1, <1>k DEF dbVars, envVars
  <2>3. CASE ActiveJob(b)
    <3>1. Release(c, b)
      BY <1>5, <2>3, Zenon DEF SubmitRead
    <3>2. a # b
      BY <2>1, <2>3 DEF ActiveJob, dbVars
    <3> QED
      BY <2>1, <2>2, <3>1, <3>2 DEF Release, poolVars, Awaited, TypeOK, ProcessTypes
  <2>4. CASE ~ActiveJob(b)
    <3>1. /\ cpc' = [cpc EXCEPT ![c] = "commit"]
          /\ about' = [about EXCEPT ![c] = b]
          /\ UNCHANGED backlog
      BY <1>5, <2>4, Zenon DEF SubmitRead
    <3> QED
      BY <2>1, <2>2, <3>1 DEF poolVars, Awaited, TypeOK, ProcessTypes
  <2> QED BY <2>3, <2>4
<1>6. ASSUME NEW c \in Caller, SubmitCommit(c)
      PROVE  Awaited(a)'
  <2>1. about[c] \in Assessment /\ cpc[c] = "commit"
    BY <1>6, Busy DEF SubmitCommit
  <2>2. UNCHANGED <<server, poolVars, envVars>>
    BY <1>6 DEF SubmitCommit
  <2>3. CASE RowsAllow(about[c], seen[c])
    <3>1. /\ WriteQueued(about[c], seen[c])
          /\ cpc' = [cpc EXCEPT ![c] = "enqueue"]
          /\ UNCHANGED <<backlog, about>>
      BY <1>6, <2>3 DEF SubmitCommit
    <3>2. CASE a = about[c]
      BY <3>1, <3>2 DEF Awaited, TypeOK, ProcessTypes
    <3>3. CASE a # about[c]
      <4>1. status[a] = "QUEUED"
        BY <2>1, <3>1, <3>3 DEF WriteQueued, SetJob, Touch, TypeOK, DatabaseTypes
      <4>2. Awaited(a)
        BY <2>2, <4>1, <1>k DEF envVars
      <4> QED
        BY <2>1, <2>2, <3>1, <4>2 DEF poolVars, Awaited, TypeOK, ProcessTypes
    <3> QED BY <3>2, <3>3
  <2>4. CASE ~RowsAllow(about[c], seen[c])
    <3>1. Release(c, about[c]) /\ UNCHANGED <<status, age>>
      BY <1>6, <2>4, Zenon DEF SubmitCommit
    <3>2. Awaited(a) /\ status[a] = "QUEUED"
      BY <2>2, <3>1, <1>k DEF envVars
    <3>3. c = Boot => a # about[c]
      BY <2>1, <2>4, <3>2 DEF RowsAllow, BootAlone
    <3> QED
      BY <2>1, <2>2, <3>1, <3>2, <3>3
      DEF Release, poolVars, Awaited, TypeOK, ProcessTypes
  <2> QED BY <2>3, <2>4
<1>7. ASSUME NEW c \in Caller, SubmitFails(c)
      PROVE  Awaited(a)'
  <2>1. /\ Awaited(a) /\ Release(c, about[c]) /\ c # Boot
        /\ cpc[c] = "commit" /\ UNCHANGED poolVars
    BY <1>7, <1>k DEF SubmitFails, dbVars
  <2> QED
    BY <2>1 DEF Release, poolVars, Awaited, TypeOK, ProcessTypes
<1>8. ASSUME NEW c \in Caller, Enqueue(c)
      PROVE  Awaited(a)'
  <2>1. about[c] \in Assessment
    BY <1>8, Busy DEF Enqueue
  <2>2. Awaited(a)
    BY <1>8, <1>k DEF Enqueue, dbVars, envVars
  <2>3. /\ queue' = Append(queue, about[c]) /\ queue \in Seq(Assessment)
        /\ UNCHANGED <<pc, on>> /\ Release(c, about[c])
    BY <1>8 DEF Enqueue, TypeOK, ProcessTypes
  <2>4. CASE a = about[c]
    <3>1. Len(queue) + 1 \in DOMAIN queue' /\ queue'[Len(queue) + 1] = a
      BY <2>1, <2>3, <2>4
    <3> QED BY <3>1 DEF Awaited
  <2>5. CASE a # about[c]
    <3>1. ASSUME NEW i \in DOMAIN queue, queue[i] = a
          PROVE  i \in DOMAIN queue' /\ queue'[i] = a
      BY <2>1, <2>3, <3>1
    <3> QED
      BY <2>2, <2>3, <2>5, <3>1 DEF Release, Awaited, TypeOK, ProcessTypes
  <2> QED BY <2>4, <2>5
<1>9. ASSUME NEW c \in Client, NEW b \in Assessment, DeleteCheck(c, b)
      PROVE  Awaited(a)'
  <2>1. Awaited(a)
    BY <1>9, <1>k DEF DeleteCheck, dbVars, envVars
  <2> QED
    BY <1>9, <2>1 DEF DeleteCheck, poolVars, Awaited, TypeOK, ProcessTypes
<1>10. ASSUME NEW c \in Client, DeleteCommit(c)
       PROVE  Awaited(a)'
  <2>1. status[a] = "QUEUED" /\ c # Boot
    BY <1>10, CallerAssumption DEF DeleteCommit, SetJob, TypeOK, DatabaseTypes
  <2>2. Awaited(a)
    BY <1>10, <2>1, <1>k DEF DeleteCommit, envVars
  <2> QED
    BY <1>10, <2>1, <2>2
    DEF DeleteCommit, Release, poolVars, Awaited, TypeOK, ProcessTypes
<1>11. ASSUME NEW w \in Worker, Take(w)
       PROVE  Awaited(a)'
  <2>1. Awaited(a)
    BY <1>11, <1>k DEF Take, dbVars, envVars
  <2>2. /\ pc[w] = "idle" /\ pc' = [pc EXCEPT ![w] = "claim"]
        /\ on' = [on EXCEPT ![w] = Head(queue)] /\ queue' = Tail(queue)
        /\ queue # <<>> /\ queue \in Seq(Assessment)
        /\ UNCHANGED <<backlog, callerVars>>
    BY <1>11 DEF Take, TypeOK, ProcessTypes
  <2>3. ASSUME NEW i \in DOMAIN queue, queue[i] = a PROVE Awaited(a)'
    <3>1. CASE i = 1
      <4>1. pc'[w] = "claim" /\ on'[w] = a
        BY <2>2, <2>3, <3>1 DEF TypeOK, ProcessTypes
      <4> QED BY <4>1 DEF Awaited
    <3>2. CASE i # 1
      <4>1. i - 1 \in DOMAIN queue' /\ queue'[i - 1] = a
        BY <2>2, <2>3, <3>2
      <4> QED BY <4>1 DEF Awaited
    <3> QED BY <3>1, <3>2
  <2> QED
    BY <2>1, <2>2, <2>3 DEF callerVars, Awaited, TypeOK, ProcessTypes
<1>12. ASSUME NEW w \in Worker, Claim(w)
       PROVE  Awaited(a)'
  <2>1. on[w] \in Assessment
    BY <1>12, Busy DEF Claim
  <2>2. a # on[w] /\ status[a] = "QUEUED"
    BY <1>12, <2>1 DEF Claim, ClaimJob, SetJob, TypeOK, DatabaseTypes
  <2>3. Awaited(a)
    BY <1>12, <2>2, <1>k DEF Claim, envVars
  <2> QED
    BY <1>12, <2>2, <2>3 DEF Claim, callerVars, Awaited, TypeOK, ProcessTypes
<1>13. ASSUME NEW w \in Worker, ClaimFails(w)
       PROVE  Awaited(a)'
  <2>1. /\ Awaited(a) /\ a # on[w] /\ EndTask(w)
        /\ UNCHANGED <<backlog, queue, callerVars>>
    BY <1>13, <1>k DEF ClaimFails, dbVars
  <2> QED
    BY <2>1 DEF EndTask, callerVars, Awaited, TypeOK, ProcessTypes
<1>14. ASSUME NEW w \in Worker, Beat(w)
       PROVE  Awaited(a)'
  BY <1>14, <1>f DEF Beat, Touch, envVars
<1>15. ASSUME NEW w \in Worker, BeatFails(w)
       PROVE  Awaited(a)'
  BY <1>15, <1>f DEF BeatFails, dbVars
<1>16. ASSUME NEW w \in Worker, RunEnds(w)
       PROVE  Awaited(a)'
  <2>1. Awaited(a)
    BY <1>16, <1>k DEF RunEnds, dbVars, envVars
  <2> QED
    BY <1>16, <2>1 DEF RunEnds, callerVars, Awaited, TypeOK, ProcessTypes
<1>17. ASSUME NEW w \in Worker, Finish(w)
       PROVE  Awaited(a)'
  <2>1. on[w] \in Assessment /\ outcome[w] \in Finished
    BY <1>17, Busy DEF Finish
  <2>2. status[a] = "QUEUED"
    BY <1>17, <2>1 DEF Finish, FinishJob, SetJob, TypeOK, DatabaseTypes
  <2>3. Awaited(a)
    BY <1>17, <2>2, <1>k DEF Finish, envVars
  <2> QED
    BY <1>17, <2>3 DEF Finish, EndTask, callerVars, Awaited, TypeOK, ProcessTypes
<1>18. ASSUME NEW w \in Worker, FinishFails(w)
       PROVE  Awaited(a)'
  <2>1. /\ Awaited(a) /\ a # on[w] /\ EndTask(w)
        /\ UNCHANGED <<backlog, queue, callerVars>>
    BY <1>18, <1>k DEF FinishFails, dbVars
  <2> QED
    BY <2>1 DEF EndTask, callerVars, Awaited, TypeOK, ProcessTypes
<1>19. ASSUME NEW c \in Client, DeleteFails(c)
       PROVE  Awaited(a)'
  <2>1. /\ Awaited(a) /\ Release(c, about[c]) /\ c # Boot
        /\ cpc[c] = "purge" /\ UNCHANGED poolVars
    BY <1>19, <1>k, CallerAssumption DEF DeleteFails, dbVars
  <2> QED
    BY <2>1 DEF Release, poolVars, Awaited, TypeOK, ProcessTypes
<1>20. ASSUME NEW w \in Worker, FlushHost(w) \/ CommitHost(w)
       PROVE  Awaited(a)'
  BY <1>20, <1>f DEF FlushHost, CommitHost, dbVars, envVars
<1>21. CASE UNCHANGED vars
  BY <1>21, <1>f DEF vars, dbVars, poolVars, envVars
<1> QED
  BY <1>1, <1>2, <1>3, <1>4, <1>5, <1>6, <1>7, <1>8, <1>9, <1>10, <1>11, <1>12,
     <1>13, <1>14, <1>15, <1>16, <1>17, <1>18, <1>19, <1>20, <1>21
  DEF Next, CallerStep, ClientStep, WorkerStep

(* NothingLost: while the process is up, the rows that say QUEUED and the  *)
(* tasks in memory agree, but for assessments whose claim or final write   *)
(* raised.                                                                 *)
THEOREM NothingLost == Spec => []NoLostJob
<1>1. Init => BootAlone /\ NoLostJob
  BY DEF Init, BootAlone, NoLostJob
<1>2. TypeOK /\ BootAlone /\ NoLostJob /\ [Next]_vars => NoLostJob'
  BY TaskKept DEF NoLostJob
<1> QED
  BY TypeInit, TypeStep, BootStep, <1>1, <1>2, PTL DEF Spec
-----------------------------------------------------------------------------
(* Clients that are patient submit nothing that is being submitted or is   *)
(* awaited, and nothing whose run has missed more beats than tolerated, as *)
(* it does while it scans under the write lock.  With them an assessment   *)
(* has one task at most: submit_assessment refuses a job that runs as long *)
(* as its heartbeat gets through, and start-up submits what nobody has.    *)

Submitting(c, a) == cpc[c] \in {"commit", "enqueue"} /\ about[c] = a
InQueue(a) == \E i \in DOMAIN queue : queue[i] = a
Working(w, a) == pc[w] # "idle" /\ on[w] = a

Patient ==
  \A c \in Client : cpc[c] = "idle" /\ cpc'[c] = "commit" =>
    /\ ~Awaited(about'[c])
    /\ \A d \in Caller : ~Submitting(d, about'[c])
    /\ \A w \in Worker : Working(w, about'[c]) => missed[w] <= Tolerated

PatientSpec == Init /\ [][Next /\ Patient]_vars

\* An assessment has one submission, one task in the pool's queue or one worker.
OneTask ==
  /\ \A c, d \in Caller, a \in Assessment :
       Submitting(c, a) /\ Submitting(d, a) => c = d
  /\ \A i, j \in DOMAIN queue : queue[i] = queue[j] => i = j
  /\ \A v, w \in Worker, a \in Assessment : Working(v, a) /\ Working(w, a) => v = w
  /\ \A c \in Caller, a \in Assessment : Submitting(c, a) => ~InQueue(a)
  /\ \A c \in Caller, w \in Worker, a \in Assessment :
       Submitting(c, a) => ~Working(w, a)
  /\ \A w \in Worker, a \in Assessment : InQueue(a) => ~Working(w, a)

\* The job of a run that goes on says so, and has its heartbeat.
RunShown ==
  \A w \in Worker : pc[w] \in {"running", "finish"} /\ on[w] \in rows =>
    status[on[w]] = "RUNNING" /\ beating[w]

\* A job on its way to a run has its row.  Only a deletion takes it away.
RowKept ==
  /\ \A c \in Caller : cpc[c] = "enqueue" /\ about[c] \in rows => status[about[c]] # "NONE"
  /\ \A a \in rows : InQueue(a) => status[a] # "NONE"
  /\ \A w \in Worker : pc[w] # "idle" /\ on[w] \in rows => status[on[w]] # "NONE"

\* Start-up begins with nothing at work, and submits what nobody has.
BacklogFree ==
  /\ server = "down" => queue = <<>> /\ \A w \in Worker : pc[w] = "idle"
  /\ server = "up" => backlog = {}
  /\ \A a \in backlog : ~InQueue(a) /\ \A w \in Worker : ~Working(w, a)

Sole == OneTask /\ RunShown /\ RowKept /\ BacklogFree

(* Nothing gets a task by a step that starts no submission and takes none. *)
LEMMA Fewer ==
  ASSUME OneTask, queue' = queue,
         \A c \in Caller, a \in Assessment : Submitting(c, a)' => Submitting(c, a),
         \A w \in Worker, a \in Assessment : Working(w, a)' => Working(w, a)
  PROVE  OneTask'
<1>1. \A a : InQueue(a)' <=> InQueue(a)
  BY DEF InQueue
<1> QED BY <1>1 DEF OneTask

(* A released caller submits nothing.                                      *)
LEMMA Released ==
  ASSUME TypeOK, NEW c \in Caller, NEW b, Release(c, b)
  PROVE  /\ \A d \in Caller, a \in Assessment :
              Submitting(d, a)' => Submitting(d, a) /\ d # c
         /\ \A d \in Caller : d # c => cpc'[d] = cpc[d] /\ about'[d] = about[d]
         /\ cpc'[c] = "idle"
         /\ backlog' \subseteq backlog
  BY DEF Release, Submitting, TypeOK, ProcessTypes

(* What a submission has read it may start: nobody has it.                 *)
LEMMA ReadAlone ==
  ASSUME TypeOK, StaleOnlyIfMissed, BootAlone, Sole, Patient,
         NEW c \in Caller, NEW a \in Assessment, SubmitRead(c, a), ~ActiveJob(a)
  PROVE  /\ cpc' = [cpc EXCEPT ![c] = "commit"]
         /\ about' = [about EXCEPT ![c] = a]
         /\ UNCHANGED <<backlog, dbVars, server, poolVars>>
         /\ \A d \in Caller : ~Submitting(d, a)
         /\ ~InQueue(a) /\ \A w \in Worker : ~Working(w, a)
<1>1. /\ cpc' = [cpc EXCEPT ![c] = "commit"]
      /\ about' = [about EXCEPT ![c] = a]
      /\ UNCHANGED <<backlog, dbVars, server, poolVars>>
      /\ cpc[c] = "idle" /\ MaySubmit(c, a)
  BY Zenon DEF SubmitRead
<1>2. CASE c = Boot
  <2>1. server = "starting" /\ a \in backlog
    BY <1>1, <1>2 DEF MaySubmit
  <2>2. \A d \in Caller : cpc[d] = "idle"
    BY <1>1, <1>2, <2>1 DEF BootAlone
  <2>3. \A d \in Caller : ~Submitting(d, a)
    BY <2>2 DEF Submitting
  <2> QED BY <1>1, <2>1, <2>3 DEF Sole, BacklogFree
<1>3. CASE c # Boot
  <2>1. c \in Client /\ a \in rows
    BY <1>1, <1>3 DEF MaySubmit
  <2>2. cpc'[c] = "commit" /\ about'[c] = a
    BY <1>1 DEF TypeOK, ProcessTypes
  <2>3. ~Awaited(a) /\ \A d \in Caller : ~Submitting(d, a)
    BY <1>1, <2>1, <2>2 DEF Patient
  <2>4. ASSUME NEW w \in Worker, Working(w, a) PROVE FALSE
    <3>1. pc[w] \in {"running", "finish"} /\ on[w] = a
      BY <2>3, <2>4 DEF Working, Awaited, TypeOK, ProcessTypes
    <3>2. status[a] = "RUNNING" /\ beating[w]
      BY <2>1, <3>1 DEF Sole, RunShown
    <3>3. missed[w] <= Tolerated
      BY <1>1, <2>1, <2>2, <2>4 DEF Patient
    <3>4. ~Stale(a)
      BY <3>1, <3>2, <3>3, Constants DEF StaleOnlyIfMissed, Alive, TypeOK, ProcessTypes
    <3> QED BY <3>2, <3>4 DEF ActiveJob
  <2> QED BY <1>1, <2>3, <2>4 DEF Awaited, InQueue
<1> QED BY <1>2, <1>3

(* A commit writes a row, or the caller is answered.                       *)
LEMMA CommitDone ==
  ASSUME TypeOK, NEW c \in Caller, SubmitCommit(c)
  PROVE  /\ about[c] \in Assessment /\ cpc[c] = "commit"
         /\ UNCHANGED <<rows, server, poolVars>>
         /\ \/ /\ cpc' = [cpc EXCEPT ![c] = "enqueue"]
               /\ UNCHANGED <<backlog, about>>
               /\ status'[about[c]] # "NONE"
            \/ Release(c, about[c]) /\ status' = status
         /\ \A a \in Assessment : a # about[c] => status'[a] = status[a]
         /\ \A a \in Assessment : status[a] # "NONE" => status'[a] # "NONE"
<1>1. /\ about[c] \in Assessment /\ cpc[c] = "commit"
      /\ UNCHANGED <<rows, server, poolVars>>
  BY Busy DEF SubmitCommit
<1>2. CASE RowsAllow(about[c], seen[c])
  <2>1. /\ cpc' = [cpc EXCEPT ![c] = "enqueue"] /\ UNCHANGED <<backlog, about>>
        /\ WriteQueued(about[c], seen[c])
    BY <1>2, Zenon DEF SubmitCommit
  <2>2. /\ status'[about[c]] # "NONE"
        /\ \A a \in Assessment : a # about[c] => status'[a] = status[a]
    BY <1>1, <1>2, <2>1 DEF WriteQueued, RowsAllow, SetJob, Touch, TypeOK, DatabaseTypes
  <2> QED BY <1>1, <2>1, <2>2
<1>3. CASE ~RowsAllow(about[c], seen[c])
  <2>1. Release(c, about[c]) /\ status' = status
    BY <1>3, Zenon DEF SubmitCommit
  <2> QED BY <1>1, <2>1
<1> QED BY <1>2, <1>3

(* The queue after a task is handed over.                                  *)
LEMMA Appended ==
  ASSUME TypeOK, NEW c \in Caller, Enqueue(c)
  PROVE  /\ about[c] \in Assessment /\ cpc[c] = "enqueue"
         /\ \A a : InQueue(a)' => InQueue(a) \/ a = about[c]
         /\ ~InQueue(about[c]) /\ (\A i, j \in DOMAIN queue : queue[i] = queue[j] => i = j)
              => \A i, j \in DOMAIN queue' : queue'[i] = queue'[j] => i = j
<1>1. /\ about[c] \in Assessment /\ cpc[c] = "enqueue"
      /\ queue \in Seq(Assessment) /\ queue' = Append(queue, about[c])
  BY Busy DEF Enqueue, TypeOK, ProcessTypes
<1>2. /\ DOMAIN queue = 1..Len(queue) /\ DOMAIN queue' = 1..(Len(queue) + 1)
      /\ Len(queue) \in Nat
      /\ queue'[Len(queue) + 1] = about[c]
      /\ \A i \in DOMAIN queue : queue'[i] = queue[i]
  BY <1>1
<1>3. \A i \in DOMAIN queue' : i \in DOMAIN queue \/ i = Len(queue) + 1
  BY <1>2
<1>4. \A a : InQueue(a)' => InQueue(a) \/ a = about[c]
  BY <1>2, <1>3 DEF InQueue
<1>5. ASSUME ~InQueue(about[c]), \A i, j \in DOMAIN queue : queue[i] = queue[j] => i = j,
             NEW i \in DOMAIN queue', NEW j \in DOMAIN queue', queue'[i] = queue'[j]
      PROVE  i = j
  BY <1>2, <1>3, <1>5 DEF InQueue
<1> QED BY <1>1, <1>4, <1>5

(* The queue after a thread takes its first task.                          *)
LEMMA TakenOff ==
  ASSUME TypeOK, NEW w \in Worker, Take(w), NEW h, h = Head(queue)
  PROVE  /\ h \in Assessment /\ InQueue(h)
         /\ \A a : InQueue(a)' => InQueue(a)
         /\ (\A i, j \in DOMAIN queue : queue[i] = queue[j] => i = j)
              => /\ ~InQueue(h)'
                 /\ \A i, j \in DOMAIN queue' : queue'[i] = queue'[j] => i = j
<1>1. queue \in Seq(Assessment) /\ queue # <<>> /\ queue' = Tail(queue)
  BY DEF Take, TypeOK, ProcessTypes
<1>2. /\ DOMAIN queue = 1..Len(queue) /\ Len(queue) \in Nat \ {0}
      /\ DOMAIN queue' = 1..(Len(queue) - 1)
      /\ h = queue[1] /\ h \in Assessment
      /\ \A i \in DOMAIN queue' : queue'[i] = queue[i + 1]
  BY <1>1
<1>3. 1 \in DOMAIN queue /\ \A i \in DOMAIN queue' : i + 1 \in DOMAIN queue /\ i + 1 # 1
  BY <1>2
<1>4. h \in Assessment /\ InQueue(h) /\ \A a : InQueue(a)' => InQueue(a)
  BY <1>2, <1>3 DEF InQueue
<1>5. ASSUME \A i, j \in DOMAIN queue : queue[i] = queue[j] => i = j
      PROVE  /\ \A i \in DOMAIN queue' : queue'[i] # h
             /\ \A i, j \in DOMAIN queue' : queue'[i] = queue'[j] => i = j
  <2>1. \A i \in DOMAIN queue' : queue'[i] # h
    BY <1>2, <1>3, <1>5
  <2>2. ASSUME NEW i \in DOMAIN queue', NEW j \in DOMAIN queue', queue'[i] = queue'[j]
        PROVE  i = j
    <3>1. queue[i + 1] = queue[j + 1]
      BY <1>2, <2>2
    <3>2. i + 1 \in DOMAIN queue /\ j + 1 \in DOMAIN queue
      BY <1>3
    <3>3. i + 1 = j + 1
      BY <1>5, <3>1, <3>2
    <3> QED BY <1>2, <3>3
  <2> QED BY <2>1, <2>2
<1>6. (\A i \in DOMAIN queue' : queue'[i] # h) => ~\E i \in DOMAIN queue' : queue'[i] = h
  OBVIOUS
<1> QED BY <1>4, <1>5, <1>6 DEF InQueue

(* One submission, task or worker stays one.                               *)
LEMMA OneTaskStep ==
  ASSUME TypeOK, StaleOnlyIfMissed, BootAlone, Sole, [Next /\ Patient]_vars
  PROVE  OneTask'
<1> DEFINE Callers == \A c \in Caller, a \in Assessment : Submitting(c, a)' => Submitting(c, a)
           Workers == \A w \in Worker, a \in Assessment : Working(w, a)' => Working(w, a)
<1>o. OneTask
  BY DEF Sole
<1>c. UNCHANGED <<cpc, about>> => Callers
  BY DEF Submitting
<1>w. UNCHANGED <<pc, on>> => Workers
  BY DEF Working
<1>q. Callers /\ Workers /\ queue' = queue => OneTask'
  BY <1>o, Fewer
<1>1. CASE Startup \/ Ready \/ Tick \/ UNCHANGED vars
  BY <1>1, <1>c, <1>w, <1>q DEF Startup, Ready, Tick, vars, callerVars, poolVars
<1>2. CASE Crash
  BY <1>2 DEF Crash, OneTask, Submitting, Working, InQueue
<1>3. ASSUME NEW c \in Caller, NEW a \in Assessment, SubmitRead(c, a), Patient
      PROVE  OneTask'
  <2>1. UNCHANGED poolVars
    BY <1>3 DEF SubmitRead
  <2>2. CASE ActiveJob(a)
    <3>1. Release(c, a)
      BY <1>3, <2>2, Zenon DEF SubmitRead
    <3> QED BY <2>1, <3>1, Released, <1>w, <1>q DEF poolVars
  <2>3. CASE ~ActiveJob(a)
    <3>1. /\ cpc' = [cpc EXCEPT ![c] = "commit"] /\ about' = [about EXCEPT ![c] = a]
          /\ \A d \in Caller : ~Submitting(d, a)
          /\ ~InQueue(a) /\ \A w \in Worker : ~Working(w, a)
      BY <1>3, <2>3, ReadAlone
    <3>2. \A d \in Caller, b \in Assessment :
            Submitting(d, b)' => Submitting(d, b) \/ (d = c /\ b = a)
      BY <3>1 DEF Submitting, TypeOK, ProcessTypes
    <3>3. /\ \A b \in Assessment : InQueue(b)' <=> InQueue(b)
          /\ \A w \in Worker, b \in Assessment : Working(w, b)' <=> Working(w, b)
          /\ queue' = queue
      BY <2>1 DEF poolVars, InQueue, Working
    <3> QED BY <1>o, <3>1, <3>2, <3>3 DEF OneTask
  <2> QED BY <2>2, <2>3
<1>4. ASSUME NEW c \in Caller, SubmitCommit(c)
      PROVE  OneTask'
  <2>1. UNCHANGED poolVars /\ cpc[c] = "commit"
    BY <1>4, CommitDone
  <2>2. CASE Release(c, about[c])
    BY <2>1, <2>2, Released, <1>w, <1>q DEF poolVars
  <2>3. CASE cpc' = [cpc EXCEPT ![c] = "enqueue"] /\ about' = about
    <3>1. Callers
      BY <2>1, <2>3 DEF Submitting, TypeOK, ProcessTypes
    <3> QED BY <2>1, <3>1, <1>w, <1>q DEF poolVars
  <2> QED BY <1>4, <2>2, <2>3, CommitDone
<1>5. ASSUME NEW c \in Caller, SubmitFails(c)
      PROVE  OneTask'
  BY <1>5, Released, <1>w, <1>q DEF SubmitFails, poolVars
<1>6. ASSUME NEW c \in Caller, Enqueue(c)
      PROVE  OneTask'
  <2>1. /\ about[c] \in Assessment /\ cpc[c] = "enqueue"
        /\ \A a : InQueue(a)' => InQueue(a) \/ a = about[c]
        /\ UNCHANGED <<pc, on>>
    BY <1>6, Appended DEF Enqueue
  <2>2. Submitting(c, about[c])
    BY <2>1 DEF Submitting
  <2>3. ~InQueue(about[c]) /\ \A w \in Worker : ~Working(w, about[c])
    BY <1>o, <2>1, <2>2 DEF OneTask
  <2>4. \A i, j \in DOMAIN queue' : queue'[i] = queue'[j] => i = j
    BY <1>6, <1>o, <2>3, Appended DEF OneTask
  <2>5. \A d \in Caller, a \in Assessment : Submitting(d, a)' => Submitting(d, a) /\ d # c
    BY <1>6, Released DEF Enqueue
  <2>6. \A d \in Caller, a \in Assessment : Submitting(d, a)' => a # about[c]
    BY <1>o, <2>1, <2>2, <2>5 DEF OneTask
  <2>7. Workers
    BY <2>1, <1>w
  <2> QED BY <1>o, <2>1, <2>3, <2>4, <2>5, <2>6, <2>7 DEF OneTask
<1>7. ASSUME NEW c \in Client, NEW a \in Assessment, DeleteCheck(c, a)
      PROVE  OneTask'
  <2>1. Callers
    BY <1>7 DEF DeleteCheck, Submitting, TypeOK, ProcessTypes
  <2> QED BY <1>7, <2>1, <1>w, <1>q DEF DeleteCheck, poolVars
<1>8. ASSUME NEW c \in Client, DeleteCommit(c) \/ DeleteFails(c)
      PROVE  OneTask'
  BY <1>8, Released, <1>w, <1>q DEF DeleteCommit, DeleteFails, poolVars
<1>9. ASSUME NEW w \in Worker, Take(w)
      PROVE  OneTask'
  <2> DEFINE h == Head(queue)
  <2>1. /\ pc[w] = "idle" /\ pc' = [pc EXCEPT ![w] = "claim"]
        /\ on' = [on EXCEPT ![w] = h] /\ UNCHANGED <<cpc, about>>
    BY <1>9 DEF Take, callerVars
  <2>2. PICK b : b = h
    OBVIOUS
  <2>3. /\ b \in Assessment /\ InQueue(b) /\ ~InQueue(b)'
        /\ \A a : InQueue(a)' => InQueue(a)
        /\ \A i, j \in DOMAIN queue' : queue'[i] = queue'[j] => i = j
    BY <1>9, <1>o, <2>2, TakenOff DEF OneTask
  <2>4. \A v \in Worker, a \in Assessment :
          Working(v, a)' => Working(v, a) \/ (v = w /\ a = b)
    BY <2>1, <2>2 DEF Working, TypeOK, ProcessTypes
  <2>5. /\ \A v \in Worker : ~Working(v, b)
        /\ \A c \in Caller : ~Submitting(c, b)
    BY <1>o, <2>3 DEF OneTask
  <2>6. Callers
    BY <2>1, <1>c
  <2> QED BY <1>o, <2>3, <2>4, <2>5, <2>6 DEF OneTask
<1>10. ASSUME NEW w \in Worker,
              \/ Claim(w) \/ RunEnds(w) \/ Beat(w) \/ BeatFails(w)
              \/ FlushHost(w) \/ CommitHost(w)
       PROVE  OneTask'
  <2>1. Workers
    BY <1>10 DEF Claim, RunEnds, Beat, BeatFails, FlushHost, CommitHost, Working,
                 TypeOK, ProcessTypes
  <2> QED
    BY <1>10, <2>1, <1>c, <1>q
    DEF Claim, RunEnds, Beat, BeatFails, FlushHost, CommitHost, callerVars
<1>11. ASSUME NEW w \in Worker, ClaimFails(w) \/ Finish(w) \/ FinishFails(w)
       PROVE  OneTask'
  <2>1. EndTask(w) /\ UNCHANGED <<queue, callerVars>>
    BY <1>11 DEF ClaimFails, Finish, FinishFails
  <2>2. Workers
    BY <2>1 DEF EndTask, Working, TypeOK, ProcessTypes
  <2> QED BY <2>1, <2>2, <1>c, <1>q DEF callerVars
<1> QED
  BY <1>1, <1>2, <1>3, <1>4, <1>5, <1>6, <1>7, <1>8, <1>9, <1>10, <1>11
  DEF Next, CallerStep, ClientStep, WorkerStep

(* A run that goes on stays visible in its job: no submission or recovery  *)
(* touches the row of an assessment that has a worker.                     *)
LEMMA RunShownStep ==
  ASSUME TypeOK, StaleOnlyIfMissed, BootAlone, Sole, [Next /\ Patient]_vars
  PROVE  RunShown'
<1> DEFINE Runs(w) == pc[w] \in {"running", "finish"}
           Shown(a, w) == status[a] = "RUNNING" /\ beating[w]
<1>s. \A w \in Worker : Runs(w) /\ on[w] \in rows => Shown(on[w], w)
  BY DEF Sole, RunShown
<1>t. \A w \in Worker : Runs(w) => on[w] \in Assessment /\ Working(w, on[w])
  BY Busy DEF Working
<1>f. UNCHANGED <<status, pc, on, beating>> /\ rows' \subseteq rows => RunShown'
  BY DEF Sole, RunShown
<1>g. ASSUME \A w \in Worker : Runs(w)' => Runs(w) /\ on'[w] = on[w] /\ beating'[w] = beating[w],
             \A w \in Worker : Runs(w)' /\ on[w] \in rows' =>
               on[w] \in rows /\ (status[on[w]] = "RUNNING" => status'[on[w]] = "RUNNING")
      PROVE  RunShown'
  <2> SUFFICES ASSUME NEW w \in Worker, Runs(w)', on'[w] \in rows'
               PROVE  status'[on'[w]] = "RUNNING" /\ beating'[w]
    BY DEF RunShown
  <2> QED BY <1>s, <1>g
<1>1. CASE Startup
  <2>1. \A w \in Worker : pc'[w] = "idle"
    BY <1>1 DEF Startup, Sole, BacklogFree, poolVars
  <2> QED BY <2>1 DEF RunShown
<1>2. CASE Ready \/ Tick \/ UNCHANGED vars
  BY <1>2, <1>f DEF Ready, Tick, vars, dbVars, poolVars
<1>3. CASE Crash
  BY <1>3 DEF Crash, RunShown
<1>4. ASSUME NEW c \in Caller, (\E a \in Assessment : SubmitRead(c, a)) \/ SubmitFails(c)
                                 \/ Enqueue(c)
      PROVE  RunShown'
  BY <1>4, <1>f DEF SubmitRead, SubmitFails, Enqueue, dbVars, poolVars
<1>5. ASSUME NEW c \in Caller, SubmitCommit(c)
      PROVE  RunShown'
  <2>1. /\ about[c] \in Assessment /\ Submitting(c, about[c])
        /\ UNCHANGED <<rows, poolVars>>
        /\ \A a \in Assessment : a # about[c] => status'[a] = status[a]
    BY <1>5, CommitDone DEF Submitting
  <2>2. \A w \in Worker : ~Working(w, about[c])
    BY <2>1 DEF Sole, OneTask
  <2>3. \A w \in Worker : Runs(w) => status'[on[w]] = status[on[w]]
    BY <1>t, <2>1, <2>2
  <2> QED BY <2>1, <2>3, <1>g DEF poolVars
<1>6. ASSUME NEW c \in Client,
             (\E a \in Assessment : DeleteCheck(c, a)) \/ DeleteFails(c)
      PROVE  RunShown'
  BY <1>6, <1>f DEF DeleteCheck, DeleteFails, dbVars, poolVars
<1>7. ASSUME NEW c \in Client, DeleteCommit(c)
      PROVE  RunShown'
  <2>1. /\ rows' = rows \ {about[c]} /\ UNCHANGED poolVars
        /\ status' = [status EXCEPT ![about[c]] = "NONE"]
    BY <1>7 DEF DeleteCommit, SetJob
  <2>2. \A w \in Worker : Runs(w) /\ on[w] \in rows' =>
          on[w] \in rows /\ status'[on[w]] = status[on[w]]
    BY <1>t, <2>1 DEF TypeOK, DatabaseTypes
  <2> QED BY <2>1, <2>2, <1>g DEF poolVars
<1>8. ASSUME NEW w \in Worker, Take(w)
      PROVE  RunShown'
  <2>1. \A v \in Worker : Runs(v)' => Runs(v) /\ on'[v] = on[v]
    BY <1>8 DEF Take, TypeOK, ProcessTypes
  <2> QED BY <1>8, <2>1, <1>g DEF Take, dbVars
<1>9. ASSUME NEW w \in Worker, Claim(w)
      PROVE  RunShown'
  <2>1. on[w] \in Assessment /\ Working(w, on[w])
    BY <1>9, Busy DEF Claim, Working
  <2>2. /\ UNCHANGED <<rows, on>> /\ pc' = [pc EXCEPT ![w] = "running"]
        /\ beating' = [beating EXCEPT ![w] = TRUE] /\ ClaimJob(on[w])
    BY <1>9 DEF Claim, StartHeartbeat
  <2>3. /\ status[on[w]] # "NONE" => status'[on[w]] = "RUNNING"
        /\ \A a \in Assessment : status[a] = "RUNNING" => status'[a] = "RUNNING"
    BY <2>1, <2>2 DEF ClaimJob, SetJob, TypeOK, DatabaseTypes
  <2>4. on[w] \in rows => status[on[w]] # "NONE"
    BY <1>9 DEF Claim, Sole, RowKept
  <2> SUFFICES ASSUME NEW v \in Worker, Runs(v)', on[v] \in rows
               PROVE  status'[on[v]] = "RUNNING" /\ beating'[v]
    BY <2>2 DEF RunShown
  <2>5. CASE v = w
    BY <2>2, <2>3, <2>4, <2>5 DEF TypeOK, ProcessTypes
  <2>6. CASE v # w
    <3>1. Runs(v) /\ beating'[v] = beating[v]
      BY <2>2, <2>6 DEF TypeOK, ProcessTypes
    <3> QED BY <1>s, <1>t, <2>3, <3>1
  <2> QED BY <2>5, <2>6
<1>10. ASSUME NEW w \in Worker, Beat(w)
       PROVE  RunShown'
  <2>1. pc[w] = "running" /\ UNCHANGED <<rows, pc, on, status>>
    BY <1>10 DEF Beat, BeatDue, Touch
  <2>2. /\ beating' = beating \/ beating' = [beating EXCEPT ![w] = FALSE]
        /\ status[on[w]] = "RUNNING" => beating' = beating
    BY <1>10 DEF Beat
  <2>3. on[w] \in rows => status[on[w]] = "RUNNING"
    BY <2>1, <1>s
  <2> SUFFICES ASSUME NEW v \in Worker, Runs(v), on[v] \in rows
               PROVE  status[on[v]] = "RUNNING" /\ beating'[v]
    BY <2>1 DEF RunShown
  <2>4. beating'[v] = beating[v]
    BY <2>2, <2>3 DEF TypeOK, ProcessTypes
  <2> QED BY <1>s, <2>4
<1>11. ASSUME NEW w \in Worker, BeatFails(w) \/ FlushHost(w) \/ CommitHost(w)
       PROVE  RunShown'
  BY <1>11, <1>f DEF BeatFails, FlushHost, CommitHost, dbVars
<1>12. ASSUME NEW w \in Worker, RunEnds(w)
       PROVE  RunShown'
  <2>1. \A v \in Worker : Runs(v)' => Runs(v)
    BY <1>12 DEF RunEnds, TypeOK, ProcessTypes
  <2> QED BY <1>12, <2>1, <1>g DEF RunEnds, dbVars
<1>13. ASSUME NEW w \in Worker, ClaimFails(w) \/ FinishFails(w) \/ Finish(w)
       PROVE  RunShown'
  <2>1. EndTask(w) /\ UNCHANGED rows
    BY <1>13 DEF ClaimFails, FinishFails, Finish, dbVars
  <2>2. \A v \in Worker : Runs(v)' =>
          v # w /\ Runs(v) /\ on'[v] = on[v] /\ beating'[v] = beating[v]
    BY <2>1 DEF EndTask, TypeOK, ProcessTypes
  <2>3. \A v \in Worker : v # w /\ Runs(v) => status'[on[v]] = status[on[v]]
    <3>1. CASE ClaimFails(w) \/ FinishFails(w)
      BY <3>1 DEF ClaimFails, FinishFails, dbVars
    <3>2. CASE Finish(w)
      <4>1. on[w] \in Assessment /\ Working(w, on[w])
        BY <3>2, Busy DEF Finish, Working
      <4>2. \A a \in Assessment : a # on[w] => status'[a] = status[a]
        BY <3>2, <4>1 DEF Finish, FinishJob, SetJob, TypeOK, DatabaseTypes
      <4>3. \A v \in Worker : v # w /\ Runs(v) => on[v] # on[w]
        BY <1>t, <4>1 DEF Sole, OneTask
      <4> QED BY <1>t, <4>2, <4>3
    <3> QED BY <1>13, <3>1, <3>2
  <2> QED BY <2>1, <2>2, <2>3, <1>g
<1> QED
  BY <1>1, <1>2, <1>3, <1>4, <1>5, <1>6, <1>7, <1>8, <1>9, <1>10, <1>11, <1>12, <1>13
  DEF Next, CallerStep, ClientStep, WorkerStep

(* A job that is to be started or runs keeps its row.                      *)
LEMMA RowKeptStep ==
  ASSUME TypeOK, StaleOnlyIfMissed, BootAlone, Sole, [Next /\ Patient]_vars
  PROVE  RowKept'
<1> DEFINE Has(a) == \/ \E c \in Caller : cpc[c] = "enqueue" /\ about[c] = a
                     \/ InQueue(a)
                     \/ \E w \in Worker : Working(w, a)
<1>h. RowKept <=> \A a \in rows : Has(a) => status[a] # "NONE"
  BY DEF RowKept, Working
<1>i. RowKept' <=> \A a \in rows' : Has(a)' => status'[a] # "NONE"
  BY DEF RowKept, Working
<1>r. rows \subseteq Assessment
  BY DEF TypeOK, DatabaseTypes
<1>g. ASSUME \A a \in rows' : a \in rows /\ (Has(a)' => Has(a))
                                /\ (status[a] # "NONE" => status'[a] # "NONE")
      PROVE  RowKept'
  BY <1>g, <1>h, <1>i DEF Sole
<1> DEFINE Callers == \A c \in Caller, a \in Assessment :
             cpc'[c] = "enqueue" /\ about'[c] = a => cpc[c] = "enqueue" /\ about[c] = a
           Workers == \A w \in Worker, a \in Assessment : Working(w, a)' => Working(w, a)
           Rows == rows' \subseteq rows
                     /\ \A a \in rows' : status[a] # "NONE" => status'[a] # "NONE"
<1>f. Callers /\ Workers /\ Rows /\ queue' = queue => RowKept'
  BY <1>g, <1>r DEF InQueue
<1>w. UNCHANGED <<pc, on>> => Workers
  BY DEF Working
<1>d. UNCHANGED dbVars => Rows
  BY DEF dbVars
<1>1. CASE Startup
  <2>1. Rows
    BY <1>1, <1>r DEF Startup, RecoverStaleJobs
  <2> QED BY <1>1, <2>1, <1>w, <1>f DEF Startup, poolVars, callerVars
<1>2. CASE Ready \/ UNCHANGED vars
  BY <1>2, <1>d, <1>w, <1>f DEF Ready, vars, poolVars, callerVars
<1>3. CASE Tick
  BY <1>3, <1>w, <1>f DEF Tick, callerVars
<1>4. CASE Crash
  BY <1>4 DEF Crash, RowKept, InQueue
<1>5. ASSUME NEW c \in Caller, NEW a \in Assessment, SubmitRead(c, a)
      PROVE  RowKept'
  <2>1. UNCHANGED poolVars /\ UNCHANGED dbVars
    BY <1>5 DEF SubmitRead
  <2>2. Callers
    <3>1. CASE ActiveJob(a)
      <4>1. Release(c, a)
        BY <1>5, <3>1, Zenon DEF SubmitRead
      <4> QED BY <4>1, Released
    <3>2. CASE ~ActiveJob(a)
      <4>1. cpc' = [cpc EXCEPT ![c] = "commit"] /\ about' = [about EXCEPT ![c] = a]
        BY <1>5, <3>2, Zenon DEF SubmitRead
      <4> QED BY <4>1 DEF TypeOK, ProcessTypes
    <3> QED BY <3>1, <3>2
  <2> QED BY <2>1, <2>2, <1>d, <1>w, <1>f DEF poolVars
<1>6. ASSUME NEW c \in Caller, SubmitCommit(c)
      PROVE  RowKept'
  <2>1. /\ about[c] \in Assessment /\ cpc[c] = "commit"
        /\ UNCHANGED <<rows, poolVars>>
        /\ \A a \in Assessment : status[a] # "NONE" => status'[a] # "NONE"
    BY <1>6, CommitDone
  <2>2. CASE Release(c, about[c])
    BY <2>1, <2>2, <1>r, Released, <1>w, <1>f DEF poolVars
  <2>3. CASE /\ cpc' = [cpc EXCEPT ![c] = "enqueue"] /\ about' = about
             /\ status'[about[c]] # "NONE"
    <3>1. \A d \in Caller : cpc'[d] = "enqueue" => d = c \/ cpc[d] = "enqueue"
      BY <2>3 DEF TypeOK, ProcessTypes
    <3>2. \A a : (InQueue(a)' <=> InQueue(a)) /\ \A w \in Worker : Working(w, a)' <=> Working(w, a)
      BY <2>1 DEF poolVars, InQueue, Working
    <3>3. \A a \in rows : Has(a)' => Has(a) \/ a = about[c]
      BY <2>3, <3>1, <3>2
    <3> QED BY <1>h, <1>i, <1>r, <2>1, <2>3, <3>3 DEF Sole
  <2> QED BY <1>6, <2>2, <2>3, CommitDone
<1>7. ASSUME NEW c \in Caller, SubmitFails(c)
      PROVE  RowKept'
  BY <1>7, Released, <1>d, <1>w, <1>f DEF SubmitFails, poolVars
<1>8. ASSUME NEW c \in Caller, Enqueue(c)
      PROVE  RowKept'
  <2>1. /\ cpc[c] = "enqueue" /\ UNCHANGED dbVars /\ UNCHANGED <<pc, on>>
        /\ \A a : InQueue(a)' => InQueue(a) \/ a = about[c]
    BY <1>8, Appended DEF Enqueue
  <2>2. Callers
    BY <1>8, Released DEF Enqueue, Submitting
  <2>3. \A a \in Assessment : Has(a)' => Has(a)
    BY <2>1, <2>2, <1>w
  <2> QED BY <1>g, <1>r, <2>1, <2>3 DEF dbVars
<1>14. ASSUME NEW c \in Client, DeleteFails(c)
       PROVE  RowKept'
  <2>1. Callers
    BY <1>14, Released DEF DeleteFails, Submitting
  <2> QED BY <1>14, <2>1, <1>d, <1>w, <1>f DEF DeleteFails, poolVars
<1>9. ASSUME NEW c \in Client, NEW a \in Assessment, DeleteCheck(c, a)
      PROVE  RowKept'
  <2>1. Callers
    BY <1>9 DEF DeleteCheck, TypeOK, ProcessTypes
  <2> QED BY <1>9, <2>1, <1>d, <1>w, <1>f DEF DeleteCheck, poolVars
<1>10. ASSUME NEW c \in Client, DeleteCommit(c)
       PROVE  RowKept'
  <2>1. Rows
    BY <1>10, <1>r DEF DeleteCommit, SetJob, TypeOK, DatabaseTypes
  <2>2. Callers
    BY <1>10, Released DEF DeleteCommit, Submitting
  <2> QED BY <1>10, <2>1, <2>2, <1>w, <1>f DEF DeleteCommit, poolVars
<1>11. ASSUME NEW w \in Worker, Take(w)
       PROVE  RowKept'
  <2>1. PICK h : h = Head(queue)
    OBVIOUS
  <2>2. /\ pc' = [pc EXCEPT ![w] = "claim"] /\ on' = [on EXCEPT ![w] = h]
        /\ UNCHANGED <<cpc, about, rows, status>>
    BY <1>11, <2>1 DEF Take, dbVars, callerVars
  <2>3. InQueue(h) /\ \A a : InQueue(a)' => InQueue(a)
    BY <1>11, <2>1, TakenOff
  <2>4. \A v \in Worker, a \in Assessment : Working(v, a)' => Working(v, a) \/ a = h
    BY <2>2 DEF Working, TypeOK, ProcessTypes
  <2>5. \A a \in Assessment : Has(a)' => Has(a)
    BY <2>2, <2>3, <2>4
  <2> QED BY <1>g, <1>r, <2>2, <2>5
<1>12. ASSUME NEW w \in Worker,
              \/ Claim(w) \/ Beat(w) \/ BeatFails(w) \/ RunEnds(w)
              \/ FlushHost(w) \/ CommitHost(w)
       PROVE  RowKept'
  <2>1. Workers
    BY <1>12 DEF Claim, Beat, BeatFails, RunEnds, FlushHost, CommitHost, Working,
                 TypeOK, ProcessTypes
  <2>2. Rows
    <3>1. CASE Claim(w) \/ Beat(w)
      <4>1. on[w] \in Assessment
        BY <3>1, Busy DEF Claim, Beat, BeatDue
      <4> QED
        BY <3>1, <1>r, <4>1
        DEF Claim, ClaimJob, SetJob, Beat, Touch, TypeOK, DatabaseTypes
    <3>2. CASE BeatFails(w) \/ RunEnds(w) \/ FlushHost(w) \/ CommitHost(w)
      BY <3>2, <1>d DEF BeatFails, RunEnds, FlushHost, CommitHost
    <3> QED BY <1>12, <3>1, <3>2
  <2> QED
    BY <1>12, <2>1, <2>2, <1>f
    DEF Claim, Beat, BeatFails, RunEnds, FlushHost, CommitHost, callerVars
<1>13. ASSUME NEW w \in Worker, ClaimFails(w) \/ FinishFails(w) \/ Finish(w)
       PROVE  RowKept'
  <2>1. EndTask(w) /\ UNCHANGED <<queue, callerVars, rows>>
    BY <1>13 DEF ClaimFails, FinishFails, Finish, dbVars
  <2>2. Workers
    BY <2>1 DEF EndTask, Working, TypeOK, ProcessTypes
  <2>3. Rows
    <3>1. CASE ClaimFails(w) \/ FinishFails(w)
      BY <3>1, <1>d DEF ClaimFails, FinishFails
    <3>2. CASE Finish(w)
      <4>1. on[w] \in Assessment /\ outcome[w] \in Finished
        BY <3>2, Busy DEF Finish
      <4> QED
        BY <3>2, <4>1, <1>r DEF Finish, FinishJob, SetJob, TypeOK, DatabaseTypes
    <3> QED BY <1>13, <3>1, <3>2
  <2> QED BY <2>1, <2>2, <2>3, <1>f DEF callerVars
<1> QED
  BY <1>1, <1>2, <1>3, <1>4, <1>5, <1>6, <1>7, <1>8, <1>9, <1>10, <1>11, <1>12, <1>13,
     <1>14
  DEF Next, CallerStep, ClientStep, WorkerStep

(* A start-up has what is to be submitted to itself.                       *)
LEMMA BacklogFreeStep ==
  ASSUME TypeOK, StaleOnlyIfMissed, BootAlone, Sole, [Next /\ Patient]_vars
  PROVE  BacklogFree'
<1> DEFINE Free(a) == ~InQueue(a) /\ \A w \in Worker : ~Working(w, a)
           Quiet == queue = <<>> /\ \A w \in Worker : pc[w] = "idle"
           Calls == UNCHANGED <<server, queue>> /\ backlog' \subseteq backlog
           Workers == /\ \A w \in Worker, a \in Assessment : Working(w, a)' => Working(w, a)
                      /\ \A w \in Worker : pc[w] = "idle" => pc'[w] = "idle"
<1>b. /\ server = "down" => Quiet
      /\ server = "up" => backlog = {}
      /\ \A a \in backlog : Free(a)
  BY DEF Sole, BacklogFree
<1>t. backlog \subseteq Assessment
  BY DEF TypeOK, ProcessTypes
<1>f. Calls /\ Workers => BacklogFree'
  BY <1>b, <1>t DEF BacklogFree, InQueue
<1>w. UNCHANGED <<pc, on>> => Workers
  BY DEF Working
<1>1. CASE Startup
  <2>1. server = "down" /\ server' = "starting" /\ queue' = queue /\ pc' = pc
    BY <1>1 DEF Startup, poolVars
  <2>2. Quiet
    BY <1>b, <2>1
  <2>3. \A a : ~InQueue(a)' /\ \A w \in Worker : ~Working(w, a)'
    BY <2>1, <2>2 DEF InQueue, Working
  <2> QED BY <2>1, <2>3 DEF BacklogFree
<1>2. CASE Ready
  BY <1>2 DEF Ready, BacklogFree
<1>3. CASE Crash
  BY <1>3 DEF Crash, BacklogFree
<1>4. CASE Tick \/ UNCHANGED vars
  BY <1>4, <1>w, <1>f DEF Tick, vars, poolVars
<1>5. ASSUME NEW c \in Caller, NEW a \in Assessment, SubmitRead(c, a)
      PROVE  BacklogFree'
  <2>1. UNCHANGED <<server, poolVars>>
    BY <1>5 DEF SubmitRead
  <2>2. backlog' \subseteq backlog
    <3>1. CASE ActiveJob(a)
      BY <1>5, <3>1, Zenon DEF SubmitRead, Release
    <3>2. CASE ~ActiveJob(a)
      BY <1>5, <3>2, Zenon DEF SubmitRead
    <3> QED BY <3>1, <3>2
  <2> QED BY <2>1, <2>2, <1>w, <1>f DEF poolVars
<1>6. ASSUME NEW c \in Caller, SubmitCommit(c)
      PROVE  BacklogFree'
  BY <1>6, CommitDone, Released, <1>w, <1>f DEF poolVars
<1>7. ASSUME NEW c \in Caller, SubmitFails(c)
      PROVE  BacklogFree'
  BY <1>7, Released, <1>w, <1>f DEF SubmitFails, poolVars
<1>8. ASSUME NEW c \in Caller, Enqueue(c)
      PROVE  BacklogFree'
  <2>1. /\ about[c] \in Assessment /\ cpc[c] = "enqueue" /\ Release(c, about[c])
        /\ \A a : InQueue(a)' => InQueue(a) \/ a = about[c]
        /\ UNCHANGED <<server, pc, on>>
    BY <1>8, Appended DEF Enqueue
  <2>2. c = Boot => server = "starting" /\ backlog' = backlog \ {about[c]}
    BY <2>1 DEF Release, BootAlone
  <2>3. c # Boot => server = "up" /\ backlog' = {}
    <3>1. c # Boot => server = "up" /\ backlog' = backlog
      BY <2>1 DEF Release, BootAlone, TypeOK, ProcessTypes
    <3> QED BY <1>b, <3>1
  <2>4. \A a \in backlog' : a \in backlog /\ a # about[c]
    BY <2>2, <2>3
  <2>5. \A a \in backlog' : ~InQueue(a)' /\ \A w \in Worker : ~Working(w, a)'
    BY <1>b, <2>1, <2>4 DEF Working
  <2> QED BY <1>b, <2>1, <2>2, <2>3, <2>5 DEF BacklogFree
<1>9. ASSUME NEW c \in Client, NEW a \in Assessment, DeleteCheck(c, a)
      PROVE  BacklogFree'
  BY <1>9, <1>w, <1>f DEF DeleteCheck, poolVars
<1>10. ASSUME NEW c \in Client, DeleteCommit(c) \/ DeleteFails(c)
       PROVE  BacklogFree'
  BY <1>10, Released, <1>w, <1>f DEF DeleteCommit, DeleteFails, poolVars
<1>11. ASSUME NEW w \in Worker, Take(w)
       PROVE  BacklogFree'
  <2>1. PICK h : h = Head(queue)
    OBVIOUS
  <2>2. /\ queue # <<>> /\ on' = [on EXCEPT ![w] = h]
        /\ pc' = [pc EXCEPT ![w] = "claim"] /\ UNCHANGED <<server, backlog>>
    BY <1>11, <2>1 DEF Take
  <2>3. InQueue(h) /\ \A a : InQueue(a)' => InQueue(a)
    BY <1>11, <2>1, TakenOff
  <2>4. \A v \in Worker, a \in Assessment : Working(v, a)' => Working(v, a) \/ a = h
    BY <2>2 DEF Working, TypeOK, ProcessTypes
  <2>5. \A a \in backlog : ~InQueue(a)' /\ \A v \in Worker : ~Working(v, a)'
    BY <1>b, <1>t, <2>3, <2>4
  <2> QED BY <1>b, <2>2, <2>5 DEF BacklogFree
<1>12. ASSUME NEW w \in Worker,
              \/ Claim(w) \/ Beat(w) \/ BeatFails(w) \/ RunEnds(w)
              \/ FlushHost(w) \/ CommitHost(w)
       PROVE  BacklogFree'
  <2>1. Workers
    BY <1>12 DEF Claim, Beat, BeatDue, BeatFails, RunEnds, FlushHost, CommitHost, Working,
                 TypeOK, ProcessTypes
  <2> QED
    BY <1>12, <2>1, <1>f DEF Claim, Beat, BeatFails, RunEnds, FlushHost, CommitHost
<1>13. ASSUME NEW w \in Worker, ClaimFails(w) \/ FinishFails(w) \/ Finish(w)
       PROVE  BacklogFree'
  <2>1. EndTask(w) /\ Calls
    BY <1>13 DEF ClaimFails, FinishFails, Finish
  <2>2. Workers
    BY <2>1 DEF EndTask, Working, TypeOK, ProcessTypes
  <2> QED BY <2>1, <2>2, <1>f
<1> QED
  BY <1>1, <1>2, <1>3, <1>4, <1>5, <1>6, <1>7, <1>8, <1>9, <1>10, <1>11, <1>12, <1>13
  DEF Next, CallerStep, ClientStep, WorkerStep

(* DuplicatesNeedHaste: two workers run one assessment only after a client *)
(* has submitted it in haste, while it was awaited or being submitted, or  *)
(* while the heartbeat of its run was held up for longer than the settings *)
(* tolerate.  Crashes, failed transactions, deletions and a tolerable      *)
(* number of missed beats do not duplicate a job that runs                 *)
(* (submit_assessment, _job_is_stale).                                     *)
THEOREM DuplicatesNeedHaste == PatientSpec => []ActiveJobNotDuplicated
<1>1. Init => TypeOK /\ InTime /\ AgeBound /\ BootAlone /\ Sole
  <2>1. Init => BootAlone /\ Sole
    BY DEF Init, BootAlone, Sole, OneTask, RunShown, RowKept, BacklogFree,
           Submitting, InQueue, Working
  <2> QED BY <2>1, TypeInit, AgeInit
<1>2. TypeOK /\ InTime /\ AgeBound => StaleOnlyIfMissed
  BY NeverStale
<1>3. ASSUME TypeOK, InTime, AgeBound, BootAlone, Sole, [Next /\ Patient]_vars
      PROVE  (TypeOK /\ InTime /\ AgeBound /\ BootAlone /\ Sole)'
  <2>1. [Next]_vars /\ StaleOnlyIfMissed
    BY <1>2, <1>3
  <2>2. (TypeOK /\ InTime /\ AgeBound /\ BootAlone)'
    BY <1>3, <2>1, TypeStep, AgeStep, BootStep
  <2>3. Sole'
    BY <1>3, <2>1, OneTaskStep, RunShownStep, RowKeptStep, BacklogFreeStep DEF Sole
  <2> QED BY <2>2, <2>3
<1>4. TypeOK /\ Sole => ActiveJobNotDuplicated
  BY Busy DEF Sole, OneTask, Working, ActiveJobNotDuplicated
<1> QED BY <1>1, <1>3, <1>4, PTL DEF PatientSpec
=============================================================================
