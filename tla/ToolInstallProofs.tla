-------------------------- MODULE ToolInstallProofs --------------------------
(***************************************************************************)
(* Safety of the tool installer, for any tools, any number of requests and *)
(* installs, and any lifetime of the memo.                                 *)
(*                                                                         *)
(* What carries the proofs is Alone: running, which only the endpoint sets *)
(* under its lock, is cleared by the thread after everything that touches  *)
(* the shared state except finished, so that at most the latest install is *)
(* at work.  Misses expire because an entry is as old as the look that     *)
(* found it, however late it is stored.                                    *)
(***************************************************************************)
EXTENDS ToolInstall, TLAPS

\* An install that was accepted has a tool; the others have done nothing.
Started ==
  \A i \in Install :
    IF i <= installs THEN pc[i] # "none" /\ job[i] \in Tool
    ELSE pc[i] = "none" /\ ~failed[i]

Alone == \A i \in Install : Working(i) => running /\ i = installs

\* How far an install is tells what the shared error says.
ErrorAt ==
  \A i \in Install :
    /\ pc[i] \in {"made", "lost", "check", "fetch", "recheck"} => ~failed[i] /\ error = 0
    /\ pc[i] = "leave" => error = 0
    /\ pc[i] = "record" => failed[i] /\ error = 0
    /\ pc[i] \in {"clear", "release"} => error = IF failed[i] THEN i ELSE 0

ConsoleBelow == \A i \in Install : Capturing(i) => outer[i] = 0

\* A remembered miss, and one about to be remembered, is no younger than the
\* tool is on disk.
MissesAge ==
  /\ \A t \in Tool \ installed : since[t] = 0
  /\ \A t \in installed : ~cache[t].found => since[t] <= cache[t].age \/ ~Fresh(t)
  /\ \A p \in Seeker :
       look[p] = "store" /\ ~found[p] /\ asked[p] \in installed =>
         since[asked[p]] <= elapsed[p]

(* The steps of Next, seen through what they do.                           *)
AnyStep ==
  \/ \E t \in Tool : Accept(t) \/ Appear(t)
  \/ \E i \in Install :
       \/ StartFails(i) \/ Begin(i) \/ Check(i) \/ Checked(i) \/ Fetch(i) \/ FetchFails(i)
       \/ Leave(i) \/ Record(i) \/ ClearCache(i) \/ Release(i) \/ Flag(i)
  \/ \E q \in Request, t \in Tool : Locate(q, t)
  \/ \E p \in Seeker : Resolve(p) \/ Store(p)
  \/ Tick
  \/ UNCHANGED vars

(* Every step is one of them.                                              *)
LEMMA Steps == [Next]_vars => AnyStep
  BY DEF Next, ThreadStep, RequestStep, AnyStep, Seeker

USE DEF statusVars, machineVars, threadVars, lookVars, historyVars

StatusTypes ==
  /\ running \in BOOLEAN /\ tool \in Tool \union {NoTool} /\ finished \in BOOLEAN
  /\ log \in 0..MaxInstalls /\ error \in 0..MaxInstalls
  /\ installs \in 0..MaxInstalls /\ stdout \in 0..MaxInstalls /\ overrun \in 0..MaxInstalls
  /\ installed \subseteq Tool /\ promised \subseteq Tool /\ launched \subseteq Launched

ThreadTypes ==
  /\ pc \in [Install -> {"none", "made", "lost", "check", "fetch", "recheck", "leave", "record",
                         "clear", "release", "flag", "over"}]
  /\ job \in [Install -> Tool \union {NoTool}]
  /\ sink \in [Install -> 0..MaxInstalls] /\ outer \in [Install -> 0..MaxInstalls]
  /\ verdict \in [Install -> {"none", "available", "missing"}]
  /\ failed \in [Install -> BOOLEAN]

CacheTypes ==
  cache \in [Tool -> [age : Ages, found : BOOLEAN]] /\ since \in [Tool -> Ages]

LookTypes ==
  /\ look \in [Seeker -> {"idle", "resolve", "store", "done"}]
  /\ asked \in [Seeker -> Tool \union {NoTool}]
  /\ elapsed \in [Seeker -> Ages] /\ found \in [Seeker -> BOOLEAN]

(* TypeOK by the variables it is about.                                    *)
LEMMA TypeParts == TypeOK <=> StatusTypes /\ ThreadTypes /\ CacheTypes /\ LookTypes
  BY DEF TypeOK, StatusTypes, ThreadTypes, CacheTypes, LookTypes

(* Initially types hold, and no install has started.                       *)
LEMMA TypeInit == Init => TypeOK /\ Started
<1> SUFFICES ASSUME Init PROVE TypeOK /\ Started
  OBVIOUS
<1>1. StatusTypes
  <2>1. running \in BOOLEAN /\ finished \in BOOLEAN
    BY Zenon DEF Init
  <2> QED BY <2>1, ToolAssumption DEF Init, StatusTypes
<1>2. ThreadTypes
  BY ToolAssumption DEF Init, ThreadTypes, Install
<1>3. CacheTypes
  BY ToolAssumption DEF Init, CacheTypes, Nothing, Ages
<1>4. LookTypes
  BY ToolAssumption DEF Init, LookTypes, Ages
<1>5. Started
  BY ToolAssumption DEF Init, Started, Install
<1> QED BY <1>1, <1>2, <1>3, <1>4, <1>5, TypeParts

(* locate keeps the types of those who look.                               *)
LEMMA LocateTypes ==
  ASSUME LookTypes, CacheTypes, NEW p \in Seeker, NEW t \in Tool, Locate(p, t)
  PROVE  LookTypes'
<1>1. CASE Fresh(t)
  <2>1. Return(p, cache[t].found)
    BY <1>1, Zenon DEF Locate
  <2>2. (p \notin Request /\ cache[t].found) \in BOOLEAN
    BY DEF CacheTypes
  <2>3. found' \in [Seeker -> BOOLEAN]
    BY <2>1, <2>2, Zenon DEF Return, LookTypes
  <2> QED BY <2>1, <2>3, ToolAssumption DEF Return, LookTypes, Ages
<1>2. CASE ~Fresh(t)
  BY <1>2 DEF Locate, LookTypes
<1> QED BY <1>1, <1>2

(* TypeOK is inductive with Started: what an install looks up is a tool.   *)
LEMMA TypeStep == TypeOK /\ Started /\ [Next]_vars => TypeOK'
<1> SUFFICES ASSUME StatusTypes, ThreadTypes, CacheTypes, LookTypes, Started, [Next]_vars
             PROVE StatusTypes' /\ ThreadTypes' /\ CacheTypes' /\ LookTypes'
  BY TypeParts, PTL
<1> DEFINE AllTypes == StatusTypes /\ ThreadTypes /\ CacheTypes /\ LookTypes
<1> SUFFICES AllTypes'
  OBVIOUS
<1> HIDE DEF AllTypes
<1>1. ASSUME NEW t \in Tool, Accept(t) PROVE AllTypes'
  <2>1. StatusTypes'
    <3>1. running' \in BOOLEAN /\ finished' \in BOOLEAN
      BY <1>1, Zenon DEF Accept, Reset
    <3>2. installs' \in 0..MaxInstalls
      BY <1>1, ToolAssumption DEF Accept, Reset, StatusTypes
    <3> QED BY <1>1, <3>1, <3>2, ToolAssumption DEF Accept, Reset, StatusTypes
  <2>2. ThreadTypes'
    BY <1>1, ToolAssumption DEF Accept, Reset, MayInstall, ThreadTypes, StatusTypes, Install
  <2>3. CacheTypes'
    BY <1>1, ToolAssumption DEF Accept, Reset, MayInstall, CacheTypes, LookTypes, Ages, Tool
  <2>4. LookTypes'
    BY <1>1, ToolAssumption DEF Accept, Reset, MayInstall, LookTypes, CacheTypes, Started, Install, Seeker, Ages
  <2> QED BY <2>1, <2>2, <2>3, <2>4 DEF AllTypes
<1>2. ASSUME NEW t \in Tool, Appear(t) PROVE AllTypes'
  <2>1. StatusTypes'
    BY <1>2, ToolAssumption DEF Appear, StatusTypes, ThreadTypes, Started, Install, Tool
  <2>2. ThreadTypes'
    BY <1>2, ToolAssumption DEF Appear, ThreadTypes, StatusTypes, Install
  <2>3. CacheTypes'
    BY <1>2, ToolAssumption DEF Appear, CacheTypes, LookTypes, Ages, Tool
  <2>4. LookTypes'
    BY <1>2, ToolAssumption DEF Appear, LookTypes, CacheTypes, Started, Install, Seeker, Ages
  <2> QED BY <2>1, <2>2, <2>3, <2>4 DEF AllTypes
<1>3. ASSUME NEW i \in Install, Begin(i) PROVE AllTypes'
  <2>1. StatusTypes'
    BY <1>3, ToolAssumption DEF Begin, Goto, StatusTypes, ThreadTypes, Started, Install, Tool
  <2>2. ThreadTypes'
    BY <1>3, ToolAssumption DEF Begin, Goto, ThreadTypes, StatusTypes, Install
  <2>3. CacheTypes'
    BY <1>3, ToolAssumption DEF Begin, Goto, CacheTypes, LookTypes, Ages, Tool
  <2>4. LookTypes'
    BY <1>3, ToolAssumption DEF Begin, Goto, LookTypes, CacheTypes, Started, Install, Seeker, Ages
  <2> QED BY <2>1, <2>2, <2>3, <2>4 DEF AllTypes
<1>4. ASSUME NEW i \in Install, Check(i) PROVE AllTypes'
  <2>1. StatusTypes'
    BY <1>4, ToolAssumption DEF Check, Locate, Return, Fresh, StatusTypes, ThreadTypes, Started, Install, Tool
  <2>2. ThreadTypes'
    BY <1>4, ToolAssumption DEF Check, Locate, Return, Fresh, ThreadTypes, StatusTypes, Install
  <2>3. CacheTypes'
    BY <1>4, ToolAssumption DEF Check, Locate, Return, Fresh, CacheTypes, LookTypes, Ages, Tool
  <2>4. LookTypes'
    <3>1. i \in Seeker /\ job[i] \in Tool
      BY <1>4 DEF Check, Started, ThreadTypes, StatusTypes, Seeker, Install
    <3> QED BY <1>4, <3>1, LocateTypes DEF Check
  <2> QED BY <2>1, <2>2, <2>3, <2>4 DEF AllTypes
<1>5. ASSUME NEW q \in Request, NEW t \in Tool, Locate(q, t) PROVE AllTypes'
  <2>1. StatusTypes'
    BY <1>5, ToolAssumption DEF Locate, Return, Fresh, StatusTypes, ThreadTypes, Started, Install, Tool
  <2>2. ThreadTypes'
    BY <1>5, ToolAssumption DEF Locate, Return, Fresh, ThreadTypes, StatusTypes, Install
  <2>3. CacheTypes'
    BY <1>5, ToolAssumption DEF Locate, Return, Fresh, CacheTypes, LookTypes, Ages, Tool
  <2>4. LookTypes'
    BY <1>5, LocateTypes DEF Seeker
  <2> QED BY <2>1, <2>2, <2>3, <2>4 DEF AllTypes
<1>6. ASSUME NEW p \in Seeker, Resolve(p) PROVE AllTypes'
  <2>1. StatusTypes'
    BY <1>6, ToolAssumption DEF Resolve, StatusTypes, ThreadTypes, Started, Install, Tool
  <2>2. ThreadTypes'
    BY <1>6, ToolAssumption DEF Resolve, ThreadTypes, StatusTypes, Install
  <2>3. CacheTypes'
    BY <1>6, ToolAssumption DEF Resolve, CacheTypes, LookTypes, Ages, Tool
  <2>4. LookTypes'
    BY <1>6, ToolAssumption DEF Resolve, LookTypes, CacheTypes, Started, Install, Seeker, Ages
  <2> QED BY <2>1, <2>2, <2>3, <2>4 DEF AllTypes
<1>7. ASSUME NEW p \in Seeker, Store(p) PROVE AllTypes'
  <2>1. StatusTypes'
    BY <1>7, ToolAssumption DEF Store, Return, Entry, StatusTypes, ThreadTypes, Started, Install, Tool
  <2>2. ThreadTypes'
    BY <1>7, ToolAssumption DEF Store, Return, Entry, ThreadTypes, StatusTypes, Install
  <2>3. CacheTypes'
    BY <1>7, ToolAssumption DEF Store, Return, Entry, CacheTypes, LookTypes, Ages, Tool
  <2>4. LookTypes'
    BY <1>7, ToolAssumption DEF Store, Return, Entry, LookTypes, CacheTypes, Started, Install, Seeker, Ages
  <2> QED BY <2>1, <2>2, <2>3, <2>4 DEF AllTypes
<1>8. ASSUME NEW i \in Install, Checked(i) PROVE AllTypes'
  <2>1. StatusTypes'
    BY <1>8, ToolAssumption DEF Checked, Goto, StatusTypes, ThreadTypes, Started, Install, Tool
  <2>2. ThreadTypes'
    BY <1>8, ToolAssumption DEF Checked, Goto, ThreadTypes, StatusTypes, Install
  <2>3. CacheTypes'
    BY <1>8, ToolAssumption DEF Checked, Goto, CacheTypes, LookTypes, Ages, Tool
  <2>4. LookTypes'
    BY <1>8, ToolAssumption DEF Checked, Goto, LookTypes, CacheTypes, Started, Install, Seeker, Ages
  <2> QED BY <2>1, <2>2, <2>3, <2>4 DEF AllTypes
<1>9. ASSUME NEW i \in Install, Fetch(i) PROVE AllTypes'
  <2>1. StatusTypes'
    <3>1. job[i] \in Tool
      BY <1>9 DEF Fetch, Started, ThreadTypes, StatusTypes, Install
    <3>2. installed' \subseteq Tool
      <4>1. installed' \in {installed, installed \union {job[i]}}
        BY <1>9 DEF Fetch
      <4> QED BY <3>1, <4>1 DEF StatusTypes
    <3>3. CASE job[i] \in Portable
      BY <1>9, <3>3, <3>2 DEF Fetch, StatusTypes
    <3>4. CASE job[i] \notin Portable
      <4>1. job[i] \in Launched
        BY <3>1, <3>4 DEF Tool
      <4>2. launched' \in {launched, launched \union {job[i]}}
        BY <1>9, <3>4, Zenon DEF Fetch
      <4>3. launched' \subseteq Launched
        BY <4>1, <4>2, Zenon DEF StatusTypes
      <4> QED BY <1>9, <3>2, <4>3 DEF Fetch, StatusTypes
    <3> QED BY <3>3, <3>4
  <2>2. ThreadTypes'
    BY <1>9, ToolAssumption DEF Fetch, Goto, ThreadTypes, StatusTypes, Install
  <2>3. CacheTypes'
    BY <1>9, ToolAssumption DEF Fetch, Goto, CacheTypes, LookTypes, Ages, Tool
  <2>4. LookTypes'
    BY <1>9, ToolAssumption DEF Fetch, Goto, LookTypes, CacheTypes, Started, Install, Seeker, Ages
  <2> QED BY <2>1, <2>2, <2>3, <2>4 DEF AllTypes
<1>10. ASSUME NEW i \in Install, FetchFails(i) PROVE AllTypes'
  <2>1. StatusTypes'
    BY <1>10, ToolAssumption DEF FetchFails, Goto, StatusTypes, ThreadTypes, Started, Install, Tool
  <2>2. ThreadTypes'
    BY <1>10, ToolAssumption DEF FetchFails, Goto, ThreadTypes, StatusTypes, Install
  <2>3. CacheTypes'
    BY <1>10, ToolAssumption DEF FetchFails, Goto, CacheTypes, LookTypes, Ages, Tool
  <2>4. LookTypes'
    BY <1>10, ToolAssumption DEF FetchFails, Goto, LookTypes, CacheTypes, Started, Install, Seeker, Ages
  <2> QED BY <2>1, <2>2, <2>3, <2>4 DEF AllTypes
<1>11. ASSUME NEW i \in Install, Leave(i) PROVE AllTypes'
  <2>1. StatusTypes'
    BY <1>11, ToolAssumption DEF Leave, Goto, StatusTypes, ThreadTypes, Started, Install, Tool
  <2>2. ThreadTypes'
    BY <1>11, ToolAssumption DEF Leave, Goto, ThreadTypes, StatusTypes, Install
  <2>3. CacheTypes'
    BY <1>11, ToolAssumption DEF Leave, Goto, CacheTypes, LookTypes, Ages, Tool
  <2>4. LookTypes'
    BY <1>11, ToolAssumption DEF Leave, Goto, LookTypes, CacheTypes, Started, Install, Seeker, Ages
  <2> QED BY <2>1, <2>2, <2>3, <2>4 DEF AllTypes
<1>12. ASSUME NEW i \in Install, Record(i) PROVE AllTypes'
  <2>1. StatusTypes'
    BY <1>12, ToolAssumption DEF Record, Goto, StatusTypes, ThreadTypes, Started, Install, Tool
  <2>2. ThreadTypes'
    BY <1>12, ToolAssumption DEF Record, Goto, ThreadTypes, StatusTypes, Install
  <2>3. CacheTypes'
    BY <1>12, ToolAssumption DEF Record, Goto, CacheTypes, LookTypes, Ages, Tool
  <2>4. LookTypes'
    BY <1>12, ToolAssumption DEF Record, Goto, LookTypes, CacheTypes, Started, Install, Seeker, Ages
  <2> QED BY <2>1, <2>2, <2>3, <2>4 DEF AllTypes
<1>13. ASSUME NEW i \in Install, ClearCache(i) PROVE AllTypes'
  <2>1. StatusTypes'
    BY <1>13, ToolAssumption DEF ClearCache, Goto, Nothing, StatusTypes, ThreadTypes, Started, Install, Tool
  <2>2. ThreadTypes'
    BY <1>13, ToolAssumption DEF ClearCache, Goto, Nothing, ThreadTypes, StatusTypes, Install
  <2>3. CacheTypes'
    BY <1>13, ToolAssumption DEF ClearCache, Goto, Nothing, CacheTypes, LookTypes, Ages, Tool
  <2>4. LookTypes'
    BY <1>13, ToolAssumption DEF ClearCache, Goto, Nothing, LookTypes, CacheTypes, Started, Install, Seeker, Ages
  <2> QED BY <2>1, <2>2, <2>3, <2>4 DEF AllTypes
<1>14. ASSUME NEW i \in Install, Release(i) PROVE AllTypes'
  <2>1. StatusTypes'
    BY <1>14, ToolAssumption DEF Release, Releasable, Goto, StatusTypes, ThreadTypes, Started, Install, Tool
  <2>2. ThreadTypes'
    BY <1>14, ToolAssumption DEF Release, Releasable, Goto, ThreadTypes, StatusTypes, Install
  <2>3. CacheTypes'
    BY <1>14, ToolAssumption DEF Release, Releasable, Goto, CacheTypes, LookTypes, Ages, Tool
  <2>4. LookTypes'
    BY <1>14, ToolAssumption DEF Release, Releasable, Goto, LookTypes, CacheTypes, Started, Install, Seeker, Ages
  <2> QED BY <2>1, <2>2, <2>3, <2>4 DEF AllTypes
<1>15. ASSUME NEW i \in Install, Flag(i) PROVE AllTypes'
  <2>1. StatusTypes'
    BY <1>15, ToolAssumption DEF Flag, Goto, StatusTypes, ThreadTypes, Started, Install, Tool
  <2>2. ThreadTypes'
    BY <1>15, ToolAssumption DEF Flag, Goto, ThreadTypes, StatusTypes, Install
  <2>3. CacheTypes'
    BY <1>15, ToolAssumption DEF Flag, Goto, CacheTypes, LookTypes, Ages, Tool
  <2>4. LookTypes'
    BY <1>15, ToolAssumption DEF Flag, Goto, LookTypes, CacheTypes, Started, Install, Seeker, Ages
  <2> QED BY <2>1, <2>2, <2>3, <2>4 DEF AllTypes
<1>16. ASSUME Tick PROVE AllTypes'
  <2>1. StatusTypes'
    BY <1>16, ToolAssumption DEF Tick, Older, StatusTypes, ThreadTypes, Started, Install, Tool
  <2>2. ThreadTypes'
    BY <1>16, ToolAssumption DEF Tick, Older, ThreadTypes, StatusTypes, Install
  <2>3. CacheTypes'
    BY <1>16, ToolAssumption DEF Tick, Older, CacheTypes, LookTypes, Ages, Tool
  <2>4. LookTypes'
    BY <1>16, ToolAssumption DEF Tick, Older, LookTypes, CacheTypes, Started, Install, Seeker, Ages
  <2> QED BY <2>1, <2>2, <2>3, <2>4 DEF AllTypes
<1>17. ASSUME UNCHANGED vars PROVE AllTypes'
  <2>1. StatusTypes'
    BY <1>17, ToolAssumption DEF vars, StatusTypes, ThreadTypes, Started, Install, Tool
  <2>2. ThreadTypes'
    BY <1>17, ToolAssumption DEF vars, ThreadTypes, StatusTypes, Install
  <2>3. CacheTypes'
    BY <1>17, ToolAssumption DEF vars, CacheTypes, LookTypes, Ages, Tool
  <2>4. LookTypes'
    BY <1>17, ToolAssumption DEF vars, LookTypes, CacheTypes, Started, Install, Seeker, Ages
  <2> QED BY <2>1, <2>2, <2>3, <2>4 DEF AllTypes
<1>18. ASSUME NEW i \in Install, StartFails(i) PROVE AllTypes'
  <2>1. StatusTypes'
    BY <1>18, ToolAssumption DEF StartFails, Goto, StatusTypes, ThreadTypes, Started, Install, Tool
  <2>2. ThreadTypes'
    BY <1>18, ToolAssumption DEF StartFails, Goto, ThreadTypes, StatusTypes, Install
  <2>3. CacheTypes'
    BY <1>18, ToolAssumption DEF StartFails, Goto, CacheTypes, LookTypes, Ages, Tool
  <2>4. LookTypes'
    BY <1>18, ToolAssumption DEF StartFails, Goto, LookTypes, CacheTypes, Started, Install, Seeker, Ages
  <2> QED BY <2>1, <2>2, <2>3, <2>4 DEF AllTypes
<1> QED
  BY <1>1, <1>2, <1>3, <1>4, <1>5, <1>6, <1>7, <1>8, <1>9, <1>10, <1>11, <1>12, <1>13, <1>14, <1>15, <1>16, <1>17, <1>18, Steps DEF AnyStep

(* Only Accept starts an install, the next one, with a tool.               *)
LEMMA StartedStep == TypeOK /\ Started /\ [Next]_vars => Started'
<1> SUFFICES ASSUME TypeOK, Started, [Next]_vars PROVE Started'
  OBVIOUS
<1>1. ASSUME NEW t \in Tool, Accept(t) PROVE Started'
  BY <1>1, ToolAssumption DEF Accept, Reset, MayInstall, TypeOK, Started, Install
<1>2. ASSUME NEW t \in Tool, Appear(t) PROVE Started'
  BY <1>2, ToolAssumption DEF Appear, TypeOK, Started, Install
<1>3. ASSUME NEW i \in Install, Begin(i) PROVE Started'
  BY <1>3, ToolAssumption DEF Begin, Goto, TypeOK, Started, Install
<1>4. ASSUME NEW i \in Install, Check(i) PROVE Started'
  BY <1>4, ToolAssumption DEF Check, Locate, Return, Fresh, TypeOK, Started, Install
<1>5. ASSUME NEW q \in Request, NEW t \in Tool, Locate(q, t) PROVE Started'
  BY <1>5, ToolAssumption DEF Locate, Return, Fresh, TypeOK, Started, Install
<1>6. ASSUME NEW p \in Seeker, Resolve(p) PROVE Started'
  BY <1>6, ToolAssumption DEF Resolve, TypeOK, Started, Install
<1>7. ASSUME NEW p \in Seeker, Store(p) PROVE Started'
  BY <1>7, ToolAssumption DEF Store, Return, Entry, TypeOK, Started, Install
<1>8. ASSUME NEW i \in Install, Checked(i) PROVE Started'
  BY <1>8, ToolAssumption DEF Checked, Goto, TypeOK, Started, Install
<1>9. ASSUME NEW i \in Install, Fetch(i) PROVE Started'
  BY <1>9, ToolAssumption DEF Fetch, Goto, TypeOK, Started, Install
<1>10. ASSUME NEW i \in Install, FetchFails(i) PROVE Started'
  BY <1>10, ToolAssumption DEF FetchFails, Goto, TypeOK, Started, Install
<1>11. ASSUME NEW i \in Install, Leave(i) PROVE Started'
  BY <1>11, ToolAssumption DEF Leave, Goto, TypeOK, Started, Install
<1>12. ASSUME NEW i \in Install, Record(i) PROVE Started'
  BY <1>12, ToolAssumption DEF Record, Goto, TypeOK, Started, Install
<1>13. ASSUME NEW i \in Install, ClearCache(i) PROVE Started'
  BY <1>13, ToolAssumption DEF ClearCache, Goto, Nothing, TypeOK, Started, Install
<1>14. ASSUME NEW i \in Install, Release(i) PROVE Started'
  BY <1>14, ToolAssumption DEF Release, Releasable, Goto, TypeOK, Started, Install
<1>15. ASSUME NEW i \in Install, Flag(i) PROVE Started'
  BY <1>15, ToolAssumption DEF Flag, Goto, TypeOK, Started, Install
<1>16. ASSUME Tick PROVE Started'
  BY <1>16, ToolAssumption DEF Tick, Older, TypeOK, Started, Install
<1>17. ASSUME UNCHANGED vars PROVE Started'
  BY <1>17, ToolAssumption DEF vars, TypeOK, Started, Install
<1>18. ASSUME NEW i \in Install, StartFails(i) PROVE Started'
  BY <1>18, ToolAssumption DEF StartFails, Goto, TypeOK, Started, Install
<1> QED
  BY <1>1, <1>2, <1>3, <1>4, <1>5, <1>6, <1>7, <1>8, <1>9, <1>10, <1>11, <1>12, <1>13, <1>14, <1>15, <1>16, <1>17, <1>18, Steps DEF AnyStep

-----------------------------------------------------------------------------
(* What the shared status and sys.stdout hold.                             *)

Own == Alone /\ ErrorAt /\ ConsoleBelow /\ StatusIsOwn /\ OutputCaptured /\ OutcomeShown

(* Initially nothing is captured and no outcome is owed.                   *)
LEMMA OwnInit == Init => Own
  BY DEF Init, Own, Alone, ErrorAt, ConsoleBelow, StatusIsOwn, OutputCaptured, OutcomeShown,
         Working, Capturing

(* Every step keeps Own: only the latest install touches what it is about. *)
LEMMA OwnStep == TypeOK /\ Started /\ Own /\ [Next]_vars => Own'
<1> SUFFICES ASSUME StatusTypes, ThreadTypes, Started, Own, [Next]_vars PROVE Own'
  BY TypeParts
<1> USE ToolAssumption DEF StatusTypes, ThreadTypes, Own, Working, Capturing, Install
<1>1. ASSUME NEW t \in Tool, Accept(t) PROVE Own'
  <2>1. Alone'
    BY <1>1 DEF Accept, Reset, MayInstall, Alone, Started
  <2>2. ErrorAt'
    <3>1. \A j \in Install : pc[j] \in {"none", "flag", "over"}
      BY <1>1 DEF Accept, Reset, MayInstall, Alone
    <3>2. installs + 1 \in Install /\ ~failed[installs + 1]
      BY <1>1 DEF Accept, Reset, Started
    <3>3. /\ pc' = [pc EXCEPT ![installs + 1] = "made"]
          /\ error' = 0 /\ failed' = failed
      BY <1>1 DEF Accept, Reset
    <3> SUFFICES ASSUME NEW j \in Install,
                        pc'[j] \notin {"none", "flag", "over"}
                 PROVE  pc'[j] = "made" /\ ~failed'[j] /\ error' = 0
      BY DEF ErrorAt
    <3>4. j = installs + 1
      BY <3>1, <3>3
    <3> QED BY <3>2, <3>3, <3>4
  <2>3. ConsoleBelow'
    BY <1>1 DEF Accept, Reset, MayInstall, Alone, ConsoleBelow, OutputCaptured
  <2>4. StatusIsOwn'
    BY <1>1 DEF Accept, Reset, MayInstall, Alone, Started, StatusIsOwn, ErrorAt
  <2>5. OutputCaptured'
    BY <1>1 DEF Accept, Reset, MayInstall, Alone, Started, OutputCaptured, ConsoleBelow
  <2>6. OutcomeShown'
    BY <1>1 DEF Accept, Reset, MayInstall, Alone, Started, ErrorAt, OutcomeShown
  <2> QED BY <2>1, <2>2, <2>3, <2>4, <2>5, <2>6 DEF Own
<1>2. ASSUME NEW t \in Tool, Appear(t) PROVE Own'
  <2>1. Alone'
    BY <1>2 DEF Appear, Alone, Started
  <2>2. ErrorAt'
    BY <1>2 DEF Appear, Alone, ErrorAt, Started
  <2>3. ConsoleBelow'
    BY <1>2 DEF Appear, Alone, ConsoleBelow, OutputCaptured
  <2>4. StatusIsOwn'
    BY <1>2 DEF Appear, Alone, Started, StatusIsOwn, ErrorAt
  <2>5. OutputCaptured'
    BY <1>2 DEF Appear, Alone, Started, OutputCaptured, ConsoleBelow
  <2>6. OutcomeShown'
    BY <1>2 DEF Appear, Alone, Started, ErrorAt, OutcomeShown
  <2> QED BY <2>1, <2>2, <2>3, <2>4, <2>5, <2>6 DEF Own
<1>3. ASSUME NEW i \in Install, Begin(i) PROVE Own'
  <2>1. Alone'
    BY <1>3 DEF Begin, Goto, Alone, Started
  <2>2. ErrorAt'
    BY <1>3 DEF Begin, Goto, Alone, ErrorAt, Started
  <2>3. ConsoleBelow'
    <3>1. stdout = 0
      <4>1. ASSUME stdout # 0 PROVE FALSE
        <5>1. stdout \in Install /\ Capturing(stdout)
          BY <4>1 DEF OutputCaptured
        <5>2. stdout = i
          BY <1>3, <5>1 DEF Begin, Alone
        <5> QED BY <1>3, <5>1, <5>2 DEF Begin
      <4> QED BY <4>1
    <3> QED BY <1>3, <3>1 DEF Begin, Goto, ConsoleBelow
  <2>4. StatusIsOwn'
    BY <1>3 DEF Begin, Goto, Alone, Started, StatusIsOwn, ErrorAt
  <2>5. OutputCaptured'
    BY <1>3 DEF Begin, Goto, Alone, Started, OutputCaptured, ConsoleBelow
  <2>6. OutcomeShown'
    BY <1>3 DEF Begin, Goto, Alone, Started, ErrorAt, OutcomeShown
  <2> QED BY <2>1, <2>2, <2>3, <2>4, <2>5, <2>6 DEF Own
<1>4. ASSUME NEW i \in Install, Check(i) PROVE Own'
  <2>1. Alone'
    BY <1>4 DEF Check, Locate, Return, Fresh, Alone, Started
  <2>2. ErrorAt'
    BY <1>4 DEF Check, Locate, Return, Fresh, Alone, ErrorAt, Started
  <2>3. ConsoleBelow'
    BY <1>4 DEF Check, Locate, Return, Fresh, Alone, ConsoleBelow, OutputCaptured
  <2>4. StatusIsOwn'
    BY <1>4 DEF Check, Locate, Return, Fresh, Alone, Started, StatusIsOwn, ErrorAt
  <2>5. OutputCaptured'
    BY <1>4 DEF Check, Locate, Return, Fresh, Alone, Started, OutputCaptured, ConsoleBelow
  <2>6. OutcomeShown'
    BY <1>4 DEF Check, Locate, Return, Fresh, Alone, Started, ErrorAt, OutcomeShown
  <2> QED BY <2>1, <2>2, <2>3, <2>4, <2>5, <2>6 DEF Own
<1>5. ASSUME NEW q \in Request, NEW t \in Tool, Locate(q, t) PROVE Own'
  <2>1. Alone'
    BY <1>5 DEF Locate, Return, Fresh, Alone, Started
  <2>2. ErrorAt'
    BY <1>5 DEF Locate, Return, Fresh, Alone, ErrorAt, Started
  <2>3. ConsoleBelow'
    BY <1>5 DEF Locate, Return, Fresh, Alone, ConsoleBelow, OutputCaptured
  <2>4. StatusIsOwn'
    BY <1>5 DEF Locate, Return, Fresh, Alone, Started, StatusIsOwn, ErrorAt
  <2>5. OutputCaptured'
    BY <1>5 DEF Locate, Return, Fresh, Alone, Started, OutputCaptured, ConsoleBelow
  <2>6. OutcomeShown'
    BY <1>5 DEF Locate, Return, Fresh, Alone, Started, ErrorAt, OutcomeShown
  <2> QED BY <2>1, <2>2, <2>3, <2>4, <2>5, <2>6 DEF Own
<1>6. ASSUME NEW p \in Seeker, Resolve(p) PROVE Own'
  <2>1. Alone'
    BY <1>6 DEF Resolve, Alone, Started
  <2>2. ErrorAt'
    BY <1>6 DEF Resolve, Alone, ErrorAt, Started
  <2>3. ConsoleBelow'
    BY <1>6 DEF Resolve, Alone, ConsoleBelow, OutputCaptured
  <2>4. StatusIsOwn'
    BY <1>6 DEF Resolve, Alone, Started, StatusIsOwn, ErrorAt
  <2>5. OutputCaptured'
    BY <1>6 DEF Resolve, Alone, Started, OutputCaptured, ConsoleBelow
  <2>6. OutcomeShown'
    BY <1>6 DEF Resolve, Alone, Started, ErrorAt, OutcomeShown
  <2> QED BY <2>1, <2>2, <2>3, <2>4, <2>5, <2>6 DEF Own
<1>7. ASSUME NEW p \in Seeker, Store(p) PROVE Own'
  <2>1. Alone'
    BY <1>7 DEF Store, Return, Entry, Alone, Started
  <2>2. ErrorAt'
    BY <1>7 DEF Store, Return, Entry, Alone, ErrorAt, Started
  <2>3. ConsoleBelow'
    BY <1>7 DEF Store, Return, Entry, Alone, ConsoleBelow, OutputCaptured
  <2>4. StatusIsOwn'
    BY <1>7 DEF Store, Return, Entry, Alone, Started, StatusIsOwn, ErrorAt
  <2>5. OutputCaptured'
    BY <1>7 DEF Store, Return, Entry, Alone, Started, OutputCaptured, ConsoleBelow
  <2>6. OutcomeShown'
    BY <1>7 DEF Store, Return, Entry, Alone, Started, ErrorAt, OutcomeShown
  <2> QED BY <2>1, <2>2, <2>3, <2>4, <2>5, <2>6 DEF Own
<1>8. ASSUME NEW i \in Install, Checked(i) PROVE Own'
  <2>1. Alone'
    BY <1>8 DEF Checked, Goto, Alone, Started
  <2>2. ErrorAt'
    BY <1>8 DEF Checked, Goto, Alone, ErrorAt, Started
  <2>3. ConsoleBelow'
    BY <1>8 DEF Checked, Goto, Alone, ConsoleBelow, OutputCaptured
  <2>4. StatusIsOwn'
    BY <1>8 DEF Checked, Goto, Alone, Started, StatusIsOwn, ErrorAt
  <2>5. OutputCaptured'
    BY <1>8 DEF Checked, Goto, Alone, Started, OutputCaptured, ConsoleBelow
  <2>6. OutcomeShown'
    BY <1>8 DEF Checked, Goto, Alone, Started, ErrorAt, OutcomeShown
  <2> QED BY <2>1, <2>2, <2>3, <2>4, <2>5, <2>6 DEF Own
<1>9. ASSUME NEW i \in Install, Fetch(i) PROVE Own'
  <2>1. Alone'
    BY <1>9 DEF Fetch, Goto, Alone, Started
  <2>2. ErrorAt'
    BY <1>9 DEF Fetch, Goto, Alone, ErrorAt, Started
  <2>3. ConsoleBelow'
    BY <1>9 DEF Fetch, Goto, Alone, ConsoleBelow, OutputCaptured
  <2>4. StatusIsOwn'
    BY <1>9 DEF Fetch, Goto, Alone, Started, StatusIsOwn, ErrorAt
  <2>5. OutputCaptured'
    BY <1>9 DEF Fetch, Goto, Alone, Started, OutputCaptured, ConsoleBelow
  <2>6. OutcomeShown'
    BY <1>9 DEF Fetch, Goto, Alone, Started, ErrorAt, OutcomeShown
  <2> QED BY <2>1, <2>2, <2>3, <2>4, <2>5, <2>6 DEF Own
<1>10. ASSUME NEW i \in Install, FetchFails(i) PROVE Own'
  <2>1. Alone'
    BY <1>10 DEF FetchFails, Goto, Alone, Started
  <2>2. ErrorAt'
    BY <1>10 DEF FetchFails, Goto, Alone, ErrorAt, Started
  <2>3. ConsoleBelow'
    BY <1>10 DEF FetchFails, Goto, Alone, ConsoleBelow, OutputCaptured
  <2>4. StatusIsOwn'
    BY <1>10 DEF FetchFails, Goto, Alone, Started, StatusIsOwn, ErrorAt
  <2>5. OutputCaptured'
    BY <1>10 DEF FetchFails, Goto, Alone, Started, OutputCaptured, ConsoleBelow
  <2>6. OutcomeShown'
    BY <1>10 DEF FetchFails, Goto, Alone, Started, ErrorAt, OutcomeShown
  <2> QED BY <2>1, <2>2, <2>3, <2>4, <2>5, <2>6 DEF Own
<1>11. ASSUME NEW i \in Install, Leave(i) PROVE Own'
  <2>1. Alone'
    BY <1>11 DEF Leave, Goto, Alone, Started
  <2>2. ErrorAt'
    BY <1>11 DEF Leave, Goto, Alone, ErrorAt, Started
  <2>3. ConsoleBelow'
    BY <1>11 DEF Leave, Goto, Alone, ConsoleBelow, OutputCaptured
  <2>4. StatusIsOwn'
    BY <1>11 DEF Leave, Goto, Alone, Started, StatusIsOwn, ErrorAt
  <2>5. OutputCaptured'
    BY <1>11 DEF Leave, Goto, Alone, Started, OutputCaptured, ConsoleBelow
  <2>6. OutcomeShown'
    BY <1>11 DEF Leave, Goto, Alone, Started, ErrorAt, OutcomeShown
  <2> QED BY <2>1, <2>2, <2>3, <2>4, <2>5, <2>6 DEF Own
<1>12. ASSUME NEW i \in Install, Record(i) PROVE Own'
  <2>1. Alone'
    BY <1>12 DEF Record, Goto, Alone, Started
  <2>2. ErrorAt'
    BY <1>12 DEF Record, Goto, Alone, ErrorAt, Started
  <2>3. ConsoleBelow'
    BY <1>12 DEF Record, Goto, Alone, ConsoleBelow, OutputCaptured
  <2>4. StatusIsOwn'
    BY <1>12 DEF Record, Goto, Alone, Started, StatusIsOwn, ErrorAt
  <2>5. OutputCaptured'
    BY <1>12 DEF Record, Goto, Alone, Started, OutputCaptured, ConsoleBelow
  <2>6. OutcomeShown'
    BY <1>12 DEF Record, Goto, Alone, Started, ErrorAt, OutcomeShown
  <2> QED BY <2>1, <2>2, <2>3, <2>4, <2>5, <2>6 DEF Own
<1>13. ASSUME NEW i \in Install, ClearCache(i) PROVE Own'
  <2>1. Alone'
    BY <1>13 DEF ClearCache, Goto, Nothing, Alone, Started
  <2>2. ErrorAt'
    BY <1>13 DEF ClearCache, Goto, Nothing, Alone, ErrorAt, Started
  <2>3. ConsoleBelow'
    BY <1>13 DEF ClearCache, Goto, Nothing, Alone, ConsoleBelow, OutputCaptured
  <2>4. StatusIsOwn'
    BY <1>13 DEF ClearCache, Goto, Nothing, Alone, Started, StatusIsOwn, ErrorAt
  <2>5. OutputCaptured'
    BY <1>13 DEF ClearCache, Goto, Nothing, Alone, Started, OutputCaptured, ConsoleBelow
  <2>6. OutcomeShown'
    BY <1>13 DEF ClearCache, Goto, Nothing, Alone, Started, ErrorAt, OutcomeShown
  <2> QED BY <2>1, <2>2, <2>3, <2>4, <2>5, <2>6 DEF Own
<1>14. ASSUME NEW i \in Install, Release(i) PROVE Own'
  <2>1. Alone'
    BY <1>14 DEF Release, Releasable, Goto, Alone, Started
  <2>2. ErrorAt'
    BY <1>14 DEF Release, Releasable, Goto, Alone, ErrorAt, Started
  <2>3. ConsoleBelow'
    BY <1>14 DEF Release, Releasable, Goto, Alone, ConsoleBelow, OutputCaptured
  <2>4. StatusIsOwn'
    BY <1>14 DEF Release, Releasable, Goto, Alone, Started, StatusIsOwn, ErrorAt
  <2>5. OutputCaptured'
    BY <1>14 DEF Release, Releasable, Goto, Alone, Started, OutputCaptured, ConsoleBelow
  <2>6. OutcomeShown'
    BY <1>14 DEF Release, Releasable, Goto, Alone, Started, ErrorAt, OutcomeShown
  <2> QED BY <2>1, <2>2, <2>3, <2>4, <2>5, <2>6 DEF Own
<1>15. ASSUME NEW i \in Install, Flag(i) PROVE Own'
  <2>1. Alone'
    BY <1>15 DEF Flag, Goto, Alone, Started
  <2>2. ErrorAt'
    BY <1>15 DEF Flag, Goto, Alone, ErrorAt, Started
  <2>3. ConsoleBelow'
    BY <1>15 DEF Flag, Goto, Alone, ConsoleBelow, OutputCaptured
  <2>4. StatusIsOwn'
    BY <1>15 DEF Flag, Goto, Alone, Started, StatusIsOwn, ErrorAt
  <2>5. OutputCaptured'
    BY <1>15 DEF Flag, Goto, Alone, Started, OutputCaptured, ConsoleBelow
  <2>6. OutcomeShown'
    BY <1>15 DEF Flag, Goto, Alone, Started, ErrorAt, OutcomeShown
  <2> QED BY <2>1, <2>2, <2>3, <2>4, <2>5, <2>6 DEF Own
<1>16. ASSUME Tick PROVE Own'
  <2>1. Alone'
    BY <1>16 DEF Tick, Older, Alone, Started
  <2>2. ErrorAt'
    BY <1>16 DEF Tick, Older, Alone, ErrorAt, Started
  <2>3. ConsoleBelow'
    BY <1>16 DEF Tick, Older, Alone, ConsoleBelow, OutputCaptured
  <2>4. StatusIsOwn'
    BY <1>16 DEF Tick, Older, Alone, Started, StatusIsOwn, ErrorAt
  <2>5. OutputCaptured'
    BY <1>16 DEF Tick, Older, Alone, Started, OutputCaptured, ConsoleBelow
  <2>6. OutcomeShown'
    BY <1>16 DEF Tick, Older, Alone, Started, ErrorAt, OutcomeShown
  <2> QED BY <2>1, <2>2, <2>3, <2>4, <2>5, <2>6 DEF Own
<1>17. ASSUME UNCHANGED vars PROVE Own'
  <2>1. Alone'
    BY <1>17 DEF vars, Alone, Started
  <2>2. ErrorAt'
    BY <1>17 DEF vars, Alone, ErrorAt, Started
  <2>3. ConsoleBelow'
    BY <1>17 DEF vars, Alone, ConsoleBelow, OutputCaptured
  <2>4. StatusIsOwn'
    BY <1>17 DEF vars, Alone, Started, StatusIsOwn, ErrorAt
  <2>5. OutputCaptured'
    BY <1>17 DEF vars, Alone, Started, OutputCaptured, ConsoleBelow
  <2>6. OutcomeShown'
    BY <1>17 DEF vars, Alone, Started, ErrorAt, OutcomeShown
  <2> QED BY <2>1, <2>2, <2>3, <2>4, <2>5, <2>6 DEF Own
<1>18. ASSUME NEW i \in Install, StartFails(i) PROVE Own'
  <2>1. Alone'
    BY <1>18 DEF StartFails, Goto, Alone, Started
  <2>2. ErrorAt'
    BY <1>18 DEF StartFails, Goto, Alone, ErrorAt, Started
  <2>3. ConsoleBelow'
    BY <1>18 DEF StartFails, Goto, Alone, ConsoleBelow, OutputCaptured
  <2>4. StatusIsOwn'
    BY <1>18 DEF StartFails, Goto, Alone, Started, StatusIsOwn, ErrorAt
  <2>5. OutputCaptured'
    BY <1>18 DEF StartFails, Goto, Alone, Started, OutputCaptured, ConsoleBelow
  <2>6. OutcomeShown'
    BY <1>18 DEF StartFails, Goto, Alone, Started, ErrorAt, OutcomeShown
  <2> QED BY <2>1, <2>2, <2>3, <2>4, <2>5, <2>6 DEF Own
<1> QED
  BY <1>1, <1>2, <1>3, <1>4, <1>5, <1>6, <1>7, <1>8, <1>9, <1>10, <1>11, <1>12, <1>13, <1>14, <1>15, <1>16, <1>17, <1>18, Steps DEF AnyStep

-----------------------------------------------------------------------------
(* How old a remembered miss is.                                           *)

(* Initially no tool is on disk and nobody looks.                          *)
LEMMA MissesInit == Init => MissesAge
  BY DEF Init, MissesAge

(* Of two ages, time makes the smaller the smaller or both the bound.      *)
LEMMA OlderMonotone ==
  ASSUME NEW m \in Ages, NEW n \in Ages
  PROVE  /\ m <= n => Older(m) <= Older(n)
         /\ n > TTL => Older(n) > TTL
  BY ToolAssumption DEF Ages, Older

(* What only touches the status and the threads touches no age.            *)
LEMMA MissesFrame ==
  ASSUME MissesAge,
         UNCHANGED <<installed, cache, look, asked, elapsed, found, since>>
  PROVE  MissesAge'
  BY DEF MissesAge, Fresh

(* A tool that appears has been on disk for no time at all.                *)
LEMMA MissesAppear ==
  ASSUME MissesAge, CacheTypes, LookTypes, NEW t \in Tool,
         installed' \in {installed, installed \union {t}},
         UNCHANGED <<cache, look, asked, elapsed, found, since>>
  PROVE  MissesAge'
  BY ToolAssumption DEF MissesAge, CacheTypes, LookTypes, Ages, Fresh

(* A look that begins or ends makes no other one ready to store.           *)
LEMMA MissesLook ==
  ASSUME MissesAge, LookTypes, NEW p \in Seeker,
         look'[p] # "store",
         \A q \in Seeker \ {p} : /\ look'[q] = look[q] /\ asked'[q] = asked[q]
                                 /\ elapsed'[q] = elapsed[q] /\ found'[q] = found[q],
         UNCHANGED <<installed, cache, since>>
  PROVE  MissesAge'
  BY DEF MissesAge, Fresh

(* Misses are remembered with the age of the look that found them.         *)
LEMMA MissesStep == TypeOK /\ Started /\ MissesAge /\ [Next]_vars => MissesAge'
<1> SUFFICES ASSUME StatusTypes, ThreadTypes, CacheTypes, LookTypes,
                    Started, MissesAge, [Next]_vars
             PROVE  MissesAge'
  BY TypeParts
<1>1. ASSUME NEW t \in Tool, Accept(t) PROVE MissesAge'
  BY <1>1, MissesFrame DEF Accept, Reset
<1>2. ASSUME NEW t \in Tool, Appear(t) PROVE MissesAge'
  BY <1>2, MissesAppear DEF Appear
<1>3. ASSUME NEW p \in Seeker, NEW t \in Tool, Locate(p, t) PROVE MissesAge'
  BY <1>3, MissesLook DEF Locate, Return, LookTypes
<1>4. ASSUME NEW i \in Install, Check(i) PROVE MissesAge'
  <2>1. i \in Seeker /\ job[i] \in Tool
    BY <1>4 DEF Check, Started, ThreadTypes, StatusTypes, Seeker, Install
  <2> QED BY <1>3, <1>4, <2>1 DEF Check
<1>5. ASSUME NEW p \in Seeker, Resolve(p) PROVE MissesAge'
  BY <1>5 DEF Resolve, LookTypes, MissesAge, Fresh
<1>6. ASSUME NEW p \in Seeker, Store(p) PROVE MissesAge'
  <2>1. \A t \in installed : cache'[t] = IF t = asked[p] THEN Entry(p) ELSE cache[t]
    BY <1>6 DEF Store, CacheTypes, StatusTypes
  <2>2. \A t \in installed : ~cache'[t].found => since[t] <= cache'[t].age \/ cache'[t].age > TTL
    BY <1>6, <2>1, ToolAssumption DEF Store, Entry, MissesAge, Fresh, CacheTypes, Ages,
       StatusTypes
  <2> QED BY <1>6, <2>2, ToolAssumption DEF Store, Return, MissesAge, Fresh, LookTypes,
          CacheTypes, Ages, StatusTypes, Entry
<1>7. ASSUME NEW i \in Install, Checked(i) PROVE MissesAge'
  BY <1>7, MissesLook DEF Checked, LookTypes, Seeker
<1>8. ASSUME NEW i \in Install, Fetch(i) \/ FetchFails(i) PROVE MissesAge'
  <2>1. job[i] \in Tool
    BY <1>8 DEF Fetch, FetchFails, Started, ThreadTypes, StatusTypes, Install
  <2>2. installed' \in {installed, installed \union {job[i]}}
    BY <1>8 DEF Fetch, FetchFails
  <2> QED BY <1>8, <2>1, <2>2, MissesAppear DEF Fetch, FetchFails
<1>9. ASSUME NEW i \in Install,
             StartFails(i) \/ Begin(i) \/ Leave(i) \/ Record(i) \/ Release(i) \/ Flag(i)
      PROVE  MissesAge'
  BY <1>9, MissesFrame DEF StartFails, Begin, Leave, Record, Release, Flag
<1>10. ASSUME NEW i \in Install, ClearCache(i) PROVE MissesAge'
  BY <1>10, ToolAssumption DEF ClearCache, Nothing, MissesAge, Fresh, StatusTypes
<1>11. ASSUME Tick PROVE MissesAge'
  <2>1. \A t \in Tool \ installed : since'[t] = 0
    BY <1>11 DEF Tick, MissesAge
  <2>2. ASSUME NEW t \in installed, ~cache'[t].found, Fresh(t)'
        PROVE  since'[t] <= cache'[t].age
    <3>1. t \in Tool /\ since'[t] = Older(since[t])
      BY <1>11, <2>2 DEF Tick, StatusTypes
    <3>2. cache'[t].age = Older(cache[t].age) /\ cache'[t].found = cache[t].found
      BY <1>11, <3>1 DEF Tick, CacheTypes
    <3>3. since[t] \in Ages /\ cache[t].age \in Ages
      BY <3>1 DEF CacheTypes
    <3>4. cache[t].age <= TTL
      <4>1. Older(cache[t].age) <= TTL
        BY <2>2, <3>2 DEF Fresh
      <4>2. cache[t].age > TTL => Older(cache[t].age) > TTL
        BY <3>3, OlderMonotone
      <4> QED BY <3>3, <4>1, <4>2, ToolAssumption DEF Ages, Older
    <3>5. since[t] <= cache[t].age
      BY <2>2, <3>2, <3>4 DEF MissesAge, Fresh
    <3> QED BY <3>1, <3>2, <3>3, <3>5, OlderMonotone
  <2>3. ASSUME NEW p \in Seeker, look[p] = "store", ~found[p], asked[p] \in installed
        PROVE  since'[asked[p]] <= elapsed'[p]
    <3>1. /\ asked[p] \in Tool /\ since'[asked[p]] = Older(since[asked[p]])
          /\ elapsed'[p] = Older(elapsed[p])
      BY <1>11, <2>3 DEF Tick, StatusTypes
    <3> QED BY <2>3, <3>1, OlderMonotone DEF MissesAge, CacheTypes, LookTypes
  <2> QED BY <1>11, <2>1, <2>2, <2>3, ToolAssumption DEF Tick, MissesAge
<1>12. ASSUME UNCHANGED vars PROVE MissesAge'
  BY <1>12, MissesFrame DEF vars
<1> QED
  BY <1>1, <1>2, <1>3, <1>4, <1>5, <1>6, <1>7, <1>8, <1>9, <1>10, <1>11, <1>12, Steps
  DEF AnyStep, Seeker

-----------------------------------------------------------------------------
(* The theorems.                                                           *)

InstallInv == TypeOK /\ Started /\ Own /\ MissesAge

(* The invariant the others follow from: types, what an install that was   *)
(* not accepted has not done, what the one at work may touch, and the ages *)
(* of the misses.                                                          *)
THEOREM InstallInvariant == Spec => []InstallInv
<1>1. Init => InstallInv
  BY TypeInit, OwnInit, MissesInit DEF InstallInv
<1>2. InstallInv /\ [Next]_vars => InstallInv'
  <2>1. InstallInv /\ [Next]_vars => TypeOK' /\ Started' /\ Own' /\ MissesAge'
    BY TypeStep, StartedStep, OwnStep, MissesStep DEF InstallInv
  <2> QED BY <2>1 DEF InstallInv
<1> QED BY <1>1, <1>2, PTL DEF Spec

(* Every variable of the installer keeps to its domain.                    *)
THEOREM TypeCorrect == Spec => []TypeOK
<1>1. InstallInv => TypeOK
  BY DEF InstallInv
<1> QED BY <1>1, InstallInvariant, PTL

(* While an install is at work, _install_state is about it: its tool, its  *)
(* log, its error, and not finished unless an earlier thread's flag landed *)
(* after the endpoint's reset (main.py:371-372 against 382), the one race  *)
(* that the code leaves open.                                              *)
THEOREM StatusOwned == Spec => []StatusIsOwn
<1>1. InstallInv => StatusIsOwn
  BY DEF InstallInv, Own
<1> QED BY <1>1, InstallInvariant, PTL

(* sys.stdout, which the whole process shares, is the one install's that   *)
(* prints and the console's otherwise.                                     *)
THEOREM OutputIsCaptured == Spec => []OutputCaptured
<1>1. InstallInv => OutputCaptured
  BY DEF InstallInv, Own
<1> QED BY <1>1, InstallInvariant, PTL

(* A poll that sees the install stopped sees whether it raised.            *)
THEOREM OutcomeIsShown == Spec => []OutcomeShown
<1>1. InstallInv => OutcomeShown
  BY DEF InstallInv, Own
<1> QED BY <1>1, InstallInvariant, PTL

(* However lookups, stores and clear_cache interleave, the memo of         *)
(* locate.py denies a tool on disk for no longer than its lifetime.        *)
THEOREM MissesExpired == Spec => []MissesExpire
<1>1. InstallInv => MissesExpire
  <2> SUFFICES ASSUME InstallInv, NEW t \in installed, Fresh(t), ~cache[t].found
               PROVE  since[t] <= TTL
    BY DEF MissesExpire
  <2>1. t \in Tool /\ since[t] \in Ages /\ cache[t].age \in Ages
    BY DEF InstallInv, TypeOK
  <2>2. since[t] <= cache[t].age
    BY DEF InstallInv, MissesAge
  <2> QED BY <2>1, <2>2, ToolAssumption DEF Fresh, Ages
<1> QED BY <1>1, InstallInvariant, PTL
=============================================================================
