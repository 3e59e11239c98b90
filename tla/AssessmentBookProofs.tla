------------------------- MODULE AssessmentBookProofs -------------------------
(***************************************************************************)
(* The service implements AssessmentBook for as long as nobody is          *)
(* disturbed: no purge comes under a run or a report, and no file is       *)
(* removed that another assessment's report is in by then.                 *)
(*                                                                         *)
(* Beyond ServiceInv this needs that an assessment has one id and is never *)
(* met before it is made (OneId, Born), and that a run completes with its  *)
(* own assessment's report in place (CompletesShown).                      *)
(***************************************************************************)
EXTENDS AssessmentServiceProofs

OneId == \A i, j \in Id : row[i] # 0 /\ row[i] = row[j] => i = j

Born ==
  /\ \A i \in Id : row[i] \in 0..made
  /\ \A i \in Id : file[i] # NoReport => file[i].of \in 1..made
  /\ \A t \in Thread : pc[t] \in {"gather", "write"} => copy[t].of \in 1..made

Shown(i) == file[i] # NoReport /\ file[i].of = row[i]

CompletesShown ==
  Undisturbed =>
    /\ \A i \in Id : state[i] = "COMPLETED" => Shown(i)
    /\ \A t \in Thread : pc[t] = "complete" => Shown(on[t])

BookInv == ServiceInv /\ OneId /\ Born /\ CompletesShown

-----------------------------------------------------------------------------
(* An assessment has one id.                                               *)

(* A step makes one assessment under one id, or none; no other id gets     *)
(* one.                                                                    *)
LEMMA MadeStep ==
  ASSUME Basics, [Next]_vars
  PROVE  \/ \E c \in Client, i \in Id : Create(c, i)
         \/ made' = made /\ \A i \in Id : row'[i] \in {row[i], 0}
<1>1. ASSUME NEW t \in Thread, Purge(t)
      PROVE  made' = made /\ \A i \in Id : row'[i] \in {row[i], 0}
  BY <1>1 DEF Purge, PurgeRows
<1>2. ASSUME NEW t \in Thread, StepOf(t), ~Purge(t), ~\E i \in Id : Create(t, i) /\ t \in Client
      PROVE  made' = made /\ row' = row
  BY <1>2, Zenon
  DEF dbVars, StepOf, Submit, StartHere, StartReport, DeleteAssessment, DeleteTarget, Take, Claim,
      Finish, Load, Scan, Store, ScanFails, Save, Complete, ReadData, WriteReport, Unlink,
      GivesUp
<1>3. CASE Restart \/ UNCHANGED vars
  BY <1>3 DEF Restart, vars, dbVars
<1> QED BY <1>1, <1>2, <1>3, StepsOf

(* The id a new assessment gets had none.                                  *)
LEMMA CreateAt ==
  ASSUME Basics, NEW c, NEW i \in Id, Create(c, i)
  PROVE  /\ row[i] = 0 /\ made' = made + 1 /\ made \in Nat /\ made + 1 \in Made
         /\ row' = [row EXCEPT ![i] = made + 1] /\ found' = found /\ file' = file
         /\ state' = [state EXCEPT ![i] = "QUEUED"]
<1>1. row[i] = 0
  BY Numbers DEF Create, NewId, Existing
<1>2. made \in Nat /\ made + 1 \in Made
  BY ServiceBounds DEF Basics, OtherTypes, Create, Made
<1> QED BY <1>1, <1>2 DEF Create

(* A new assessment is no id's already.                                    *)
LEMMA OneIdStep ==
  ASSUME Basics, OneId, Born, [Next]_vars
  PROVE  OneId'
<1>1. ASSUME NEW c \in Client, NEW i \in Id, Create(c, i) PROVE OneId'
  <2>1. \A j \in Id : row[j] # made + 1
    BY <1>1, CreateAt DEF Born
  <2> QED BY <1>1, <2>1, CreateAt DEF OneId, Basics, RowTypes
<1>2. CASE \A i \in Id : row'[i] \in {row[i], 0}
  BY <1>2 DEF OneId
<1> QED BY <1>1, <1>2, MadeStep

(* And no report or copy is of one still to be made.                       *)
LEMMA BornStep ==
  ASSUME Basics, Born, [Next]_vars
  PROVE  Born'
<1>1. made \in Nat /\ made' \in Nat /\ made <= made' /\ 1..made \subseteq 1..made'
  BY MadeStep, CreateAt DEF Basics, OtherTypes
<1>2. \A i \in Id : row'[i] \in 0..made'
  <2>1. ASSUME NEW c \in Client, NEW i \in Id, Create(c, i), NEW j \in Id
        PROVE  row'[j] \in 0..made'
    BY <1>1, <2>1, CreateAt DEF Born, Basics, RowTypes
  <2>2. ASSUME NEW j \in Id, row'[j] \in {row[j], 0} PROVE row'[j] \in 0..made'
    BY <1>1, <2>2 DEF Born
  <2> QED BY <2>1, <2>2, MadeStep
<1>3. ASSUME NEW i \in Id, file'[i] # NoReport PROVE file'[i].of \in 1..made'
  <2>1. CASE file'[i] = file[i]
    BY <1>1, <1>3, <2>1 DEF Born
  <2>2. CASE Written(i)
    BY <1>1, <2>2 DEF Born, Written
  <2>3. CASE Removed(i)
    BY <1>3, <2>3 DEF Removed
  <2> QED BY <2>1, <2>2, <2>3, FileStep
<1>4. ASSUME NEW t \in Thread, pc'[t] \in {"gather", "write"}
      PROVE  copy'[t].of \in 1..made'
  <2>1. CASE Still(t)
    BY <1>1, <1>4, <2>1 DEF Born, Still
  <2>2. CASE Rests(t) \/ Loads(t)
    BY <1>4, <2>2 DEF Rests, Loads, Outcome
  <2>3. CASE Advances(t) /\ pc[t] = "gather"
    BY <1>1, <2>3 DEF Advances, Goes, Born
  <2>4. CASE Advances(t) /\ pc[t] = "read"
    <3>1. copy'[t].of = row[on[t]] /\ pc'[t] = "gather" /\ row' = row /\ on[t] \in Id
      BY <2>4, PlacedRuns DEF Advances, Goes, Basics
    <3>2. copy'[t] \in Report
      BY <3>1, BasicsStep DEF Basics, Placed, PlacedAt
    <3>3. row[on[t]] \in 1..made
      <4>1. row[on[t]] # 0
        BY <3>1, <3>2, Numbers DEF Report
      <4>2. row[on[t]] \in 0..made
        BY <3>1 DEF Born
      <4> QED BY <1>1, <4>1, <4>2
    <3> QED BY <1>1, <3>1, <3>3
  <2>5. CASE Advances(t) /\ pc[t] \notin {"read", "gather"}
    BY <1>4, <2>5 DEF Advances, Goes
  <2> QED BY <2>1, <2>2, <2>3, <2>4, <2>5, MovesStep DEF Moves
<1> QED BY <1>2, <1>3, <1>4 DEF Born

-----------------------------------------------------------------------------
(* A run completes with its report in place.                               *)

(* Who is undisturbed was so before.                                       *)
LEMMA StillUndisturbed ==
  ASSUME [Next]_vars, Undisturbed'
  PROVE  /\ Undisturbed /\ ~AnyHarm' /\ ~AnyYank
         /\ \A n \in Made : /\ <<"yank", n>> \notin harm' /\ <<"leak", n>> \notin harm'
                            /\ <<"clobber", n>> \notin harm'
  BY HarmGrows DEF Undisturbed, AnyHarm, AnyYank, Yanked

(* A report written is then the one of the id's assessment.                *)
LEMMA WrittenShown ==
  ASSUME Basics, CopiesOwn, [Next]_vars, Undisturbed', NEW t \in Thread, pc[t] = "write"
  PROVE  /\ on[t] \in Id /\ copy[t] # NoReport /\ copy[t].of \in Made
         /\ copy[t].of = row[on[t]]
  BY CopyStays, StillUndisturbed, ServiceBounds

(* A report in place stays.                                                *)
LEMMA ShownStays ==
  ASSUME Basics, CopiesOwn, [Next]_vars, Undisturbed', NEW i \in Id, Shown(i), Kept(i)
  PROVE  file'[i] # NoReport /\ file'[i].of = row'[i]
<1>1. CASE file'[i] = file[i]
  BY <1>1 DEF Shown, Kept
<1>2. CASE Written(i)
  BY <1>2, WrittenShown DEF Written
<1>3. CASE Removed(i)
  <2>1. row[i] \in Made
    BY Numbers DEF Shown, Basics, RowTypes, Report
  <2> QED BY <1>3, <2>1, Numbers, StillUndisturbed DEF Removed
<1> QED BY <1>1, <1>2, <1>3, FileStep

(* So COMPLETED assessments, and runs about to complete, have their report *)
(* in place.                                                               *)
LEMMA CompletesShownStep ==
  ASSUME ServiceInv, CompletesShown, [Next]_vars
  PROVE  CompletesShown'
<1> USE DEF ServiceInv
<1>1. ASSUME Undisturbed', NEW t \in Thread, pc[t] = "complete"
      PROVE  on[t] \in Id /\ Kept(on[t]) /\ Shown(on[t])
  <2>1. op[t] = "run" /\ Shown(on[t])
    BY <1>1, PlacedRuns, StillUndisturbed DEF Basics, CompletesShown
  <2> QED BY <1>1, <2>1, RunUnharmed, StillUndisturbed DEF Scanned
<1>2. ASSUME Undisturbed', NEW i \in Id, state'[i] = "COMPLETED"
      PROVE  file'[i] # NoReport /\ file'[i].of = row'[i]
  <2>1. Kept(i)
    BY <1>2, IdStep DEF Given, Purged, Bare
  <2>2. Shown(i)
    BY <1>1, <1>2, <2>1, StillUndisturbed DEF CompletesShown, Kept
  <2> QED BY <1>2, <2>1, <2>2, ShownStays
<1>3. ASSUME Undisturbed', NEW t \in Thread, pc'[t] = "complete"
      PROVE  file'[on'[t]] # NoReport /\ file'[on'[t]].of = row'[on'[t]]
  <2>1. CASE Still(t)
    BY <1>1, <1>3, <2>1, ShownStays DEF Still
  <2>2. CASE Rests(t) \/ Loads(t)
    BY <1>3, <2>2 DEF Rests, Loads, Outcome
  <2>3. CASE Advances(t)
    BY <1>3, <2>3, WrittenShown DEF Advances, Goes
  <2> QED BY <2>1, <2>2, <2>3, MovesStep DEF Moves
<1> QED BY <1>2, <1>3 DEF CompletesShown, Shown

(* BookInv is inductive.                                                   *)
LEMMA BookInvariant == Spec => []BookInv
<1>1. Init => OneId /\ Born /\ CompletesShown
  <2> SUFFICES ASSUME Init PROVE OneId /\ Born /\ CompletesShown
    OBVIOUS
  <2>1. OneId /\ CompletesShown
    BY DEF Init, OneId, CompletesShown
  <2>2. Born
    BY DEF Init, Born
  <2> QED BY <2>1, <2>2
<1>2. ServiceInv /\ OneId /\ Born /\ CompletesShown /\ [Next]_vars
        => OneId' /\ Born' /\ CompletesShown'
  BY OneIdStep, BornStep, CompletesShownStep DEF ServiceInv
<1> QED BY <1>1, <1>2, ServiceInvariant, PTL DEF Spec, BookInv


-----------------------------------------------------------------------------
(* Every step is a step of the book.                                       *)

BookStep == [Book!BookNext]_(Book!bookVars)

(* Sets of ids and the assessments they stand for.                         *)
LEMMA RowsOf ==
  ASSUME OneId, NEW S \in SUBSET Existing, NEW D \in SUBSET Existing
  PROVE  /\ Rows(S \union D) = Rows(S) \union Rows(D)
         /\ Rows(S \ D) = Rows(S) \ Rows(D)
         /\ \A i \in Existing : Rows({i}) = {row[i]}
<1>1. \A i, j \in Existing : row[i] = row[j] => i = j
  BY DEF OneId, Existing
<1>2. Rows(S \ D) = Rows(S) \ Rows(D)
  BY <1>1 DEF Rows
<1> QED BY <1>2 DEF Rows

(* An assessment that has a row is one.                                    *)
LEMMA RowMade == ASSUME Basics, NEW i \in Existing PROVE row[i] \in Made
  BY Numbers DEF Existing, Basics, RowTypes

(* A new assessment is opened.                                             *)
LEMMA OpenStep ==
  ASSUME BookInv, NEW c \in Client, NEW i \in Id, Create(c, i)
  PROVE  Book!Open(made + 1)
<1> USE DEF BookInv, ServiceInv
<1>1. /\ row[i] = 0 /\ made' = made + 1 /\ made \in Nat
      /\ row' = [row EXCEPT ![i] = made + 1] /\ found' = found /\ file' = file
      /\ state' = [state EXCEPT ![i] = "QUEUED"]
  BY CreateAt
<1>2. /\ \A j \in Id : j # i => row'[j] = row[j] /\ state'[j] = state[j]
      /\ row'[i] = made + 1 /\ state'[i] = "QUEUED"
  BY <1>1 DEF Basics, RowTypes
<1>3. 1..made' = 1..made \union {made + 1} /\ made + 1 \notin 1..made
  BY <1>1
<1>4. Existing' = Existing \union {i} /\ i \notin Existing
  BY <1>1, <1>2 DEF Existing
<1>5. ScannedIds' = ScannedIds
  <2>1. found[i] = {}
    BY <1>1 DEF Basics, Childless, Bare
  <2> QED BY <1>1, <1>2, <1>4, <2>1 DEF ScannedIds, Existing
<1>6. ReportedIds' = ReportedIds
  <2>1. file[i] # NoReport => file[i].of # made + 1
    BY <1>1 DEF Born
  <2> QED BY <1>1, <1>2, <1>4, <2>1 DEF ReportedIds, Existing
<1>7. CompletedIds' = CompletedIds
  BY <1>2, <1>4 DEF CompletedIds, Existing
<1>8. Rows(Existing)' = Rows(Existing) \union {made + 1}
  BY <1>2, <1>4 DEF Rows, Existing
<1>9. /\ Rows(ScannedIds)' = Rows(ScannedIds) /\ Rows(ReportedIds)' = Rows(ReportedIds)
      /\ Rows(CompletedIds)' = Rows(CompletedIds)
  BY <1>2, <1>4, <1>5, <1>6, <1>7 DEF Rows, ScannedIds, ReportedIds, CompletedIds, Existing
<1> QED BY <1>3, <1>8, <1>9 DEF Book!Open

(* A purge drops the assessments it lists.                                 *)
LEMMA DropStep ==
  ASSUME BookInv, NEW t \in Thread, Purge(t)
  PROVE  Book!Drop(Rows(Listed(t) \intersect Existing))
<1> USE DEF BookInv, ServiceInv
<1> DEFINE D == Listed(t) \intersect Existing
<1>1. /\ \A i \in Id : /\ i \in Listed(t) => row'[i] = 0
                       /\ i \notin Listed(t) => /\ row'[i] = row[i] /\ found'[i] = found[i]
                                                /\ state'[i] = state[i]
      /\ file' = file /\ made' = made
  BY DEF Purge, PurgeRows
<1>2. Existing' = Existing \ D
  BY <1>1 DEF Existing
<1>3. /\ ScannedIds' = ScannedIds \ D /\ ReportedIds' = ReportedIds \ D
      /\ CompletedIds' = CompletedIds \ D
  BY <1>1, <1>2 DEF ScannedIds, ReportedIds, CompletedIds, Existing
<1>4. \A S \in SUBSET Existing : {row'[i] : i \in S \ D} = Rows(S) \ Rows(D)
  <2>1. TAKE S \in SUBSET Existing
  <2>2. \A i \in S \ D : row'[i] = row[i]
    BY <1>1 DEF Existing
  <2>3. Rows(S \ D) = Rows(S) \ Rows(D)
    BY RowsOf
  <2> QED BY <2>2, <2>3 DEF Rows
<1>5. /\ Existing \subseteq Existing /\ ScannedIds \subseteq Existing
      /\ ReportedIds \subseteq Existing /\ CompletedIds \subseteq Existing
  BY DEF ScannedIds, ReportedIds, CompletedIds
<1>6. /\ Rows(Existing)' = Rows(Existing) \ Rows(D)
      /\ Rows(ScannedIds)' = Rows(ScannedIds) \ Rows(D)
      /\ Rows(ReportedIds)' = Rows(ReportedIds) \ Rows(D)
      /\ Rows(CompletedIds)' = Rows(CompletedIds) \ Rows(D)
  BY <1>2, <1>3, <1>4, <1>5 DEF Rows
<1> QED BY <1>1, <1>6 DEF Book!Drop

(* While rows stay, what happens to the ids is the book's next entry.      *)
LEMMA EntryStep ==
  ASSUME Basics, OneId, row' = row, made' = made
  PROVE  /\ ScannedIds' = ScannedIds /\ ReportedIds' = ReportedIds
              /\ CompletedIds' = CompletedIds => BookStep
         /\ \A i \in Existing :
              /\ ScannedIds' = ScannedIds \union {i} /\ ReportedIds' = ReportedIds
                   /\ CompletedIds' = CompletedIds => BookStep
              /\ ScannedIds' = ScannedIds /\ ReportedIds' = ReportedIds \union {i}
                   /\ CompletedIds' = CompletedIds => BookStep
              /\ ScannedIds' = ScannedIds /\ ReportedIds' = ReportedIds
                   /\ CompletedIds' = CompletedIds \ {i} => BookStep
              /\ ScannedIds' = ScannedIds /\ ReportedIds' = ReportedIds
                   /\ i \in ScannedIds \intersect ReportedIds
                   /\ CompletedIds' = CompletedIds \union {i} => BookStep
<1>1. /\ Rows(Existing)' = Rows(Existing)
      /\ Rows(ScannedIds)' = Rows(ScannedIds') /\ Rows(ReportedIds)' = Rows(ReportedIds')
      /\ Rows(CompletedIds)' = Rows(CompletedIds')
  BY DEF Rows, Existing
<1>2. 1..made' = 1..made
  OBVIOUS
<1>3. /\ ScannedIds \in SUBSET Existing /\ ReportedIds \in SUBSET Existing
      /\ CompletedIds \in SUBSET Existing
  BY DEF ScannedIds, ReportedIds, CompletedIds
<1>4. CASE /\ ScannedIds' = ScannedIds /\ ReportedIds' = ReportedIds
           /\ CompletedIds' = CompletedIds
  BY <1>1, <1>2, <1>4 DEF BookStep, Book!bookVars
<1>5. ASSUME NEW i \in Existing
      PROVE  /\ row[i] \in Made /\ row[i] \in Rows(Existing)
             /\ Rows(ScannedIds \union {i}) = Rows(ScannedIds) \union {row[i]}
             /\ Rows(ReportedIds \union {i}) = Rows(ReportedIds) \union {row[i]}
             /\ Rows(CompletedIds \union {i}) = Rows(CompletedIds) \union {row[i]}
             /\ Rows(CompletedIds \ {i}) = Rows(CompletedIds) \ {row[i]}
  <2>1. {i} \in SUBSET Existing /\ Rows({i}) = {row[i]}
    BY DEF Rows
  <2>2. \A S \in SUBSET Existing : /\ Rows(S \union {i}) = Rows(S) \union {row[i]}
                                   /\ Rows(S \ {i}) = Rows(S) \ {row[i]}
    <3>1. ASSUME NEW S \in SUBSET Existing, NEW D \in SUBSET Existing, D = {i}
          PROVE  /\ Rows(S \union D) = Rows(S) \union {row[i]}
                 /\ Rows(S \ D) = Rows(S) \ {row[i]}
      BY <2>1, <3>1, RowsOf
    <3> QED BY <2>1, <3>1
  <2>3. row[i] \in Made /\ row[i] \in Rows(Existing)
    BY RowMade DEF Rows
  <2> QED BY <1>3, <2>2, <2>3
<1>6. ASSUME NEW i \in Existing, ScannedIds' = ScannedIds \union {i},
             ReportedIds' = ReportedIds, CompletedIds' = CompletedIds
      PROVE  BookStep
  <2>1. Book!Keep(row[i])
    BY <1>1, <1>2, <1>5, <1>6 DEF Book!Keep
  <2> QED BY <1>5, <2>1 DEF BookStep, Book!BookNext
<1>7. ASSUME NEW i \in Existing, ScannedIds' = ScannedIds,
             ReportedIds' = ReportedIds \union {i}, CompletedIds' = CompletedIds
      PROVE  BookStep
  <2>1. Book!Present(row[i])
    BY <1>1, <1>2, <1>5, <1>7 DEF Book!Present
  <2> QED BY <1>5, <2>1 DEF BookStep, Book!BookNext
<1>8. ASSUME NEW i \in Existing, ScannedIds' = ScannedIds, ReportedIds' = ReportedIds,
             CompletedIds' = CompletedIds \ {i}
      PROVE  BookStep
  <2>1. Book!Reopen(row[i])
    BY <1>1, <1>2, <1>5, <1>8 DEF Book!Reopen
  <2> QED BY <1>5, <2>1 DEF BookStep, Book!BookNext
<1>9. ASSUME NEW i \in Existing, ScannedIds' = ScannedIds, ReportedIds' = ReportedIds,
             i \in ScannedIds \intersect ReportedIds, CompletedIds' = CompletedIds \union {i}
      PROVE  BookStep
  <2>1. row[i] \in Rows(ScannedIds) \intersect Rows(ReportedIds)
    BY <1>9 DEF Rows
  <2>2. Book!Close(row[i])
    BY <1>1, <1>2, <1>5, <1>9, <2>1 DEF Book!Close
  <2> QED BY <1>5, <2>2 DEF BookStep, Book!BookNext
<1> QED BY <1>4, <1>6, <1>7, <1>8, <1>9

(* A run stores its own scan, and a failing one may have flushed it.       *)
LEMMA KeepStep ==
  ASSUME BookInv, [Next]_vars, Undisturbed', NEW t \in Thread, Store(t) \/ ScanFails(t)
  PROVE  BookStep
<1> USE DEF BookInv, ServiceInv
<1> DEFINE i == on[t]
<1>1. i \in Id /\ mine[t] = row[i]
  <2>1. pc[t] = "store"
    BY DEF Store, ScanFails
  <2>2. i \in Id /\ mine[t] \in Made /\ mine[t] # 0
    BY <2>1, PlacedRuns, Numbers DEF Basics
  <2> QED BY <2>2, StillUndisturbed DEF RunsOwn, AnyYank
<1>2. row' = row /\ file' = file /\ made' = made
  BY DEF Store, ScanFails
<1>3. ReportedIds' = ReportedIds
  BY <1>2 DEF ReportedIds, Existing
<1>4. CASE Gone(t)
  <2>1. found' = found
    <3>1. lock # t
      BY <1>4, ThreadAssumption DEF Basics, LockHeld, Gone
    <3> QED BY <1>4, <3>1 DEF Store, ScanFails
  <2>2. state' = state
    BY <1>4 DEF Store, ScanFails
  <2> QED BY <1>2, <1>3, <2>1, <2>2, EntryStep DEF ScannedIds, CompletedIds, Existing
<1>5. CASE ~Gone(t)
  <2>1. i \in Existing
    BY <1>1, <1>5 DEF Gone, Existing
  <2>2. \/ found' = found
        \/ found' = [found EXCEPT ![i] = @ \union {row[i]}]
    BY <1>1 DEF Store, ScanFails
  <2>3. ScannedIds' \in {ScannedIds, ScannedIds \union {i}}
    <3>1. CASE found' = found
      BY <1>2, <3>1 DEF ScannedIds, Existing
    <3>2. CASE found' = [found EXCEPT ![i] = @ \union {row[i]}]
      <4>1. \A j \in Id : found'[j] = IF j = i THEN found[i] \union {row[i]} ELSE found[j]
        BY <1>1, <3>2 DEF Basics, RowTypes
      <4> QED BY <1>2, <2>1, <4>1 DEF ScannedIds, Existing
    <3> QED BY <2>2, <3>1, <3>2
  <2>4. CompletedIds \subseteq ScannedIds
    BY StillUndisturbed DEF CompletedIds, ScannedIds, CompletedWasScanned, AnyYank, Existing
  <2>5. CompletedIds' \in {CompletedIds, CompletedIds \ {i}}
    <3>1. \A j \in Id : state'[j] = state[j] \/ (j = i /\ state'[j] # "COMPLETED")
      BY DEF Store, ScanFails, Basics, RowTypes
    <3> QED BY <1>2, <3>1 DEF CompletedIds, Existing
  <2>6. CompletedIds' = CompletedIds \/ ScannedIds' = ScannedIds
    <3>1. CASE i \in CompletedIds
      BY <2>3, <2>4, <3>1
    <3>2. CASE i \notin CompletedIds
      BY <2>5, <3>2
    <3> QED BY <3>1, <3>2
  <2> HIDE DEF i
  <2> QED BY <1>2, <1>3, <2>1, <2>3, <2>5, <2>6, EntryStep
<1> QED BY <1>4, <1>5

(* A run closes on its own scan and report.                                *)
LEMMA CloseStep ==
  ASSUME BookInv, [Next]_vars, Undisturbed', NEW t \in Thread, Complete(t)
  PROVE  BookStep
<1> USE DEF BookInv, ServiceInv
<1> DEFINE i == on[t]
<1>1. pc[t] = "complete" /\ row' = row /\ found' = found /\ file' = file /\ made' = made
  BY DEF Complete
<1>2. op[t] = "run" /\ i \in Id
  BY <1>1, PlacedRuns DEF Basics
<1>3. i \in ScannedIds \intersect ReportedIds
  <2>1. row[i] \in found[i] /\ row[i] # 0
    BY <1>1, <1>2, RunUnharmed, StillUndisturbed DEF Scanned
  <2>2. Shown(i)
    BY <1>1, StillUndisturbed DEF CompletesShown
  <2> QED BY <1>2, <2>1, <2>2 DEF ScannedIds, ReportedIds, Shown, Existing
<1>4. ScannedIds' = ScannedIds /\ ReportedIds' = ReportedIds
  BY <1>1 DEF ScannedIds, ReportedIds, Existing
<1>5. CompletedIds' = CompletedIds \union {i}
  <2>1. i \in Existing
    BY <1>3 DEF ScannedIds
  <2>2. \A j \in Id : state'[j] = IF j = i THEN "COMPLETED" ELSE state[j]
    BY <1>2, <2>1 DEF Complete, Gone, Existing, Basics, RowTypes
  <2> QED BY <1>1, <2>1, <2>2 DEF CompletedIds, Existing
<1>6. i \in Existing
  BY <1>3 DEF ScannedIds
<1> HIDE DEF i
<1> QED BY <1>1, <1>3, <1>4, <1>5, <1>6, EntryStep

(* A report is presented for the assessment it was read of.                *)
LEMMA PresentStep ==
  ASSUME BookInv, [Next]_vars, Undisturbed', NEW t \in Thread, WriteReport(t)
  PROVE  BookStep
<1> USE DEF BookInv, ServiceInv
<1> DEFINE i == on[t]
<1>1. /\ pc[t] = "write" /\ row' = row /\ found' = found /\ state' = state /\ made' = made
      /\ file' = [file EXCEPT ![i] = copy[t]]
  BY DEF WriteReport, dbVars
<1>2. i \in Id /\ copy[t] # NoReport /\ copy[t].of = row[i] /\ row[i] # 0
  BY <1>1, WrittenShown, Numbers
<1>3. ScannedIds' = ScannedIds /\ CompletedIds' = CompletedIds
  BY <1>1 DEF ScannedIds, CompletedIds, Existing
<1>4. i \in Existing
  BY <1>2 DEF Existing
<1>5. ReportedIds' = ReportedIds \union {i}
  <2>1. \A j \in Id : file'[j] = IF j = i THEN copy[t] ELSE file[j]
    BY <1>1, <1>2 DEF Basics, RowTypes
  <2> QED BY <1>1, <1>2, <1>4, <2>1 DEF ReportedIds, Existing
<1> HIDE DEF i
<1> QED BY <1>1, <1>3, <1>4, <1>5, EntryStep

(* A deletion removes no report that is shown.                             *)
LEMMA UnlinkStep ==
  ASSUME BookInv, [Next]_vars, Undisturbed', NEW t \in Thread, Unlink(t)
  PROVE  BookStep
<1> USE DEF BookInv, ServiceInv
<1>1. row' = row /\ found' = found /\ state' = state /\ made' = made
  BY DEF Unlink, dbVars
<1>2. ASSUME NEW i \in Existing
      PROVE  file'[i] = file[i] \/ (pc[t] = "unlink" /\ file[i] = NoReport /\ file'[i] = NoReport)
  <2>1. row[i] \in Made /\ i \in Id
    BY RowMade DEF Existing
  <2>2. PICK kept \in SUBSET Reports(doomed[t]) :
          /\ RemoveReports(t, kept)
          /\ harm' = harm \union LeakOf(kept) \union ClobberOf(Reports(doomed[t]) \ kept)
    BY DEF Unlink
  <2>3. i \notin Reports(doomed[t]) \ kept
    BY <2>1, <2>2, StillUndisturbed DEF ClobberOf
  <2> QED BY <2>1, <2>2, <2>3 DEF RemoveReports, Reports, Unlink
<1>3. ReportedIds' = ReportedIds
  BY <1>1, <1>2 DEF ReportedIds, Existing
<1>4. ScannedIds' = ScannedIds /\ CompletedIds' = CompletedIds
  BY <1>1 DEF ScannedIds, CompletedIds, Existing
<1> QED BY <1>1, <1>3, <1>4, EntryStep

(* A run that loads an assessment finds it open.                           *)
LEMMA LoadStep ==
  ASSUME BookInv, NEW t \in Thread, Load(t)
  PROVE  BookStep
<1> USE DEF BookInv, ServiceInv
<1>1. row' = row /\ found' = found /\ file' = file /\ made' = made
  BY DEF Load
<1>2. \A j \in Id : state'[j] = "COMPLETED" <=> state[j] = "COMPLETED"
  BY PlacedRuns DEF Load, Basics, RowTypes
<1>3. ScannedIds' = ScannedIds /\ ReportedIds' = ReportedIds /\ CompletedIds' = CompletedIds
  BY <1>1, <1>2 DEF ScannedIds, ReportedIds, CompletedIds, Existing
<1> QED BY <1>1, <1>3, EntryStep

(* Everything else leaves the book as it is.                               *)
LEMMA QuietStep ==
  ASSUME Basics, OneId, row' = row, found' = found, file' = file, state' = state, made' = made
  PROVE  BookStep
<1>1. ScannedIds' = ScannedIds /\ ReportedIds' = ReportedIds /\ CompletedIds' = CompletedIds
  BY DEF ScannedIds, ReportedIds, CompletedIds, Existing
<1> QED BY <1>1, EntryStep

(* Whatever the step.                                                      *)
LEMMA BookSteps ==
  ASSUME BookInv, [Next]_vars, Undisturbed'
  PROVE  BookStep
<1>1. ASSUME NEW c \in Client, NEW i \in Id, Create(c, i) PROVE BookStep
  <2>1. made + 1 \in Made
    BY <1>1, CreateAt DEF BookInv, ServiceInv
  <2> QED BY <1>1, <2>1, OpenStep DEF BookStep, Book!BookNext
<1>2. ASSUME NEW t \in Thread, Purge(t) PROVE BookStep
  <2>1. Rows(Listed(t) \intersect Existing) \subseteq Rows(Existing)
    BY DEF Rows
  <2> QED BY <1>2, <2>1, DropStep DEF BookStep, Book!BookNext
<1>3. ASSUME NEW t \in Thread,
             \/ Store(t) \/ ScanFails(t) \/ Complete(t) \/ WriteReport(t) \/ Unlink(t)
             \/ Load(t)
      PROVE  BookStep
  BY <1>3, KeepStep, CloseStep, PresentStep, UnlinkStep, LoadStep
<1>4. ASSUME NEW t \in Thread, StepOf(t), ~Purge(t), ~Store(t), ~ScanFails(t), ~Complete(t),
             ~WriteReport(t), ~Unlink(t), ~Load(t), ~\E i \in Id : Create(t, i) /\ t \in Client
      PROVE  row' = row /\ found' = found /\ file' = file /\ state' = state /\ made' = made
  BY <1>4, Zenon
  DEF dbVars, StepOf, Submit, StartHere, StartReport, DeleteAssessment, DeleteTarget, Take,
      Claim, Finish, Scan, Save, ReadData, GivesUp
<1>5. CASE Restart \/ UNCHANGED vars
  <2>1. row' = row /\ found' = found /\ file' = file /\ state' = state /\ made' = made
    BY <1>5 DEF Restart, vars, dbVars
  <2> QED BY <2>1, QuietStep DEF BookInv, ServiceInv
<1>6. ASSUME NEW t \in Thread, StepOf(t) PROVE BookStep
  BY <1>1, <1>2, <1>3, <1>4, <1>6, QuietStep DEF BookInv, ServiceInv
<1> QED BY <1>5, <1>6, StepsOf

(* While nobody is disturbed, what the service does under its ids is what  *)
(* AssessmentBook says of assessments: none is completed by another one's  *)
(* checkpoint, scan or report, and a deleted one never comes back          *)
(* (main.py:265-298, orchestrator.py:404).                                 *)
THEOREM ImplementsBook == Spec => BookKept
<1>1. Init => Book!BookInit
  <2> SUFFICES ASSUME Init PROVE Book!BookInit
    OBVIOUS
  <2>1. Existing = {} /\ 1..made = {}
    BY DEF Init, Existing
  <2>2. ScannedIds = {} /\ ReportedIds = {} /\ CompletedIds = {}
    BY <2>1 DEF ScannedIds, ReportedIds, CompletedIds
  <2> QED BY <2>1, <2>2 DEF Book!BookInit, Rows
<1>2. BookInv /\ [Next]_vars => [Undisturbed' => Book!BookNext]_(Book!bookVars)
  BY BookSteps DEF BookStep
<1> QED BY <1>1, <1>2, BookInvariant, PTL DEF Spec, BookKept

(* Meanwhile the book is consistent: COMPLETED means that the assessment's *)
(* own scan is stored and its own report is what is served.                *)
THEOREM BookConsistent == Spec => [](Undisturbed => Book!Consistent)
<1>1. BookInv => (Undisturbed => Book!Consistent)
  <2> SUFFICES ASSUME BookInv, Undisturbed PROVE Book!Consistent
    OBVIOUS
  <2>1. CompletedIds \subseteq ScannedIds \intersect ReportedIds
    BY DEF BookInv, ServiceInv, CompletedIds, ScannedIds, ReportedIds, Existing, Undisturbed,
       CompletedWasScanned, CompletesShown, Shown
  <2>2. ScannedIds \union ReportedIds \subseteq Existing
    BY DEF ScannedIds, ReportedIds
  <2>3. Rows(Existing) \subseteq 1..made
    BY DEF Rows, Existing, BookInv, ServiceInv, Basics, OtherTypes, Born
  <2> QED BY <2>1, <2>2, <2>3 DEF Rows, Book!Consistent
<1> QED BY <1>1, BookInvariant, PTL
==============================================================================
