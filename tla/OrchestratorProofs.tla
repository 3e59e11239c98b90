-------------------------- MODULE OrchestratorProofs --------------------------
(* Safety of run_assessment for every target, scope, set of items and      *)
(* number of report formats.                                               *)
EXTENDS Orchestrator, TLAPS

USE DEF ScopeType, Place

LEMMA Modules ==
  /\ Module = {"scope_validation", "web_security", "tls_security", "nmap_discovery",
               "extended_web", "risk_and_checkpoint", "report_generation"}
  /\ \A s \in Module : Progress[s] \in 0..100
  /\ \A s \in Module : s # "scope_validation" => Order["scope_validation"] < Order[s]
  /\ Planned \subseteq Module
  /\ Module \ Planned = {"web_security"} \ Planned
  BY DEF Module, Order, Progress, Planned

LEMMA TypeInit == Init => TypeOK
<1> SUFFICES ASSUME Init PROVE TypeOK
  OBVIOUS
<1>1. RowTypes
  <2>1. reports \in [1..LastFormat -> (SUBSET Item) \union {NoReport}]
    BY DEF Init
  <2>2. /\ target \in Targets /\ scope \in ScopeType
        /\ status = "QUEUED" /\ stage = "none" /\ progress = 0
        /\ saved = {} /\ worked = {}
    BY Zenon DEF Init
  <2>3. count \in [Item -> 0..2] /\ evidence \in 0..2 /\ audits \in 0..2
    BY DEF Init
  <2> QED BY <2>1, <2>2, <2>3 DEF RowTypes
<1>2. RunTypes
  BY BoundsAssumption DEF Init, RunTypes
<1>3. LockHeld
  BY DEF Init, LockHeld
<1> QED BY <1>1, <1>2, <1>3 DEF TypeOK

(* TypeOK is inductive: one step per action, rows before runs.             *)
LEMMA TypeStep == TypeOK /\ [Next]_vars => TypeOK'
<1> SUFFICES ASSUME TypeOK, [Next]_vars PROVE TypeOK'
  OBVIOUS
<1> USE Modules, BoundsAssumption
<1> USE DEF rowVars, dataVars, localVars, envVars
<1>1. ASSUME NEW r \in Run, Load(r) PROVE TypeOK'
  <2>1. RowTypes'
    BY <1>1 DEF Load, Goto, TypeOK, RowTypes, RunTypes
  <2>2. RunTypes'
    BY <1>1 DEF Load, Goto, TypeOK, RowTypes, RunTypes
  <2>3. LockHeld'
    BY <1>1 DEF Load, Goto, TypeOK, RunTypes, LockHeld
  <2> QED BY <2>1, <2>2, <2>3 DEF TypeOK
<1>2. ASSUME NEW r \in Run, MarkRunning(r) PROVE TypeOK'
  <2>1. RowTypes'
    BY <1>2 DEF MarkRunning, Goto, TypeOK, RowTypes, RunTypes
  <2>2. RunTypes'
    BY <1>2 DEF MarkRunning, Goto, TypeOK, RowTypes, RunTypes
  <2>3. LockHeld'
    BY <1>2 DEF MarkRunning, Goto, TypeOK, RunTypes, LockHeld
  <2> QED BY <2>1, <2>2, <2>3 DEF TypeOK
<1>3. ASSUME NEW r \in Run, Gate(r) PROVE TypeOK'
  <2>1. RowTypes'
    BY <1>3 DEF Gate, Goto, Allows, TypeOK, RowTypes, RunTypes
  <2>2. RunTypes'
    BY <1>3 DEF Gate, Goto, Allows, TypeOK, RowTypes, RunTypes
  <2>3. LockHeld'
    BY <1>3 DEF Gate, Goto, Allows, TypeOK, RunTypes, LockHeld
  <2> QED BY <2>1, <2>2, <2>3 DEF TypeOK
<1>4. ASSUME NEW r \in Run, Validate(r) PROVE TypeOK'
  <2>1. RowTypes'
    BY <1>4 DEF Validate, Goto, MarkDone, Remember, TypeOK, RowTypes, RunTypes
  <2>2. RunTypes'
    <3>1. done' = done \/ MarkDone(r, "scope_validation")
      BY <1>4, Zenon DEF Validate
    <3>2. done' \in [Run -> SUBSET Module]
      BY <3>1 DEF MarkDone, TypeOK, RunTypes
    <3>3. pc' \in [Run -> Place]
      BY <1>4 DEF Validate, Goto, TypeOK, RunTypes
    <3> QED BY <1>4, <3>2, <3>3 DEF Validate, TypeOK, RunTypes
  <2>3. LockHeld'
    BY <1>4 DEF Validate, Goto, MarkDone, Remember, TypeOK, RunTypes, LockHeld
  <2> QED BY <2>1, <2>2, <2>3 DEF TypeOK
<1>5. ASSUME NEW r \in Run, NEW s \in Module, Skip(r, s) PROVE TypeOK'
  <2>1. RowTypes'
    BY <1>5 DEF Skip, Goto, MarkDone, Remember, TypeOK, RowTypes, RunTypes
  <2>2. RunTypes'
    BY <1>5 DEF Skip, Goto, MarkDone, Remember, TypeOK, RowTypes, RunTypes
  <2>3. LockHeld'
    BY <1>5 DEF Skip, Goto, MarkDone, Remember, TypeOK, RunTypes, LockHeld
  <2> QED BY <2>1, <2>2, <2>3 DEF TypeOK
<1>6. ASSUME NEW r \in Run, NEW s \in Module, Enter(r, s) PROVE TypeOK'
  <2>1. RowTypes'
    BY <1>6 DEF Enter, Goto, FirstStep, TypeOK, RowTypes, RunTypes
  <2>2. RunTypes'
    BY <1>6 DEF Enter, Goto, FirstStep, TypeOK, RowTypes, RunTypes
  <2>3. LockHeld'
    BY <1>6 DEF Enter, Goto, FirstStep, TypeOK, RunTypes, LockHeld
  <2> QED BY <2>1, <2>2, <2>3 DEF TypeOK
<1>7. ASSUME NEW r \in Run, NEW s \in Module, Scan(r, s) PROVE TypeOK'
  <2>1. RowTypes'
    BY <1>7 DEF Scan, Goto, Yields, Item, TypeOK, RowTypes, RunTypes
  <2>2. RunTypes'
    BY <1>7 DEF Scan, Goto, Yields, Item, TypeOK, RowTypes, RunTypes
  <2>3. LockHeld'
    BY <1>7 DEF Scan, Goto, Yields, Item, TypeOK, RunTypes, LockHeld
  <2> QED BY <2>1, <2>2, <2>3 DEF TypeOK
<1>8. ASSUME NEW r \in Run, NEW s \in Module, CommitItems(r, s) PROVE TypeOK'
  <2>1. RowTypes'
    BY <1>8 DEF CommitItems, Goto, MarkDone, Remember, Insert, OneMore, Discard, TypeOK, RowTypes, RunTypes
  <2>2. RunTypes'
    BY <1>8 DEF CommitItems, Goto, MarkDone, Remember, Insert, OneMore, Discard, TypeOK, RowTypes, RunTypes
  <2>3. LockHeld'
    BY <1>8 DEF CommitItems, Goto, MarkDone, Remember, Insert, OneMore, Discard, TypeOK, RunTypes, LockHeld
  <2> QED BY <2>1, <2>2, <2>3 DEF TypeOK
<1>9. ASSUME NEW r \in Run, FlushHost(r) PROVE TypeOK'
  <2>1. RowTypes'
    BY <1>9 DEF FlushHost, Goto, Stored, Item, TypeOK, RowTypes, RunTypes
  <2>2. RunTypes'
    BY <1>9 DEF FlushHost, Goto, Stored, Item, TypeOK, RowTypes, RunTypes
  <2>3. LockHeld'
    BY <1>9 DEF FlushHost, Goto, Stored, Item, TypeOK, RunTypes, LockHeld
  <2> QED BY <2>1, <2>2, <2>3 DEF TypeOK
<1>10. ASSUME NEW r \in Run, ReadKnown(r) PROVE TypeOK'
  <2>1. RowTypes'
    BY <1>10 DEF ReadKnown, Goto, Lookup, Stored, TypeOK, RowTypes, RunTypes
  <2>2. RunTypes'
    BY <1>10 DEF ReadKnown, Goto, Lookup, Stored, TypeOK, RowTypes, RunTypes
  <2>3. LockHeld'
    BY <1>10 DEF ReadKnown, Goto, Lookup, Stored, TypeOK, RunTypes, LockHeld
  <2> QED BY <2>1, <2>2, <2>3 DEF TypeOK
<1>11. ASSUME NEW r \in Run, CommitBaselines(r) PROVE TypeOK'
  <2>1. RowTypes'
    BY <1>11 DEF CommitBaselines, Goto, MarkDone, Remember, OneMore, TypeOK, RowTypes, RunTypes
  <2>2. RunTypes'
    BY <1>11 DEF CommitBaselines, Goto, MarkDone, Remember, OneMore, TypeOK, RowTypes, RunTypes
  <2>3. LockHeld'
    BY <1>11 DEF CommitBaselines, Goto, MarkDone, Remember, OneMore, TypeOK, RunTypes, LockHeld
  <2> QED BY <2>1, <2>2, <2>3 DEF TypeOK
<1>12. ASSUME NEW r \in Run, Risk(r) PROVE TypeOK'
  <2>1. RowTypes'
    BY <1>12 DEF Risk, Goto, MarkDone, Remember, TypeOK, RowTypes, RunTypes
  <2>2. RunTypes'
    BY <1>12 DEF Risk, Goto, MarkDone, Remember, TypeOK, RowTypes, RunTypes
  <2>3. LockHeld'
    BY <1>12 DEF Risk, Goto, MarkDone, Remember, TypeOK, RunTypes, LockHeld
  <2> QED BY <2>1, <2>2, <2>3 DEF TypeOK
<1>13. ASSUME NEW r \in Run, Save(r) PROVE TypeOK'
  <2>1. RowTypes'
    BY <1>13 DEF Save, Goto, SavedBy, TypeOK, RowTypes, RunTypes
  <2>2. RunTypes'
    BY <1>13 DEF Save, Goto, SavedBy, TypeOK, RowTypes, RunTypes
  <2>3. LockHeld'
    BY <1>13 DEF Save, Goto, SavedBy, TypeOK, RunTypes, LockHeld
  <2> QED BY <2>1, <2>2, <2>3 DEF TypeOK
<1>14. ASSUME NEW r \in Run, AnnounceReports(r) PROVE TypeOK'
  <2>1. RowTypes'
    BY <1>14 DEF AnnounceReports, Goto, SavedBy, TypeOK, RowTypes, RunTypes
  <2>2. RunTypes'
    BY <1>14 DEF AnnounceReports, Goto, SavedBy, TypeOK, RowTypes, RunTypes
  <2>3. LockHeld'
    BY <1>14 DEF AnnounceReports, Goto, SavedBy, TypeOK, RunTypes, LockHeld
  <2> QED BY <2>1, <2>2, <2>3 DEF TypeOK
<1>15. ASSUME NEW r \in Run, Build(r) PROVE TypeOK'
  <2>1. RowTypes'
    BY <1>15 DEF Build, Stored, TypeOK, RowTypes, RunTypes
  <2>2. RunTypes'
    BY <1>15 DEF Build, Stored, TypeOK, RowTypes, RunTypes
  <2>3. LockHeld'
    BY <1>15 DEF Build, Stored, TypeOK, RunTypes, LockHeld
  <2> QED BY <2>1, <2>2, <2>3 DEF TypeOK
<1>16. ASSUME NEW r \in Run, FinishReports(r) PROVE TypeOK'
  <2>1. RowTypes'
    BY <1>16 DEF FinishReports, ReportsDone, Goto, MarkDone, Remember, TypeOK, RowTypes, RunTypes
  <2>2. RunTypes'
    BY <1>16 DEF FinishReports, ReportsDone, Goto, MarkDone, Remember, TypeOK, RowTypes, RunTypes
  <2>3. LockHeld'
    BY <1>16 DEF FinishReports, ReportsDone, Goto, MarkDone, Remember, TypeOK, RunTypes, LockHeld
  <2> QED BY <2>1, <2>2, <2>3 DEF TypeOK
<1>17. ASSUME NEW r \in Run, Complete(r) PROVE TypeOK'
  <2>1. RowTypes'
    BY <1>17 DEF Complete, Goto, OneMore, TypeOK, RowTypes, RunTypes
  <2>2. RunTypes'
    BY <1>17 DEF Complete, Goto, OneMore, TypeOK, RowTypes, RunTypes
  <2>3. LockHeld'
    BY <1>17 DEF Complete, Goto, OneMore, TypeOK, RunTypes, LockHeld
  <2> QED BY <2>1, <2>2, <2>3 DEF TypeOK
<1>18. ASSUME NEW r \in Run, Final(r) PROVE TypeOK'
  <2>1. RowTypes'
    BY <1>18 DEF Final, Forget, Goto, TypeOK, RowTypes, RunTypes
  <2>2. RunTypes'
    BY <1>18 DEF Final, Forget, Goto, TypeOK, RowTypes, RunTypes
  <2>3. LockHeld'
    BY <1>18 DEF Final, Forget, Goto, TypeOK, RunTypes, LockHeld
  <2> QED BY <2>1, <2>2, <2>3 DEF TypeOK
<1>19. ASSUME NEW r \in Run, Handle(r) PROVE TypeOK'
  <2>1. RowTypes'
    BY <1>19 DEF Handle, Goto, Insert, OneMore, Discard, TypeOK, RowTypes, RunTypes
  <2>2. RunTypes'
    BY <1>19 DEF Handle, Goto, Insert, OneMore, Discard, TypeOK, RowTypes, RunTypes
  <2>3. LockHeld'
    BY <1>19 DEF Handle, Goto, Insert, OneMore, Discard, TypeOK, RunTypes, LockHeld
  <2> QED BY <2>1, <2>2, <2>3 DEF TypeOK
<1>20. ASSUME NEW r \in Run, SaveFailure(r) PROVE TypeOK'
  <2>1. RowTypes'
    BY <1>20 DEF SaveFailure, SavedBy, Forget, Goto, TypeOK, RowTypes, RunTypes
  <2>2. RunTypes'
    BY <1>20 DEF SaveFailure, SavedBy, Forget, Goto, TypeOK, RowTypes, RunTypes
  <2>3. LockHeld'
    BY <1>20 DEF SaveFailure, SavedBy, Forget, Goto, TypeOK, RunTypes, LockHeld
  <2> QED BY <2>1, <2>2, <2>3 DEF TypeOK
<1>21. ASSUME NEW r \in Run, ToolFails(r) PROVE TypeOK'
  <2>1. RowTypes'
    BY <1>21 DEF ToolFails, Goto, CanRaise, TypeOK, RowTypes, RunTypes
  <2>2. RunTypes'
    BY <1>21 DEF ToolFails, Goto, CanRaise, TypeOK, RowTypes, RunTypes
  <2>3. LockHeld'
    BY <1>21 DEF ToolFails, Goto, CanRaise, TypeOK, RunTypes, LockHeld
  <2> QED BY <2>1, <2>2, <2>3 DEF TypeOK
<1>22. ASSUME NEW r \in Run, CheckpointFails(r) PROVE TypeOK'
  <2>1. RowTypes'
    BY <1>22 DEF CheckpointFails, Goto, TypeOK, RowTypes, RunTypes
  <2>2. RunTypes'
    BY <1>22 DEF CheckpointFails, Goto, TypeOK, RowTypes, RunTypes
  <2>3. LockHeld'
    BY <1>22 DEF CheckpointFails, Goto, TypeOK, RunTypes, LockHeld
  <2> QED BY <2>1, <2>2, <2>3 DEF TypeOK
<1>23. ASSUME NEW r \in Run, CommitFails(r) PROVE TypeOK'
  <2>1. RowTypes'
    BY <1>23 DEF CommitFails, Committing, Forget, Goto, TypeOK, RowTypes, RunTypes
  <2>2. RunTypes'
    BY <1>23 DEF CommitFails, Committing, Forget, Goto, TypeOK, RowTypes, RunTypes
  <2>3. LockHeld'
    BY <1>23 DEF CommitFails, Committing, Forget, Goto, TypeOK, RunTypes, LockHeld
  <2> QED BY <2>1, <2>2, <2>3 DEF TypeOK
<1>24. CASE Crash
  <2>1. RowTypes'
    BY <1>24 DEF Crash, TypeOK, RowTypes, RunTypes
  <2>2. RunTypes'
    BY <1>24 DEF Crash, TypeOK, RowTypes, RunTypes
  <2>3. LockHeld'
    BY <1>24 DEF Crash, TypeOK, RunTypes, LockHeld
  <2> QED BY <2>1, <2>2, <2>3 DEF TypeOK
<1>25. ASSUME NEW h \in Host, NEW excluded \in BOOLEAN, AddScope(h, excluded) PROVE TypeOK'
  <2>1. RowTypes'
    BY <1>25 DEF AddScope, Host, TypeOK, RowTypes, RunTypes
  <2>2. RunTypes'
    BY <1>25 DEF AddScope, TypeOK, RowTypes, RunTypes
  <2>3. LockHeld'
    BY <1>25 DEF AddScope, TypeOK, RunTypes, LockHeld
  <2> QED BY <2>1, <2>2, <2>3 DEF TypeOK
<1>26. CASE UNCHANGED vars
  BY <1>26 DEF vars, TypeOK, RowTypes, RunTypes, LockHeld
<1> QED
  BY <1>1, <1>2, <1>3, <1>4, <1>5, <1>6, <1>7, <1>8, <1>9, <1>10, <1>11, <1>12, <1>13, <1>14, <1>15, <1>16, <1>17, <1>18, <1>19, <1>20, <1>21, <1>22, <1>23, <1>24, <1>25, <1>26
  DEF Next, Advance, Disturb

(* The rows, the files and every run keep to their domains, and a flushed  *)
(* row is never left behind (run_assessment, in every interleaving).       *)
THEOREM TypeCorrect == Spec => []TypeOK
  BY TypeInit, TypeStep, PTL DEF Spec
-----------------------------------------------------------------------------
(* What any number of overlapping runs keep to.                            *)

Backed == CheckpointBacked /\ ScopeValidatedFirst /\ FinalDone

LEMMA BackedInit == Init => Backed
  BY DEF Init, Backed, CheckpointBacked, ScopeValidatedFirst, FinalDone

(* Done stages only come from a checkpoint or from work that is remembered. *)
LEMMA BackedStep == TypeOK /\ Backed /\ [Next]_vars => Backed'
<1> SUFFICES ASSUME TypeOK, Backed, [Next]_vars PROVE Backed'
  OBVIOUS
<1> USE Modules DEF rowVars, dataVars, localVars, envVars, Goto
<1>a. ASSUME UNCHANGED <<target, saved, worked, done, stage>>,
             \A q \in Run : pc'[q] = "final" => pc[q] = "final"
      PROVE  Backed'
  BY <1>a DEF Backed, CheckpointBacked, ScopeValidatedFirst, FinalDone, AllDone, Planned
<1>1. ASSUME NEW r \in Run,
             MarkRunning(r) \/ Gate(r) \/ FlushHost(r) \/ ReadKnown(r)
               \/ Build(r) \/ Handle(r) \/ ToolFails(r) \/ CheckpointFails(r)
      PROVE  Backed'
  BY <1>1, <1>a DEF MarkRunning, Gate, FlushHost, ReadKnown, Build, Handle, ToolFails,
                    CheckpointFails, TypeOK, RunTypes
<1>2. ASSUME NEW r \in Run, NEW s \in Module, Scan(r, s) PROVE Backed'
  BY <1>2, <1>a DEF Scan, TypeOK, RunTypes
<1>3. ASSUME NEW r \in Run, Load(r) PROVE Backed'
  BY <1>3 DEF Load, Backed, CheckpointBacked, ScopeValidatedFirst, FinalDone, AllDone,
              Planned, TypeOK, RunTypes
<1>4. ASSUME NEW r \in Run, NEW s \in Module, pc[r] # "final", MarkDone(r, s), Remember(s),
             UNCHANGED <<target, saved, stage>>,
             pc' = [pc EXCEPT ![r] = "save"]
      PROVE  Backed'
  BY <1>4 DEF MarkDone, Remember, Backed, CheckpointBacked, ScopeValidatedFirst, FinalDone,
              AllDone, Planned, TypeOK, RunTypes
<1>5. ASSUME NEW r \in Run, NEW s \in Module, Skip(r, s) \/ CommitItems(r, s)
      PROVE  Backed'
  BY <1>4, <1>5 DEF Skip, CommitItems
<1>6. ASSUME NEW r \in Run, CommitBaselines(r) \/ Risk(r) \/ FinishReports(r)
      PROVE  Backed'
  BY <1>4, <1>6 DEF CommitBaselines, Risk, FinishReports, ReportsDone
<1>7. ASSUME NEW r \in Run, Validate(r) PROVE Backed'
  <2>1. CASE Validated(r)
    BY <1>4, <1>7, <2>1 DEF Validate
  <2>2. CASE ~Validated(r)
    <3>1. UNCHANGED <<target, saved, worked, done, stage>>
      BY <1>7, <2>2, Zenon DEF Validate
    <3>2. pc' = [pc EXCEPT ![r] = "failing"]
      BY <1>7, <2>2, Zenon DEF Validate
    <3> QED BY <1>a, <3>1, <3>2 DEF TypeOK, RunTypes
  <2> QED BY <2>1, <2>2
<1>8. ASSUME NEW r \in Run, NEW s \in Module, Enter(r, s) PROVE Backed'
  <2>1. s = "scope_validation" \/ "scope_validation" \in worked
    BY <1>8 DEF Enter, At, NextStage, Backed, CheckpointBacked, Planned
  <2>2. FirstStep(s) # "final"
    BY DEF FirstStep
  <2> QED
    BY <1>8, <2>1, <2>2 DEF Enter, Backed, CheckpointBacked, ScopeValidatedFirst,
                            FinalDone, AllDone, Planned, TypeOK, RunTypes
<1>9. ASSUME NEW r \in Run, Save(r) \/ AnnounceReports(r) PROVE Backed'
  BY <1>9 DEF Save, AnnounceReports, SavedBy, Backed, CheckpointBacked,
              ScopeValidatedFirst, FinalDone, AllDone, Planned, TypeOK, RunTypes
<1>10. ASSUME NEW r \in Run, Complete(r) PROVE Backed'
  <2>1. "scope_validation" \in worked
    BY <1>10 DEF Complete, AllDone, Backed, CheckpointBacked, Planned
  <2> QED
    BY <1>10, <2>1 DEF Complete, Backed, CheckpointBacked, ScopeValidatedFirst, FinalDone,
                       AllDone, Planned, TypeOK, RunTypes
<1>11. ASSUME NEW r \in Run, Final(r) PROVE Backed'
  <2>1. Module \ worked \subseteq {"web_security"} \ Planned
    BY <1>11 DEF Final, Backed, CheckpointBacked, FinalDone, AllDone
  <2> QED
    BY <1>11, <2>1 DEF Final, Forget, Backed, CheckpointBacked, ScopeValidatedFirst,
                       FinalDone, AllDone, Planned, TypeOK, RunTypes
<1>12. ASSUME NEW r \in Run, Forget(r), saved' = saved \/ saved' = done[r],
              UNCHANGED <<target, worked, stage>>
       PROVE  Backed'
  BY <1>12 DEF Forget, Backed, CheckpointBacked, ScopeValidatedFirst, FinalDone, AllDone,
               Planned, TypeOK, RunTypes
<1>13. ASSUME NEW r \in Run, SaveFailure(r) \/ CommitFails(r) PROVE Backed'
  BY <1>12, <1>13 DEF SaveFailure, CommitFails, SavedBy
<1>14. CASE Crash
  BY <1>14 DEF Crash, Backed, CheckpointBacked, ScopeValidatedFirst, FinalDone, Planned
<1>15. ASSUME NEW h \in Host, NEW excluded \in BOOLEAN, AddScope(h, excluded)
       PROVE  Backed'
  BY <1>15, <1>a DEF AddScope
<1>16. CASE UNCHANGED vars
  BY <1>16, <1>a DEF vars
<1> QED
  BY <1>1, <1>2, <1>3, <1>5, <1>6, <1>7, <1>8, <1>9, <1>10, <1>11, <1>13, <1>14, <1>15,
     <1>16
  DEF Next, Advance, Disturb

LEMMA BackedAlways == Spec => []Backed
  BY TypeCorrect, BackedInit, BackedStep, PTL DEF Spec

(* Whatever overlaps, fails or crashes, what a checkpoint or a run counts  *)
(* as completed has been done.                                             *)
THEOREM CheckpointsBacked == Spec => []CheckpointBacked
  BY BackedAlways, PTL DEF Backed

(* No run enters a stage after scope_validation before the target has been *)
(* validated.                                                              *)
THEOREM ValidatedFirst == Spec => []ScopeValidatedFirst
  BY BackedAlways, PTL DEF Backed
-----------------------------------------------------------------------------
(* Stages are completed in the order of MODULES, by any number of runs.    *)

InOrder == InPlace /\ Ordered

LEMMA TargetKept == [Next]_vars => target' = target
<1> SUFFICES ASSUME [Next]_vars PROVE target' = target
  OBVIOUS
<1>1. ASSUME NEW r \in Run, Load(r) \/ MarkRunning(r) \/ Gate(r) \/ Validate(r)
      PROVE  target' = target
  BY <1>1, Zenon DEF Load, MarkRunning, Gate, Validate
<1>2. ASSUME NEW r \in Run, NEW s \in Module,
             Skip(r, s) \/ Enter(r, s) \/ Scan(r, s) \/ CommitItems(r, s)
      PROVE  target' = target
  BY <1>2, Zenon DEF Skip, Enter, Scan, CommitItems
<1>3. ASSUME NEW r \in Run,
             FlushHost(r) \/ ReadKnown(r) \/ CommitBaselines(r) \/ Risk(r) \/ Save(r)
               \/ AnnounceReports(r) \/ Build(r) \/ FinishReports(r)
      PROVE  target' = target
  BY <1>3, Zenon DEF FlushHost, ReadKnown, CommitBaselines, Risk, Save, AnnounceReports,
                     Build, FinishReports
<1>4. ASSUME NEW r \in Run,
             Complete(r) \/ Final(r) \/ Handle(r) \/ SaveFailure(r) \/ Disturb(r)
      PROVE  target' = target
  BY <1>4, Zenon DEF Complete, Final, Handle, SaveFailure, Disturb, ToolFails,
                     CheckpointFails, CommitFails
<1>5. CASE Crash
  BY <1>5, Zenon DEF Crash
<1>6. ASSUME NEW h \in Host, NEW excluded \in BOOLEAN, AddScope(h, excluded)
      PROVE  target' = target
  BY <1>6, Zenon DEF AddScope
<1>7. CASE UNCHANGED vars
  BY <1>7 DEF vars
<1> QED
  BY <1>1, <1>2, <1>3, <1>4, <1>5, <1>6, <1>7, Zenon DEF Next, Advance

LEMMA Closing ==
  /\ \A stages, s : Closed(stages) /\ NextStage(s, stages) => Closed(stages \union {s})
  /\ Closed({}) /\ Closed(Module)
  BY Modules DEF Closed, NextStage

LEMMA InOrderInit == Init => InOrder
  BY Closing DEF Init, InOrder, InPlace, Ordered

LEMMA InOrderStep == TypeOK /\ InOrder /\ [Next]_vars => InOrder'
<1> SUFFICES ASSUME TypeOK, InOrder, [Next]_vars PROVE InOrder'
  OBVIOUS
<1> USE Modules DEF rowVars, dataVars, localVars, envVars, Goto
<1>1. (\A S : Closed(S)' = Closed(S)) /\ \A S, s : NextStage(s, S)' = NextStage(s, S)
  BY TargetKept DEF Closed, NextStage, Planned
<1>a. ASSUME NEW r \in Run,
             \A q \in Run \ {r} : pc'[q] = pc[q] /\ done'[q] = done[q] /\ pending'[q] = pending[q],
             Closed(done'[r]), Closed(saved'),
             pc'[r] \notin {"validate", "asset", "scan", "lookup", "commit", "baselines",
                            "risk", "announce", "build"},
             pending'[r] = {}
      PROVE  InOrder'
  BY <1>1, <1>a DEF InOrder, InPlace, Ordered, At
<1>b. ASSUME NEW r \in Run, NEW there \in Place, pc' = [pc EXCEPT ![r] = there],
             UNCHANGED <<done, saved>>,
             pending' = pending \/ pending' = [pending EXCEPT ![r] = {}],
             there \notin {"validate", "asset", "scan", "baselines", "risk", "announce", "build"},
             there \in {"lookup", "commit"} => pc[r] \in {"scan", "lookup"}
      PROVE  InOrder'
  BY <1>1, <1>b DEF InOrder, InPlace, Ordered, At, TypeOK, RunTypes
<1>c. ASSUME NEW r \in Run, NEW s \in Module, At(r, s), MarkDone(r, s),
             UNCHANGED saved, pending'[r] = {},
             pending' = pending \/ pending' = [pending EXCEPT ![r] = {}],
             pc' = [pc EXCEPT ![r] = "save"]
      PROVE  InOrder'
  <2>1. Closed(done[r] \union {s})
    BY <1>c, Closing DEF InOrder, Ordered, At
  <2>2. done'[r] = done[r] \union {s}
    BY <1>c DEF MarkDone, TypeOK, RunTypes
  <2> QED
    BY <1>a, <1>c, <2>1, <2>2 DEF MarkDone, InOrder, Ordered, TypeOK, RunTypes
<1>2. ASSUME NEW r \in Run, Load(r) PROVE InOrder'
  BY <1>a, <1>2 DEF Load, InOrder, Ordered, TypeOK, RunTypes, LockHeld
<1>3. ASSUME NEW r \in Run, MarkRunning(r) \/ Gate(r) \/ ReadKnown(r)
      PROVE  InOrder'
  BY <1>b, <1>3 DEF MarkRunning, Gate, ReadKnown
<1>4. ASSUME NEW r \in Run, NEW s \in Module, Scan(r, s)
      PROVE  InOrder'
  BY <1>b, <1>4 DEF Scan
<1>5. ASSUME NEW r \in Run, Handle(r) \/ ToolFails(r) \/ CheckpointFails(r) \/ Complete(r)
      PROVE  InOrder'
  BY <1>b, <1>5 DEF Handle, Discard, ToolFails, CheckpointFails, Complete
<1>6. ASSUME NEW r \in Run, Validate(r) PROVE InOrder'
  <2>1. At(r, "scope_validation") /\ pending[r] = {}
    BY <1>6 DEF Validate, InOrder, InPlace, TypeOK, LockHeld
  <2>2. UNCHANGED <<saved, pending>>
    BY <1>6, Zenon DEF Validate
  <2>3. CASE Validated(r)
    BY <1>c, <1>6, <2>1, <2>2, <2>3 DEF Validate
  <2>4. CASE ~Validated(r)
    BY <1>b, <1>6, <2>2, <2>4 DEF Validate
  <2> QED BY <2>3, <2>4
<1>7. ASSUME NEW r \in Run, NEW s \in Module, Skip(r, s) PROVE InOrder'
  BY <1>c, <1>7 DEF Skip, TypeOK, LockHeld
<1>8. ASSUME NEW r \in Run, NEW s \in Module, CommitItems(r, s) PROVE InOrder'
  BY <1>c, <1>8 DEF CommitItems, Discard, TypeOK, RunTypes
<1>9. ASSUME NEW r \in Run, CommitBaselines(r) \/ Risk(r) \/ FinishReports(r)
      PROVE  InOrder'
  <2>1. pending[r] = {}
    BY <1>9 DEF CommitBaselines, Risk, FinishReports, ReportsDone, TypeOK, LockHeld
  <2> QED
    BY <1>c, <1>9, <2>1 DEF CommitBaselines, Risk, FinishReports, ReportsDone, InOrder, InPlace
<1>10. ASSUME NEW r \in Run, NEW s \in Module, Enter(r, s) PROVE InOrder'
  BY <1>1, <1>10 DEF Enter, FirstStep, InOrder, InPlace, Ordered, At, TypeOK, RunTypes, LockHeld
<1>11. ASSUME NEW r \in Run, FlushHost(r) PROVE InOrder'
  BY <1>1, <1>11 DEF FlushHost, InOrder, InPlace, Ordered, At, TypeOK, RunTypes
<1>12. ASSUME NEW r \in Run, Save(r) PROVE InOrder'
  BY <1>a, <1>12 DEF Save, SavedBy, InOrder, Ordered, TypeOK, RunTypes, LockHeld
<1>13. ASSUME NEW r \in Run, AnnounceReports(r) \/ Build(r) PROVE InOrder'
  BY <1>1, <1>13 DEF AnnounceReports, Build, SavedBy, InOrder, InPlace, Ordered, At,
                     TypeOK, RunTypes
<1>14. ASSUME NEW r \in Run, Forget(r), Closed(saved') PROVE InOrder'
  BY <1>a, <1>14, Closing DEF Forget, InOrder, Ordered, TypeOK, RunTypes
<1>15. ASSUME NEW r \in Run, Final(r) \/ SaveFailure(r) \/ CommitFails(r) PROVE InOrder'
  BY <1>14, <1>15, Closing DEF Final, SaveFailure, CommitFails, SavedBy, InOrder, Ordered
<1>16. CASE Crash
  BY <1>1, <1>16, Closing DEF Crash, InOrder, InPlace, Ordered
<1>17. CASE UNCHANGED <<pc, done, saved, pending>>
  BY <1>1, <1>17 DEF InOrder, InPlace, Ordered, At
<1>18. ASSUME NEW h \in Host, NEW excluded \in BOOLEAN, AddScope(h, excluded)
       PROVE  InOrder'
  BY <1>17, <1>18 DEF AddScope
<1>19. CASE UNCHANGED vars
  BY <1>17, <1>19 DEF vars
<1> QED
  BY <1>2, <1>3, <1>4, <1>5, <1>6, <1>7, <1>8, <1>9, <1>10, <1>11, <1>12, <1>13, <1>15,
     <1>16, <1>18, <1>19
  DEF Next, Advance, Disturb
LEMMA InOrderAlways == Spec => []InOrder
  BY TypeCorrect, InOrderInit, InOrderStep, PTL DEF Spec

-----------------------------------------------------------------------------
(* One run at a time: what a resumed assessment relies on.  Two overlapping *)
(* runs can store one finding twice: each loads the fingerprints first.    *)

OneAtATime == \E r \in Run : Run = {r}

LEMMA SavedInit == Init => SavedByRun
  BY DEF Init, SavedByRun

LEMMA SavedStep ==
  ASSUME OneAtATime, TypeOK, InOrder, SavedByRun, [Next]_vars
  PROVE  SavedByRun' /\ saved \subseteq saved'
<1> USE Modules DEF rowVars, dataVars, localVars, envVars, Goto
<1> DEFINE Good == SavedByRun' /\ saved \subseteq saved'
<1>0. PICK r0 \in Run : Run = {r0}
  BY DEF OneAtATime
<1>1. \A S, s : NextStage(s, S)' = NextStage(s, S)
  BY TargetKept DEF NextStage, Planned
<1>a. CASE UNCHANGED <<pc, done, saved>>
  BY <1>1, <1>a DEF SavedByRun
<1>b. ASSUME NEW r \in Run, NEW there \in Place,
             pc' = [pc EXCEPT ![r] = there], UNCHANGED <<done, saved>>,
             pc[r] \notin {"idle", "save", "failing", "failsave"}
               \/ there \in {"failing", "failsave"}, pc[r] # "idle"
      PROVE  Good
  BY <1>0, <1>1, <1>b DEF SavedByRun, TypeOK, RunTypes
<1>c. ASSUME NEW r \in Run, NEW s \in Module, At(r, s), MarkDone(r, s), UNCHANGED saved,
             pc[r] \notin {"idle", "save", "failing", "failsave"},
             pc' = [pc EXCEPT ![r] = "save"]
      PROVE  Good
  <2>1. done[r] = saved /\ NextStage(s, saved)
    BY <1>c DEF SavedByRun, At
  <2>2. done'[r] = saved \union {s} /\ pc'[r] = "save"
    BY <1>c, <2>1 DEF MarkDone, TypeOK, RunTypes
  <2> QED
    BY <1>0, <1>1, <1>c, <2>1, <2>2 DEF SavedByRun
<1>d. ASSUME NEW r \in Run, Forget(r), saved \subseteq saved' PROVE Good
  BY <1>0, <1>d DEF Forget, SavedByRun, TypeOK, RunTypes
<1>e. \A r \in Run : pc[r] # "idle" => saved \subseteq done[r]
  BY DEF SavedByRun
<1>2. ASSUME NEW r \in Run, Load(r) PROVE Good
  BY <1>0, <1>2 DEF Load, SavedByRun, TypeOK, RunTypes
<1>3. ASSUME NEW r \in Run,
             MarkRunning(r) \/ Gate(r) \/ FlushHost(r) \/ ReadKnown(r) \/ Handle(r)
               \/ ToolFails(r) \/ CheckpointFails(r) \/ Complete(r)
      PROVE  Good
  BY <1>b, <1>3 DEF MarkRunning, Gate, FlushHost, ReadKnown, Handle, ToolFails, CanRaise,
                    CheckpointFails, Complete
<1>4. ASSUME NEW r \in Run, NEW s \in Module, Scan(r, s) \/ Enter(r, s) PROVE Good
  BY <1>b, <1>4 DEF Scan, Enter, FirstStep
<1>5. ASSUME NEW r \in Run, Build(r) PROVE Good
  BY <1>a, <1>5 DEF Build
<1>6. ASSUME NEW r \in Run, Validate(r) PROVE Good
  <2>1. At(r, "scope_validation") /\ UNCHANGED saved /\ pc[r] = "validate"
    BY <1>6 DEF Validate, InOrder, InPlace
  <2>2. CASE Validated(r)
    BY <1>c, <1>6, <2>1, <2>2 DEF Validate
  <2>3. CASE ~Validated(r)
    BY <1>b, <1>6, <2>1, <2>3 DEF Validate
  <2> QED BY <2>2, <2>3
<1>7. ASSUME NEW r \in Run, NEW s \in Module, Skip(r, s) \/ CommitItems(r, s) PROVE Good
  BY <1>c, <1>7 DEF Skip, CommitItems
<1>8. ASSUME NEW r \in Run, CommitBaselines(r) \/ Risk(r) \/ FinishReports(r) PROVE Good
  BY <1>c, <1>8 DEF CommitBaselines, Risk, FinishReports, ReportsDone, InOrder, InPlace
<1>9. ASSUME NEW r \in Run, Save(r) \/ AnnounceReports(r) PROVE Good
  BY <1>0, <1>e, <1>9 DEF Save, AnnounceReports, SavedBy, SavedByRun, TypeOK, RunTypes
<1>10. ASSUME NEW r \in Run, Final(r) \/ SaveFailure(r) \/ CommitFails(r) PROVE Good
  BY <1>d, <1>e, <1>10 DEF Final, SaveFailure, CommitFails, SavedBy, TypeOK, RowTypes
<1>11. CASE Crash
  BY <1>11 DEF Crash, SavedByRun
<1>12. ASSUME NEW h \in Host, NEW excluded \in BOOLEAN, AddScope(h, excluded) PROVE Good
  BY <1>a, <1>12 DEF AddScope
<1>13. CASE UNCHANGED vars
  BY <1>a, <1>13 DEF vars
<1> QED
  BY <1>2, <1>3, <1>4, <1>5, <1>6, <1>7, <1>8, <1>9, <1>10, <1>11, <1>12, <1>13
  DEF Next, Advance, Disturb
(* What each step may do to the assessment row and the audit entry.        *)
LEMMA RowMoves ==
  ASSUME [Next]_vars
  PROVE  \/ /\ UNCHANGED <<stage, progress, audits>>
            /\ status' \in {status, "RUNNING", "FAILED"}
         \/ \E r \in Run : Complete(r)
         \/ \E r \in Run, s \in Module : Enter(r, s)
<1> DEFINE Quiet == UNCHANGED <<stage, progress, audits>> /\ status' \in {status, "RUNNING", "FAILED"}
<1> USE DEF rowVars, dataVars
<1>1. ASSUME NEW r \in Run,
             Load(r) \/ MarkRunning(r) \/ Gate(r) \/ Validate(r) \/ FlushHost(r)
               \/ ReadKnown(r) \/ CommitBaselines(r) \/ Risk(r)
      PROVE  Quiet
  BY <1>1 DEF Load, MarkRunning, Gate, Validate, FlushHost, ReadKnown, CommitBaselines, Risk
<1>2. ASSUME NEW r \in Run, NEW s \in Module, Skip(r, s) \/ Scan(r, s) \/ CommitItems(r, s)
      PROVE  Quiet
  BY <1>2 DEF Skip, Scan, CommitItems
<1>3. ASSUME NEW r \in Run,
             Save(r) \/ AnnounceReports(r) \/ Build(r) \/ FinishReports(r) \/ Final(r)
               \/ Handle(r) \/ SaveFailure(r) \/ Disturb(r)
      PROVE  Quiet
  BY <1>3 DEF Save, AnnounceReports, Build, FinishReports, Final, Handle, SaveFailure,
              Disturb, ToolFails, CheckpointFails, CommitFails
<1>4. CASE Crash
  BY <1>4 DEF Crash
<1>5. ASSUME NEW h \in Host, NEW excluded \in BOOLEAN, AddScope(h, excluded) PROVE Quiet
  BY <1>5 DEF AddScope
<1>6. CASE UNCHANGED vars
  BY <1>6 DEF vars
<1> QED
  BY <1>1, <1>2, <1>3, <1>4, <1>5, <1>6 DEF Next, Advance

LEMMA CompletionStep ==
  ASSUME OneAtATime, TypeOK, InOrder, SavedByRun, CompletionBacked, [Next]_vars
  PROVE  CompletionBacked'
<1>1. Planned' = Planned
  BY TargetKept DEF Planned
<1>2. saved \subseteq saved'
  BY SavedStep
<1>3. ASSUME NEW r \in Run, Complete(r) PROVE CompletionBacked'
  BY <1>1, <1>2, <1>3 DEF Complete, AllDone, SavedByRun, CompletionBacked
<1>4. ASSUME NEW r \in Run, NEW s \in Module, Enter(r, s) PROVE CompletionBacked'
  BY <1>1, <1>2, <1>4 DEF Enter, CompletionBacked
<1>5. CASE status' \in {status, "RUNNING", "FAILED"}
  BY <1>1, <1>2, <1>5 DEF CompletionBacked
<1> QED BY <1>3, <1>4, <1>5, RowMoves

(* A COMPLETED assessment has every planned stage in its checkpoint.       *)
THEOREM CompletionSound ==
  ASSUME OneAtATime
  PROVE  Spec => []CompletionBacked
<1>1. Init => CompletionBacked
  BY DEF Init, CompletionBacked
<1>2. TypeOK /\ InOrder /\ SavedByRun /\ [Next]_vars => SavedByRun'
  BY SavedStep
<1>3. TypeOK /\ InOrder /\ SavedByRun /\ CompletionBacked /\ [Next]_vars => CompletionBacked'
  BY CompletionStep
<1> QED
  BY <1>1, <1>2, <1>3, SavedInit, TypeCorrect, InOrderAlways, PTL DEF Spec

(* What each step may do to the latest checkpoint.                         *)
LEMMA CheckpointMoves ==
  ASSUME [Next]_vars
  PROVE  \/ UNCHANGED saved
         \/ /\ UNCHANGED audits
            /\ \E r \in Run : \/ pc[r] \in {"save", "announce", "failsave"} /\ saved' = done[r]
                              \/ Final(r)
<1> DEFINE Quiet == UNCHANGED saved
<1> USE DEF dataVars
<1>1. ASSUME NEW r \in Run,
             Load(r) \/ MarkRunning(r) \/ Gate(r) \/ Validate(r) \/ FlushHost(r)
               \/ ReadKnown(r) \/ CommitBaselines(r) \/ Risk(r)
      PROVE  Quiet
  BY <1>1 DEF Load, MarkRunning, Gate, Validate, FlushHost, ReadKnown, CommitBaselines, Risk
<1>2. ASSUME NEW r \in Run, NEW s \in Module,
             Skip(r, s) \/ Enter(r, s) \/ Scan(r, s) \/ CommitItems(r, s)
      PROVE  Quiet
  BY <1>2 DEF Skip, Enter, Scan, CommitItems
<1>3. ASSUME NEW r \in Run,
             Build(r) \/ FinishReports(r) \/ Complete(r) \/ Handle(r) \/ Disturb(r)
      PROVE  Quiet
  BY <1>3 DEF Build, FinishReports, Complete, Handle, Disturb, ToolFails, CheckpointFails,
              CommitFails
<1>4. ASSUME NEW r \in Run, Save(r) \/ AnnounceReports(r) \/ SaveFailure(r)
      PROVE  UNCHANGED audits /\ pc[r] \in {"save", "announce", "failsave"} /\ saved' = done[r]
  BY <1>4 DEF Save, AnnounceReports, SaveFailure, SavedBy
<1>5. ASSUME NEW r \in Run, Final(r) PROVE UNCHANGED audits
  BY <1>5 DEF Final
<1>6. CASE Crash
  BY <1>6 DEF Crash
<1>7. ASSUME NEW h \in Host, NEW excluded \in BOOLEAN, AddScope(h, excluded) PROVE Quiet
  BY <1>7 DEF AddScope
<1>8. CASE UNCHANGED vars
  BY <1>8 DEF vars
<1> QED
  BY <1>1, <1>2, <1>3, <1>4, <1>5, <1>6, <1>7, <1>8 DEF Next, Advance

LEMMA LedgerStep ==
  ASSUME OneAtATime, TypeOK, Backed, InOrder, SavedByRun, [Next]_vars
  PROVE  [Ledger!LedgerNext]_(Ledger!ledgerVars)
<1> USE DEF Ledger!LedgerNext, Ledger!ledgerVars
<1>1. Planned' = Planned
  BY TargetKept DEF Planned
<1>2. CASE UNCHANGED saved
  <2>1. ASSUME NEW r \in Run, Complete(r) PROVE Ledger!Announce
    <3>1. Planned \subseteq saved
      BY <2>1 DEF Complete, AllDone, SavedByRun
    <3>2. audits' > 0
      BY <2>1 DEF Complete, OneMore, TypeOK, RowTypes
    <3> QED BY <1>1, <1>2, <3>1, <3>2 DEF Ledger!Announce
  <2>2. ASSUME NEW r \in Run, NEW s \in Module, Enter(r, s) PROVE UNCHANGED audits
    BY <2>2 DEF Enter, dataVars
  <2>3. CASE UNCHANGED audits
    BY <1>1, <1>2, <2>3
  <2> QED BY <2>1, <2>2, <2>3, RowMoves
<1>3. ASSUME UNCHANGED audits, NEW r \in Run,
             pc[r] \in {"save", "announce", "failsave"}, saved' = done[r]
      PROVE  [Ledger!LedgerNext]_(Ledger!ledgerVars)
  <2>1. CASE done[r] = saved
    BY <1>1, <1>3, <2>1
  <2>2. ASSUME NEW s \in Module, NextStage(s, saved), done[r] = saved \union {s}
        PROVE  Ledger!Record(s)
    BY <1>1, <1>3, <2>2 DEF Ledger!Record, NextStage
  <2> QED BY <1>3, <2>1, <2>2 DEF SavedByRun, Module
<1>4. ASSUME UNCHANGED audits, NEW r \in Run, Final(r)
      PROVE  UNCHANGED Ledger!ledgerVars
  <2>1. Planned \subseteq saved
    BY <1>4 DEF Final, Backed, FinalDone, AllDone, SavedByRun
  <2>2. saved' = Module
    BY <1>4 DEF Final
  <2> QED BY <1>1, <1>4, <2>1, <2>2, Modules
<1> QED BY <1>2, <1>3, <1>4, CheckpointMoves

(* One run at a time, however often it is resumed, implements the ledger   *)
(* of StageLedger: stages become durable in order and none is forgotten.   *)
THEOREM ImplementsLedger ==
  ASSUME OneAtATime
  PROVE  Spec => LedgerKept
<1>1. Init => Ledger!LedgerInit
  BY Modules DEF Init, Ledger!LedgerInit, Module
<1>2. TypeOK /\ InOrder /\ SavedByRun /\ [Next]_vars => SavedByRun'
  BY SavedStep
<1>3. TypeOK /\ Backed /\ InOrder /\ SavedByRun /\ [Next]_vars
        => [Ledger!LedgerNext]_(Ledger!ledgerVars)
  BY LedgerStep
<1> QED
  BY <1>1, <1>2, <1>3, SavedInit, TypeCorrect, BackedAlways, InOrderAlways, PTL
  DEF Spec, LedgerKept, Ledger!LedgerSpec

-----------------------------------------------------------------------------
(* Nothing is stored twice by one run at a time.                           *)

LEMMA FreshInit == Init => Fresh /\ NoDuplicates
  BY DEF Init, Fresh, NoDuplicates

LEMMA FreshStep ==
  ASSUME OneAtATime, TypeOK, Fresh, NoDuplicates, [Next]_vars
  PROVE  Fresh' /\ NoDuplicates'
<1> DEFINE Good == Fresh' /\ NoDuplicates'
<1> USE DEF rowVars, dataVars, localVars, envVars, Goto
<1>0. PICK r0 \in Run : Run = {r0}
  BY DEF OneAtATime
<1>a. ASSUME UNCHANGED <<count, pending, known, result>>,
             \A q \in Run : pc'[q] = "commit" => pc[q] = "commit"
      PROVE  Good
  BY <1>a DEF Fresh, NoDuplicates, Stored
<1>b. ASSUME NEW r \in Run, Forget(r), UNCHANGED count PROVE Good
  BY <1>0, <1>b DEF Forget, Fresh, NoDuplicates, Stored, TypeOK, RunTypes
<1>c. ASSUME NEW items \in SUBSET Item, \A i \in items : count[i] = 0,
             count' = Insert(items)
      PROVE  NoDuplicates'
  BY <1>c DEF Insert, OneMore, NoDuplicates
<1>1. ASSUME NEW r \in Run,
             Load(r) \/ MarkRunning(r) \/ Gate(r) \/ Risk(r) \/ CommitBaselines(r)
               \/ Save(r) \/ AnnounceReports(r) \/ Build(r) \/ FinishReports(r)
               \/ Complete(r) \/ ToolFails(r) \/ CheckpointFails(r)
      PROVE  Good
  BY <1>a, <1>1 DEF Load, MarkRunning, Gate, Risk, CommitBaselines, Save, AnnounceReports,
                    Build, FinishReports, Complete, ToolFails, CheckpointFails, TypeOK,
                    RunTypes
<1>2. ASSUME NEW r \in Run, NEW s \in Module, Skip(r, s) \/ Enter(r, s) PROVE Good
  <2>1. UNCHANGED <<count, pending, known, result>>
    BY <1>2 DEF Skip, Enter
  <2>2. FirstStep(s) # "commit"
    BY Modules DEF FirstStep
  <2>3. \E there : there # "commit" /\ pc' = [pc EXCEPT ![r] = there]
    BY <1>2, <2>2 DEF Skip, Enter
  <2> QED BY <1>a, <2>1, <2>3 DEF TypeOK, RunTypes
<1>3. ASSUME NEW r \in Run, Validate(r) PROVE Good
  <2>1. UNCHANGED <<count, pending, known, result>>
    BY <1>3 DEF Validate
  <2>2. \E there \in {"save", "failing"} : pc' = [pc EXCEPT ![r] = there]
    BY <1>3, Zenon DEF Validate
  <2> QED BY <1>a, <2>1, <2>2 DEF TypeOK, RunTypes
<1>4. ASSUME NEW r \in Run, FlushHost(r) PROVE Good
  BY <1>0, <1>4 DEF FlushHost, Fresh, NoDuplicates, Stored, TypeOK, RunTypes
<1>5. ASSUME NEW r \in Run, NEW s \in Module, Scan(r, s) PROVE Good
  <2>1. HostItem \notin Yields(s)
    BY ItemAssumption DEF Yields
  <2> QED
    BY <1>0, <1>5, <2>1 DEF Scan, Fresh, NoDuplicates, Stored, TypeOK, RunTypes
<1>6. ASSUME NEW r \in Run, ReadKnown(r) PROVE Good
  BY <1>0, <1>6 DEF ReadKnown, Lookup, Fresh, NoDuplicates, Stored, TypeOK, RunTypes
<1>7. ASSUME NEW r \in Run, NEW s \in Module, CommitItems(r, s) PROVE Good
  <2> DEFINE New == (result[r] \ known[r]) \union pending[r]
  <2>1. New \in SUBSET Item /\ \A i \in New : count[i] = 0
    BY <1>7 DEF CommitItems, Fresh, Stored, TypeOK, RowTypes, RunTypes
  <2>2. NoDuplicates'
    BY <1>7, <1>c, <2>1 DEF CommitItems
  <2>3. Fresh'
    BY <1>0, <1>7 DEF CommitItems, Discard, Fresh, TypeOK, RunTypes
  <2> QED BY <2>2, <2>3
<1>8. ASSUME NEW r \in Run, Handle(r) PROVE Good
  <2>1. pending[r] \in SUBSET Item /\ \A i \in pending[r] : count[i] = 0
    <3>1. pending[r] \in SUBSET Item /\ \A i \in Item : count[i] \in 0..2
      BY DEF TypeOK, RowTypes, RunTypes
    <3>2. pending[r] \subseteq Item \ {i \in Item : count[i] > 0}
      BY <3>1 DEF Fresh, Stored
    <3> QED BY <3>1, <3>2
  <2>2. NoDuplicates'
    BY <1>8, <1>c, <2>1 DEF Handle
  <2>3. Fresh'
    BY <1>0, <1>8 DEF Handle, Discard, Fresh, TypeOK, RunTypes
  <2> QED BY <2>2, <2>3
<1>9. ASSUME NEW r \in Run, Final(r) \/ SaveFailure(r) \/ CommitFails(r) PROVE Good
  BY <1>b, <1>9 DEF Final, SaveFailure, CommitFails
<1>10. CASE Crash
  BY <1>10 DEF Crash, Fresh, NoDuplicates
<1>11. ASSUME NEW h \in Host, NEW excluded \in BOOLEAN, AddScope(h, excluded) PROVE Good
  BY <1>a, <1>11 DEF AddScope
<1>12. CASE UNCHANGED vars
  BY <1>a, <1>12 DEF vars
<1> QED
  BY <1>1, <1>2, <1>3, <1>4, <1>5, <1>6, <1>7, <1>8, <1>9, <1>10, <1>11, <1>12
  DEF Next, Advance, Disturb

(* However often it is resumed, an assessment stores an item once, as long *)
(* as its runs do not overlap.                                             *)
THEOREM StoredOnce ==
  ASSUME OneAtATime
  PROVE  Spec => []NoDuplicates
<1>1. TypeOK /\ Fresh /\ NoDuplicates /\ [Next]_vars => Fresh' /\ NoDuplicates'
  BY FreshStep
<1> QED
  BY <1>1, FreshInit, TypeCorrect, PTL DEF Spec

-----------------------------------------------------------------------------
(* The row of one run at a time moves forward.                             *)

LEMMA AheadStep ==
  ASSUME OneAtATime, TypeOK, InOrder, SavedByRun, CompletionBacked, Ahead, [Next]_vars
  PROVE  Ahead' /\ progress' >= progress
<1>1. Planned' = Planned /\ saved \subseteq saved'
  BY TargetKept, SavedStep DEF Planned
<1>2. ASSUME NEW r \in Run, Complete(r) PROVE Ahead' /\ progress' >= progress
  BY <1>1, <1>2 DEF Complete, AllDone, SavedByRun, Ahead, TypeOK, RowTypes
<1>3. ASSUME NEW r \in Run, NEW s \in Module, Enter(r, s)
      PROVE  Ahead' /\ progress' >= progress
  <2>1. NextStage(s, saved) /\ progress' = Progress[s] /\ UNCHANGED saved
    BY <1>3 DEF Enter, At, SavedByRun
  <2>2. progress \in 0..100 /\ \A t \in Module : Progress[t] \in 0..100
    BY Modules DEF TypeOK, RowTypes
  <2>3. \A t \in Planned \ saved : Progress[s] <= Progress[t]
    BY <2>1 DEF NextStage, Order, Progress, Planned, Module
  <2> QED
    BY <1>1, <2>1, <2>2, <2>3 DEF Ahead, NextStage
<1>4. CASE UNCHANGED progress
  BY <1>1, <1>4 DEF Ahead, TypeOK, RowTypes
<1> QED BY <1>2, <1>3, <1>4, RowMoves

(* Progress never goes back, resumed or not.                               *)
THEOREM NeverBack ==
  ASSUME OneAtATime
  PROVE  Spec => ProgressForward
<1>1. Init => Ahead /\ CompletionBacked
  <2>1. \A s \in Planned : 0 <= Progress[s]
    BY Modules
  <2> QED BY <2>1 DEF Init, Ahead, CompletionBacked
<1>2. TypeOK /\ InOrder /\ SavedByRun /\ [Next]_vars => SavedByRun'
  BY SavedStep
<1>3. TypeOK /\ InOrder /\ SavedByRun /\ CompletionBacked /\ [Next]_vars => CompletionBacked'
  BY CompletionStep
<1>4. TypeOK /\ InOrder /\ SavedByRun /\ CompletionBacked /\ Ahead /\ [Next]_vars
        => Ahead' /\ progress' >= progress
  BY AheadStep
<1>5. TypeOK /\ InOrder /\ SavedByRun /\ CompletionBacked /\ Ahead /\ [Next]_vars
        => [progress' >= progress]_vars
  BY <1>4
<1> QED
  BY <1>1, <1>2, <1>3, <1>4, <1>5, SavedInit, TypeCorrect, InOrderAlways, PTL
  DEF Spec, ProgressForward

LEMMA PlaceStep ==
  ASSUME OneAtATime, TypeOK, CompletedPlace, [Next]_vars
  PROVE  /\ CompletedPlace'
         /\ status = "COMPLETED" /\ dbErrors = 0 => status' = "COMPLETED"
<1> DEFINE Kept == status = "COMPLETED" /\ dbErrors = 0 => status' = "COMPLETED"
<1> USE DEF rowVars, dataVars, localVars, envVars, Goto
<1>0. PICK r0 \in Run : Run = {r0}
  BY DEF OneAtATime
<1>1. \A r \in Run : status = "COMPLETED" => pc[r] = "idle" \/ pc[r] = "final" \/ dbErrors > 0
  BY DEF CompletedPlace
<1>a. ASSUME UNCHANGED <<status, pc, dbErrors>> PROVE CompletedPlace' /\ Kept
  BY <1>a DEF CompletedPlace, TypeOK, RunTypes
<1>b. ASSUME NEW r \in Run, pc[r] \notin {"idle", "final"}, status' \in {status, "RUNNING", "FAILED"},
             dbErrors' = dbErrors
      PROVE  CompletedPlace' /\ Kept
  <2>1. status = "COMPLETED" => dbErrors > 0 /\ dbErrors' > 0
    BY <1>1, <1>b DEF TypeOK, RunTypes
  <2> QED BY <1>b, <2>1 DEF CompletedPlace
<1>2. ASSUME NEW r \in Run, Load(r) PROVE CompletedPlace' /\ Kept
  BY <1>2 DEF Load, Startable, CompletedPlace
<1>3. ASSUME NEW r \in Run,
             MarkRunning(r) \/ Gate(r) \/ Validate(r) \/ FlushHost(r) \/ ReadKnown(r)
               \/ CommitBaselines(r) \/ Risk(r) \/ Save(r) \/ AnnounceReports(r) \/ Build(r)
               \/ FinishReports(r)
      PROVE  CompletedPlace' /\ Kept
  <2>1. pc[r] \notin {"idle", "final"} /\ status' \in {status, "RUNNING"} /\ dbErrors' = dbErrors
    BY <1>3, Zenon DEF MarkRunning, Gate, Validate, FlushHost, ReadKnown, CommitBaselines, Risk,
                Save, AnnounceReports, Build, FinishReports, ReportsDone
  <2> QED BY <1>b, <2>1 DEF TypeOK, RunTypes
<1>4. ASSUME NEW r \in Run, NEW s \in Module,
             Skip(r, s) \/ Enter(r, s) \/ Scan(r, s) \/ CommitItems(r, s)
      PROVE  CompletedPlace' /\ Kept
  BY <1>b, <1>4 DEF Skip, Enter, Scan, CommitItems, TypeOK, RunTypes
<1>5. ASSUME NEW r \in Run, Complete(r) PROVE CompletedPlace' /\ Kept
  BY <1>0, <1>5 DEF Complete, CompletedPlace, TypeOK, RunTypes
<1>6. ASSUME NEW r \in Run, Final(r) PROVE CompletedPlace' /\ Kept
  BY <1>0, <1>6 DEF Final, Forget, CompletedPlace, TypeOK, RunTypes
<1>7. ASSUME NEW r \in Run, Handle(r) \/ SaveFailure(r) \/ ToolFails(r)
      PROVE  CompletedPlace' /\ Kept
  BY <1>b, <1>7 DEF Handle, SaveFailure, ToolFails, CanRaise, TypeOK, RunTypes
<1>8. ASSUME NEW r \in Run, CheckpointFails(r) \/ CommitFails(r) PROVE CompletedPlace' /\ Kept
  BY <1>8 DEF CheckpointFails, CommitFails, CompletedPlace, TypeOK, RunTypes
<1>9. CASE Crash
  BY <1>9 DEF Crash, CompletedPlace
<1>10. ASSUME NEW h \in Host, NEW excluded \in BOOLEAN, AddScope(h, excluded)
       PROVE  CompletedPlace' /\ Kept
  BY <1>10, <1>a DEF AddScope, TypeOK, RunTypes
<1>11. CASE UNCHANGED vars
  BY <1>11, <1>a DEF vars, TypeOK, RunTypes
<1> QED
  BY <1>2, <1>3, <1>4, <1>5, <1>6, <1>7, <1>8, <1>9, <1>10, <1>11 DEF Next, Advance, Disturb

(* Short of a failed transaction COMPLETED is final.                       *)
THEOREM StaysCompleted ==
  ASSUME OneAtATime
  PROVE  Spec => CompletedStays
<1>1. Init => CompletedPlace
  BY DEF Init, CompletedPlace
<1>2. TypeOK /\ CompletedPlace /\ [Next]_vars => CompletedPlace'
  BY PlaceStep
<1>3. TypeOK /\ CompletedPlace /\ [Next]_vars
        => [status = "COMPLETED" /\ dbErrors = 0 => status' = "COMPLETED"]_vars
  BY PlaceStep
<1> QED
  BY <1>1, <1>2, <1>3, TypeCorrect, PTL DEF Spec, CompletedStays

-----------------------------------------------------------------------------
(* The reports of one run at a time hold all that is stored.               *)

LEMMA ReportsStep ==
  ASSUME OneAtATime, TypeOK, Backed, InOrder, SavedByRun, ReportsWritten, [Next]_vars
  PROVE  ReportsWritten'
<1> USE Modules, BoundsAssumption DEF rowVars, dataVars, localVars, envVars, Goto
<1>0. PICK r0 \in Run : Run = {r0}
  BY DEF OneAtATime
<1> DEFINE Full == \A f \in 1..LastFormat : reports[f] = Stored
<1>1. /\ "report_generation" \in saved => Full
      /\ \A r \in Run : "report_generation" \in done[r] => Full
      /\ \A r \in Run : pc[r] = "build" => \A f \in 1..fmt[r] : reports[f] = Stored
  BY DEF ReportsWritten
<1>2. \A r \in Run : pc[r] # "idle" => saved \subseteq done[r]
  BY DEF SavedByRun
<1>a. ASSUME UNCHANGED <<count, reports, fmt>>,
             "report_generation" \in saved' =>
               "report_generation" \in saved \/ \E r \in Run : "report_generation" \in done[r],
             \A r \in Run : "report_generation" \in done'[r] =>
                              "report_generation" \in done[r] \union saved,
             \A r \in Run : pc'[r] = "build" => pc[r] = "build"
      PROVE  ReportsWritten'
  BY <1>1, <1>a DEF ReportsWritten, Stored
<1>b. ASSUME NEW r \in Run, Forget(r), UNCHANGED <<count, reports>>,
             "report_generation" \in saved' =>
               "report_generation" \in saved \/ "report_generation" \in done[r]
      PROVE  ReportsWritten'
  BY <1>0, <1>1, <1>b DEF Forget, ReportsWritten, Stored, TypeOK, RunTypes
<1>c. ASSUME NEW r \in Run, NEW s \in {"web_security", "tls_security", "nmap_discovery"},
             At(r, s), pc[r] # "idle"
      PROVE  "report_generation" \notin done[r] \union saved
  <2>1. "report_generation" \in Planned /\ Order[s] < Order["report_generation"]
    BY DEF Planned, Module, Order
  <2>2. "report_generation" \notin done[r]
    BY <1>c, <2>1 DEF At, NextStage, InOrder, Ordered, Closed
  <2>3. pc[r] = "idle" \/ "report_generation" \notin saved
    BY <1>2, <2>2
  <2> QED BY <1>c, <2>2, <2>3
<1>3. ASSUME NEW r \in Run, Load(r) PROVE ReportsWritten'
  BY <1>a, <1>3 DEF Load, TypeOK, RunTypes
<1>4. ASSUME NEW r \in Run,
             MarkRunning(r) \/ Gate(r) \/ FlushHost(r) \/ ReadKnown(r) \/ Complete(r)
               \/ ToolFails(r) \/ CheckpointFails(r)
      PROVE  ReportsWritten'
  BY <1>a, <1>4 DEF MarkRunning, Gate, FlushHost, ReadKnown, Complete, ToolFails,
                    CheckpointFails, TypeOK, RunTypes
<1>5. ASSUME NEW r \in Run, NEW s \in Module, MarkDone(r, s), s # "report_generation",
             UNCHANGED <<count, reports, fmt, saved>>, pc' = [pc EXCEPT ![r] = "save"]
      PROVE  ReportsWritten'
  BY <1>a, <1>5 DEF MarkDone, TypeOK, RunTypes
<1>6. ASSUME NEW r \in Run, CommitBaselines(r) \/ Risk(r) PROVE ReportsWritten'
  BY <1>5, <1>6 DEF CommitBaselines, Risk
<1>7. ASSUME NEW r \in Run, NEW s \in Module, Skip(r, s) PROVE ReportsWritten'
  BY <1>5, <1>7 DEF Skip, Skips
<1>8. ASSUME NEW r \in Run, Validate(r) PROVE ReportsWritten'
  <2>1. CASE Validated(r)
    BY <1>5, <1>8, <2>1 DEF Validate
  <2>2. CASE ~Validated(r)
    <3>1. UNCHANGED <<count, reports, fmt, done, saved>>
      BY <1>8, <2>2, Zenon DEF Validate
    <3>2. pc' = [pc EXCEPT ![r] = "failing"]
      BY <1>8, <2>2, Zenon DEF Validate
    <3> QED BY <1>a, <3>1, <3>2 DEF TypeOK, RunTypes
  <2> QED BY <2>1, <2>2
<1>9. ASSUME NEW r \in Run, NEW s \in Module, Enter(r, s) \/ Scan(r, s) PROVE ReportsWritten'
  <2>1. FirstStep(s) # "build"
    BY DEF FirstStep
  <2> QED BY <1>a, <1>9, <2>1 DEF Enter, Scan, TypeOK, RunTypes
<1>10. ASSUME NEW r \in Run, NEW s \in Module, CommitItems(r, s) PROVE ReportsWritten'
  <2>1. "report_generation" \notin done[r] \union saved
    BY <1>10, <1>c DEF CommitItems, InOrder, InPlace
  <2>2. s # "report_generation"
    BY <1>10, <2>1 DEF CommitItems, InOrder, InPlace, At, NextStage, Order, Planned, Module
  <2> QED
    BY <1>0, <1>10, <2>1, <2>2 DEF CommitItems, MarkDone, ReportsWritten, TypeOK, RunTypes
<1>11. ASSUME NEW r \in Run, Handle(r) PROVE ReportsWritten'
  <2>1. CASE pending[r] = {}
    <3>1. count' = count
      BY <1>11, <2>1 DEF Handle, Insert, TypeOK, RowTypes
    <3> QED BY <1>a, <1>11, <3>1 DEF Handle, TypeOK, RunTypes
  <2>2. CASE pending[r] # {}
    <3>1. "report_generation" \notin done[r] \union saved
      BY <1>11, <1>c, <2>2 DEF Handle, InOrder, InPlace
    <3> QED
      BY <1>0, <1>11, <3>1 DEF Handle, ReportsWritten, TypeOK, RunTypes
  <2> QED BY <2>1, <2>2
<1>12. ASSUME NEW r \in Run, Save(r) PROVE ReportsWritten'
  BY <1>a, <1>12 DEF Save, SavedBy, TypeOK, RunTypes
<1>13. ASSUME NEW r \in Run, AnnounceReports(r) PROVE ReportsWritten'
  BY <1>0, <1>1, <1>13 DEF AnnounceReports, SavedBy, ReportsWritten, Stored, TypeOK, RunTypes
<1>14. ASSUME NEW r \in Run, Build(r) PROVE ReportsWritten'
  <2>1. "report_generation" \notin done[r] \union saved
    BY <1>14, <1>2 DEF Build, InOrder, InPlace, At, NextStage
  <2>2. fmt[r] \in 0..LastFormat /\ fmt'[r] = fmt[r] + 1
    BY <1>14 DEF Build, TypeOK, RunTypes
  <2>3. \A f \in 1..fmt'[r] : reports'[f] = Stored
    BY <1>1, <1>14, <2>2 DEF Build, TypeOK, RowTypes
  <2> QED
    BY <1>0, <1>14, <2>1, <2>3 DEF Build, ReportsWritten, Stored
<1>15. ASSUME NEW r \in Run, FinishReports(r) PROVE ReportsWritten'
  <2>1. Full
    BY <1>1, <1>15 DEF FinishReports, ReportsDone
  <2> QED
    BY <1>15, <2>1 DEF FinishReports, ReportsWritten, Stored, TypeOK, RunTypes
<1>16. ASSUME NEW r \in Run, Final(r) PROVE ReportsWritten'
  <2>1. "report_generation" \in done[r]
    BY <1>16 DEF Final, Backed, FinalDone, AllDone, Planned, Module, Order
  <2> QED BY <1>16, <1>b, <2>1 DEF Final
<1>17. ASSUME NEW r \in Run, SaveFailure(r) \/ CommitFails(r) PROVE ReportsWritten'
  BY <1>17, <1>b DEF SaveFailure, CommitFails, SavedBy
<1>18. CASE Crash
  BY <1>1, <1>18 DEF Crash, ReportsWritten, Stored
<1>19. ASSUME NEW h \in Host, NEW excluded \in BOOLEAN, AddScope(h, excluded)
       PROVE  ReportsWritten'
  BY <1>19, <1>a DEF AddScope
<1>20. CASE UNCHANGED vars
  BY <1>20, <1>a DEF vars
<1> QED
  BY <1>3, <1>4, <1>6, <1>7, <1>8, <1>9, <1>10, <1>11, <1>12, <1>13, <1>14, <1>15, <1>16,
     <1>17, <1>18, <1>19, <1>20
  DEF Next, Advance, Disturb

(* A COMPLETED assessment has its reports, and they miss nothing stored.   *)
THEOREM ReportsComplete ==
  ASSUME OneAtATime
  PROVE  Spec => []ReportsCurrent
<1>1. Init => ReportsWritten
  BY DEF Init, ReportsWritten
<1>2. TypeOK /\ InOrder /\ SavedByRun /\ [Next]_vars => SavedByRun'
  BY SavedStep
<1>3. TypeOK /\ Backed /\ InOrder /\ SavedByRun /\ ReportsWritten /\ [Next]_vars
        => ReportsWritten'
  BY ReportsStep
<1>4. CompletionBacked /\ ReportsWritten => ReportsCurrent
  BY DEF CompletionBacked, ReportsWritten, ReportsCurrent, Planned, Module, Order
<1> QED
  BY <1>1, <1>2, <1>3, <1>4, SavedInit, TypeCorrect, BackedAlways, InOrderAlways,
     CompletionSound, PTL
  DEF Spec
=============================================================================
