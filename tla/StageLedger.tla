----------------------------- MODULE StageLedger -----------------------------
(* What an assessment promises whoever resumes it: the stages planned for  *)
(* it become durable one at a time and in order, none is ever forgotten,   *)
(* and completion is announced only when all of them are durable.          *)
EXTENDS Naturals

CONSTANT Order  \* the place of each stage, as a function to numbers

VARIABLES
  planned,   \* the stages this assessment goes through
  durable,   \* the stages a resumed run will not repeat
  announced  \* the completion has been recorded

ledgerVars == <<planned, durable, announced>>

LedgerInit ==
  /\ planned \subseteq DOMAIN Order
  /\ durable = {}
  /\ announced = FALSE

Record(s) ==
  /\ s \in planned \ durable
  /\ \A t \in planned : Order[t] < Order[s] => t \in durable
  /\ durable' = durable \union {s}
  /\ UNCHANGED <<planned, announced>>

Announce ==
  /\ durable = planned
  /\ announced' = TRUE
  /\ UNCHANGED <<planned, durable>>

LedgerNext == Announce \/ \E s \in DOMAIN Order : Record(s)

LedgerSpec == LedgerInit /\ [][LedgerNext]_ledgerVars
=============================================================================
