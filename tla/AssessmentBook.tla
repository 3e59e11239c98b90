---------------------------- MODULE AssessmentBook ----------------------------
(* What the service promises about assessments, told by themselves and not *)
(* by the ids their rows have: each is opened once, is completed only when *)
(* its scan is stored and its report is there, and when it is deleted all  *)
(* that was kept of it goes with it and never comes back.                  *)

CONSTANT Assessment

VARIABLES
  opened,    \* those ever made
  there,     \* those that have a row
  scanned,   \* those whose scan is stored
  reported,  \* those a report is served of
  completed  \* those that say so

bookVars == <<opened, there, scanned, reported, completed>>

BookInit ==
  opened = {} /\ there = {} /\ scanned = {} /\ reported = {} /\ completed = {}

Open(n) ==
  /\ n \notin opened
  /\ opened' = opened \union {n} /\ there' = there \union {n}
  /\ UNCHANGED <<scanned, reported, completed>>

Keep(n) ==
  /\ n \in there
  /\ scanned' = scanned \union {n}
  /\ UNCHANGED <<opened, there, reported, completed>>

Present(n) ==
  /\ n \in there
  /\ reported' = reported \union {n}
  /\ UNCHANGED <<opened, there, scanned, completed>>

Close(n) ==
  /\ n \in scanned \intersect reported
  /\ completed' = completed \union {n}
  /\ UNCHANGED <<opened, there, scanned, reported>>

\* A second run, on its way before the first one ended, fails.
Reopen(n) ==
  /\ completed' = completed \ {n}
  /\ UNCHANGED <<opened, there, scanned, reported>>

Drop(those) ==
  /\ there' = there \ those /\ scanned' = scanned \ those
  /\ reported' = reported \ those /\ completed' = completed \ those
  /\ UNCHANGED opened

BookNext ==
  \/ \E n \in Assessment : Open(n) \/ Keep(n) \/ Present(n) \/ Close(n) \/ Reopen(n)
  \/ \E those \in SUBSET there : Drop(those)

BookSpec == BookInit /\ [][BookNext]_bookVars

\* What follows for whoever reads the book.
Consistent ==
  /\ completed \subseteq scanned \intersect reported
  /\ scanned \union reported \subseteq there
  /\ there \subseteq opened
=============================================================================
