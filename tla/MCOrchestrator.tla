--------------------------- MODULE MCOrchestrator ---------------------------
(* Instances of Orchestrator for TLC.                                      *)
EXTENDS Orchestrator

Kind(url, https, ip, extended) ==
  [url |-> url, https |-> https, ip |-> ip, extended |-> extended]

\* Every stage; a plain web target; a host without a URL; neither.
AllTargets ==
  {Kind(TRUE, TRUE, TRUE, TRUE), Kind(TRUE, FALSE, FALSE, FALSE),
   Kind(FALSE, FALSE, TRUE, FALSE), Kind(FALSE, FALSE, FALSE, FALSE)}
=============================================================================
