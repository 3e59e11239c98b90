------------------------ MODULE MCAssessmentService ------------------------
(* Instances of AssessmentService for TLC.                                 *)
EXTENDS AssessmentService, TLC

Symmetry == Permutations(Client)
=============================================================================
