---------------------------- MODULE MCToolInstall ----------------------------
(* Instances of ToolInstall for TLC.                                       *)
EXTENDS ToolInstall
=============================================================================
