----------------------------- MODULE MCDivaAnalysis -----------------------------
(***************************************************************************)
(* Instances of DivaAnalysis for TLC.                                      *)
(***************************************************************************)
EXTENDS DivaAnalysis, TLC
==============================================================================
