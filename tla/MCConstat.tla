------------------------------- MODULE MCConstat -------------------------------
(***************************************************************************)
(* Instances of Constat for TLC.                                           *)
(***************************************************************************)
EXTENDS Constat, TLC

\* Sound for safety only.
Symmetry == Permutations(Pairs) \cup Permutations(Ids) \cup Permutations(Runners)
==============================================================================
