----------------------------- MODULE MCDvigOutbox -----------------------------
(***************************************************************************)
(* Instances of DvigOutbox for TLC.                                        *)
(***************************************************************************)
EXTENDS DvigOutbox, TLC

\* Workers and clients are interchangeable: sound for safety only.
Symmetry == Permutations(Workers) \cup Permutations(Clients)
==============================================================================
