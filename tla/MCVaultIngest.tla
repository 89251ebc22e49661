----------------------------- MODULE MCVaultIngest -----------------------------
(***************************************************************************)
(* Instances of VaultIngest for TLC.                                       *)
(***************************************************************************)
EXTENDS VaultIngest, TLC

Symmetry == Permutations(Clients) \cup Permutations(Keys) \cup Permutations(Contents)
==============================================================================
