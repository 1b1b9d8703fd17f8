----------------------------- MODULE MCVaultAccess -----------------------------
(* Instances of VaultAccess for TLC.                                       *)
EXTENDS VaultAccess, TLC

Symmetry == Permutations(Callers) \cup Permutations(Sessions) \cup Permutations(Keys)
=============================================================================
