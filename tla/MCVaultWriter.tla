---------------------------- MODULE MCVaultWriter ----------------------------
(* VaultWriter on small instances: the .cfg files choose the sets and bounds. *)
EXTENDS VaultWriter, TLC

CONSTANTS p1, p2

Symmetry == Permutations(Procs)
=============================================================================
