----------------------------- MODULE MCVaultView -----------------------------
(* VaultView for TLC.  Trees and mutations are interchangeable.            *)
EXTENDS VaultView, TLC

Symmetry == Permutations(Vaults) \union Permutations(Ops)
=============================================================================
