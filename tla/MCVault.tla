------------------------------- MODULE MCVault -------------------------------
(* Vault for TLC: accounts and slots are interchangeable. *)
EXTENDS Vault, TLC

Symmetry == Permutations(Accounts) \cup Permutations(Slots)
=============================================================================
