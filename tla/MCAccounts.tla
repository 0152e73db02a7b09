----------------------------- MODULE MCAccounts -----------------------------
(* Small instances of Accounts. *)
EXTENDS Accounts, TLC

Symmetry == Permutations(Users) \union Permutations(Browsers) \union Permutations(Requests)
=============================================================================
