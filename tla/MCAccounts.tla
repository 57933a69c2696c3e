----------------------------- MODULE MCAccounts -----------------------------
(* Accounts on a small instance. *)
EXTENDS Accounts, TLC

Symmetry == Permutations(Threads) \cup Permutations(Emails) \cup Permutations(Words)
=============================================================================
