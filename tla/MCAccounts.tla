------------------------------ MODULE MCAccounts ------------------------------
(* Accounts for TLC. *)
EXTENDS Accounts, TLC

Symmetry == Permutations(Users) \cup Permutations(Logins) \cup Permutations(Requests)
              \cup Permutations(Workers)
=============================================================================
