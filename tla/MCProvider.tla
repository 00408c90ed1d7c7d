------------------------------ MODULE MCProvider ------------------------------
(* Provider for TLC. *)
EXTENDS Provider, TLC

Symmetries == Permutations(Calls) \cup Permutations(Users)
=============================================================================
