----------------------------- MODULE MCModeration -----------------------------
(* Moderation for TLC: two calls that may overlap.  The seed file gives every *)
(* token the meaning SeedMeaning and the alternatives SeedAlso.               *)
EXTENDS Moderation, TLC

CONSTANTS SeedMeaning, SeedAlso

SeedFile == [k \in Keys |-> [expanded |-> SeedMeaning, alternatives |-> SeedAlso]]
\* Of a run that does not ask about removals, they are no part of the state.
View == <<pending, entries, exported, replays, call, made, raced, released>>

Symmetry == Permutations(Sessions) \cup Permutations(Workers)
=============================================================================
