---------------------------- MODULE MCMeaningStore ----------------------------
(* MeaningStore for TLC.  Values that a run leaves interchangeable are       *)
(* symmetric; scopes are not, since a run may leave one without an anchor.   *)
EXTENDS MeaningStore, TLC

Symmetry == Permutations(Meanings) \cup Permutations(RequestIds)
              \cup Permutations(Contexts) \cup Permutations(Actors)
=============================================================================
