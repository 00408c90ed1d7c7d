--------------------------- MODULE MCMeaningRequests --------------------------
(* MeaningRequests for TLC.                                                  *)
EXTENDS MeaningRequests, TLC

Symmetry == Permutations(Slots) \cup Permutations(Meanings)
              \cup Permutations(RequestIds) \cup Permutations(Contexts)
              \cup Permutations(Actors)
=============================================================================
