\* Production thresholds; two meanings compete in one anchored scope.
SPECIFICATION StoreSpec
CONSTANTS
  Scopes = {g1}
  Unscoped = {}
  Meanings = {m1, m2}
  RequestIds = {i1, i2, i3}
  Contexts = {c1, c2, c3}
  Actors = {a1, a2}
  MinEvidence = 3
  MinActors = 2
  MaxRevisions = 12
SYMMETRY Symmetry
INVARIANTS
  CompetingQuarantined
  SharedOnIndependentEvidence
PROPERTIES
  ImplementsSharedMeanings
  TombstonePermanent
CHECK_DEADLOCK FALSE
