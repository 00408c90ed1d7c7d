\* Development thresholds (three sessions); an anchored scope beside one without
\* an anchor, and batches that span both.
SPECIFICATION StoreSpec
CONSTANTS
  Scopes = {g1, g2}
  Unscoped = {g2}
  Meanings = {m1}
  RequestIds = {i1, i2, i3}
  Contexts = {c1, c2, c3}
  Actors = {a1, a2, a3}
  MinEvidence = 3
  MinActors = 3
  MaxRevisions = 7
SYMMETRY Symmetry
INVARIANTS
  SharedOnIndependentEvidence
CHECK_DEADLOCK FALSE
