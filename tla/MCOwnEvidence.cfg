\* One request at a time and no administrator: whatever changes the store is the
\* request's own evidence.
SPECIFICATION Spec
CONSTANTS
  Slots = {p1}
  NoRevision = NoRevision
  Scopes = {g1, g2}
  Unscoped = {}
  Meanings = {m1}
  RequestIds = {i1, i2, i3}
  Contexts = {c1, c2, c3}
  Actors = {a1, a2}
  MinEvidence = 3
  MinActors = 2
  MaxRevisions = 0
SYMMETRY Symmetry
INVARIANT
  OwnEvidenceKeepsResult
CHECK_DEADLOCK FALSE
