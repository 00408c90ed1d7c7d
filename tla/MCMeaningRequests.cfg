\* Two requests at a time over one scope; a low threshold so that rows are shared,
\* contested, confirmed and revoked while both are in flight, and fairness (no
\* symmetry, as TLC requires with liveness).
SPECIFICATION FairSpec
CONSTANTS
  Slots = {p1, p2}
  NoRevision = NoRevision
  Scopes = {g1}
  Unscoped = {}
  Meanings = {m1, m2}
  RequestIds = {i1, i2}
  Contexts = {c1}
  Actors = {a1}
  MinEvidence = 1
  MinActors = 1
  MaxRevisions = 5
INVARIANTS
  FenceGuardsRows
PROPERTY
  AnswersOnlySharedMeanings
  RequestsAnswered
CHECK_DEADLOCK FALSE
