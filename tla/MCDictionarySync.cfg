\* Two administrators and one request on a worker: every interleaving of a change,
\* its publications or failures, and a request with its caches.
SPECIFICATION Spec
CONSTANTS
  Entries = {e1}
  Workers = {k1}
  Admins = {a1, a2}
  Requests = {q1}
  None = None
  MaxVersion = 1
  MaxRevision = 2
SYMMETRY Symmetry
VIEW View
INVARIANTS
  LabelsHonest
  StatusTruthful
PROPERTIES
  AnswersReflectPublished
  ExportNeverGoesBack
CHECK_DEADLOCK FALSE
