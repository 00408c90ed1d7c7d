\* Two administrators publish at the same time, with failures and crashes.
SPECIFICATION Spec
CONSTANTS
  Entries = {e1, e2}
  Workers = {k1}
  Admins = {a1, a2}
  Requests = {}
  None = None
  MaxVersion = 2
  MaxRevision = 2
SYMMETRY Symmetry
VIEW View
INVARIANTS
  StatusTruthful
PROPERTIES
  ExportNeverGoesBack
CHECK_DEADLOCK FALSE
