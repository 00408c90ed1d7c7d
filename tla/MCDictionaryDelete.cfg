\* A deleted entry whose export failed, with SQL ready.
SPECIFICATION Spec
CONSTANTS
  Entries = {e1}
  Workers = {k1}
  Admins = {a1}
  Requests = {q1}
  None = None
  MaxVersion = 2
  MaxRevision = 1
SYMMETRY Symmetry
PROPERTIES
  SqlIsSourceWhenReady
CHECK_DEADLOCK FALSE
