\* A segment's result left by an outage of SQL.
SPECIFICATION Spec
CONSTANTS
  Entries = {e1}
  Workers = {k1}
  Admins = {a1}
  Requests = {q1}
  None = None
  MaxVersion = 1
  MaxRevision = 1
SYMMETRY Symmetry
PROPERTIES
  SegmentsUseTheData
CHECK_DEADLOCK FALSE
