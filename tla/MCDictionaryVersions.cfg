\* Further instance: two changes of one entry by one administrator, and a request.
SPECIFICATION Spec
CONSTANTS
  Entries = {e1}
  Workers = {k1}
  Admins = {a1}
  Requests = {q1}
  None = None
  MaxVersion = 2
  MaxRevision = 2
SYMMETRY Symmetry
VIEW View
INVARIANTS
  LabelsHonest
PROPERTIES
  AnswersReflectPublished
CHECK_DEADLOCK FALSE
