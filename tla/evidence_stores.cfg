SPECIFICATION MCSpec
CONSTANTS
  Files = {f1, f2}
  Workers = {w1, w2}
  Users = {u1}
  Nobody = Nobody
  Reasons <- TwoReasons
  ScopeWorkers = {v1, v2}
  Assessments = {a1, a2}
  Tools = {t1, t2}
  People = {p1}
SYMMETRY Symmetry
INVARIANTS
  RowsHaveFiles
  FilesHaveRows
  ApprovalColumnsAgree
  AssessmentsAreAsChosen
PROPERTIES
  RemovedStaysRemoved
CHECK_DEADLOCK FALSE
