SPECIFICATION Spec
CONSTANTS
  Users = {u1, u2}
  Workers = {w1, w2}
  Assessments = {a1, a2}
  Nobody = Nobody
  NoAssessment = NoAssessment
  RoleChoices <- AdminAndContributor
  MaxSignoffs = 2
SYMMETRY Symmetry
INVARIANTS
  StatusIsLastSignoff
  DecisionsFollowSubmission
  SignedWithAuthority
  LogReportsCommitted
PROPERTIES
  TrailSpec
CHECK_DEADLOCK FALSE
