SPECIFICATION MCSpec
CONSTANTS
  Rfis = {r1}
  Workers = {w1, w2, w3}
  MaxResponses = 3
  Findings = {f1}
  FindingWorkers = {v1, v2}
  Controls = {c1}
  NoteWorkers = {u1, u2}
  Assessments = {a1, a2}
  Overrides = {"covered"}
  Reviews = {"approved"}
SYMMETRY Symmetry
INVARIANTS
  AnsweredAdvances
  RespondedIsExplained
  ClosedHasDate
  DatedUnlessReopened
  OverridesAreTraceable
PROPERTIES
  ReviewsStand
CHECK_DEADLOCK FALSE
