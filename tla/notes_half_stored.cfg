SPECIFICATION Spec
CONSTANTS
  Assessments = {a1}
  Controls = {c1}
  Workers = {w1}
  Overrides <- TwoOverrides
  Reviews <- TwoReviews
SYMMETRY Symmetry
INVARIANTS
  DoneMeansStored
CHECK_DEADLOCK FALSE
