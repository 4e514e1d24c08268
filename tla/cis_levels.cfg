SPECIFICATION Spec
CONSTANTS
  Groups = {g1, g2}
  Texts = {t1, t2}
  Marks <- MCMarks
  MaxRows = 3
SYMMETRY Symmetry
INVARIANTS
  LevelOneMeansAll
CHECK_DEADLOCK FALSE
