SPECIFICATION MCSpec
CONSTANTS
  Workers = {w1, w2}
  Tools = {"tool"}
  SeedData <- MCSeedData
  Uploads <- MCUploads
  MaxRequests = 4
  Groups = {g1, g2}
  Texts = {t1, t2}
  Marks <- MCMarks
  MaxRows = 3
  Controls = {c1, c2}
  ReportTools = {tool1, tool2}
  Tags = {tag1, tag2}
  Overrides <- SomeOverrides
  Horizon = 1
SYMMETRY Symmetry
INVARIANTS
  RowsAreUniqueUnlessRaced
  FrameworksAreWhole
  CrosswalkIsComplete
  WorkbooksAreFiled
  ScoreIsMean
  NothingLeftToRecommend
  CrosswalkPredictsReport
PROPERTIES
  ReseedingIsIdle
  MoreToolsNeverWorsen
CHECK_DEADLOCK FALSE
