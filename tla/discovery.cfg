SPECIFICATION MCSpec
CONSTANTS
  Procs = {n1}
  Callers = {k1, k2}
  Issuers = {i1, i2}
  EnvIssuer = i1
  MaxVersion = 1
  Groups = {"smtp", "oidc"}
  Workers = {w1, w2}
  Targets = {"here"}
  Texts = {"x"}
  MaxKey = 2
  Requests = {r1, r2, r3, r4}
  PoolSize = 2
  Threads = 3
  Nobody = Nobody
SYMMETRY Symmetry
INVARIANTS
  DocIsOfIssuer
  QuietInvalidation
  ReturnsDocument
  SettingsAreAsSaved
  ConnectionsComeBack
