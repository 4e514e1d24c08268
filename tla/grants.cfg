SPECIFICATION Spec
CONSTANTS
  Shares = {s1}
  Tokens = {t1}
  Invites = {i1}
  Workers = {w1, w2, w3}
  Assessment = Assessment
  Holder = Holder
  Null = Null
  MaxNow = 2
  InviteTime = 1
  MaxGrants = 1
  MaxUses = 3
SYMMETRY Symmetry
INVARIANTS
  ShutGrantsFallSilent
  UsesLeaveTraces
PROPERTIES
  RevocationIsFinal
CHECK_DEADLOCK FALSE
