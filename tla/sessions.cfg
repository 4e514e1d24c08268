SPECIFICATION Spec
CONSTANTS
  Admins = {a1, a2}
  Clients = {k1}
  Sessions = {s1, s2}
  Passwords = {p1}
  OidcOnly = "oidc-only"
  MaxVersion = 2
  MaxAccounts = 2
SYMMETRY Symmetry
INVARIANTS
  BumpedSessionsRefused
CHECK_DEADLOCK FALSE
