SPECIFICATION MCSpec
CONSTANTS
  s1 = s1
  s2 = s2
  ann = ann
  Workers = {w1, w2}
  Subjects = {s1, s2}
  Addresses = {ann}
  AddressOf <- MCAddressOf
  Names = {"ann", "bob"}
  Mails = {ann}
  NamesOf <- MCNamesOf
  DefaultRole = "other"
  MaxAccounts = 2
  Secrets = {y1, y2, y3}
  FactorWorkers = {v1, v2, v3}
SYMMETRY Symmetry
INVARIANTS
  AdministratorRemains
  SetupIsForTheFirst
  OneAccountPerSubject
  SignedInAsOneself
  EnabledSecretIsProven
CHECK_DEADLOCK FALSE
