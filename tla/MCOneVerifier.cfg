SPECIFICATION Spec
CONSTANTS
  web = web
  api = api
  k1 = k1
  Slot = {web}
  CertKey = {k1}
  KeyOf <- OneSlot
  Permitted = {web}
  Call = {c1, c2, c3}
  State = {a1, a2, a3, a4}
  PrivKey = {p1, p2, p3}
  None = None
  Failed = Failed
  Lifetimes = {4}
  RenewBefore = 2
  RenewJitter = 1
  CacheMayFail = FALSE
  MaxLate = 0
  MaxTime = 0
SYMMETRY Symmetry
VIEW View
INVARIANTS OneVerifier
CHECK_DEADLOCK FALSE
