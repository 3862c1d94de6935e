SPECIFICATION Spec
CONSTANTS
  web = web
  api = api
  k1 = k1
  Slot = {web, api}
  CertKey = {k1}
  KeyOf <- TwoSlots
  Permitted = {api}
  Call = {c1}
  State = {a1, a2, a3}
  PrivKey = {p1, p2}
  None = None
  Failed = Failed
  Lifetimes = {5, 6}
  RenewBefore = 2
  RenewJitter = 1
  CacheMayFail = TRUE
  MaxLate = 1
  MaxTime = 4
SYMMETRY Symmetry
VIEW View
INVARIANTS KeysMatch ServedIsRenewed RefusedHostNeverBlocks
PROPERTIES RenewalInTime NoDowngrade KeyStable
CHECK_DEADLOCK FALSE
