SPECIFICATION FairSpec
CONSTANTS
  web = web
  api = api
  k1 = k1
  Slot = {web}
  CertKey = {k1}
  KeyOf <- OneSlot
  Permitted = {web}
  Call = {c1, c2}
  State = {a1, a2, a3}
  PrivKey = {p1, p2}
  None = None
  Failed = Failed
  Lifetimes = {3}
  RenewBefore = 2
  RenewJitter = 1
  CacheMayFail = FALSE
  MaxLate = 0
  MaxTime = 1
INVARIANTS TypeOK LockedHasOwner FailedIsScheduled
PROPERTIES KeyStable CallReturns FailedIsForgotten
CHECK_DEADLOCK FALSE
