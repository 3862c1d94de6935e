SPECIFICATION FairSpec
CONSTANTS
  web = web
  api = api
  c1 = c1
  c2 = c2
  c3 = c3
  Manager = {web, api}
  Call = {c1, c2, c3}
  ManagerOf <- AlsoOfAPI
  Key = {k1, k2, k3, k4, k5}
  None = None
  Invalid = Invalid
  ReadMayFail = FALSE
  WriteMayFail = TRUE
  CAMayFail = TRUE
  Old = {k1, Invalid}
  MaxLate = 1
INVARIANTS TypeOK FewAccountsLost
PROPERTIES CallReturns
