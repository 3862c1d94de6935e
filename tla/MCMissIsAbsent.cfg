SPECIFICATION Spec
CONSTANTS
  web = web
  api = api
  c1 = c1
  c2 = c2
  c3 = c3
  Manager = {web}
  Call = {c1, c2}
  ManagerOf <- BothOfWeb
  Key = {k1, k2}
  None = None
  Invalid = Invalid
  ReadMayFail = TRUE
  WriteMayFail = FALSE
  CAMayFail = FALSE
  Old = {k1, Invalid}
  MaxLate = 0
INVARIANTS MissIsAbsent
