SPECIFICATION Spec
CONSTANTS
  h1 = h1
  t1 = t1
  v4 = v4
  v6 = v6
  Update = {u1, u2}
  Query = {q1}
  Host = {h1}
  ChallengeName = {t1}
  HostList <- HostAndChallenge
  Address = {v4, v6}
  V4 = {v4}
  AddressList <- OneFamily
  Token = {k1}
  None = None
  MaxHosts = 2
  IOMayFail = TRUE
  MaxLate = 1
SYMMETRY Symmetry
INVARIANTS TypeOK AckedIsStored NoChangeIsTrue AnswerWasTrue EveryNameAnswered
