SPECIFICATION Spec
CONSTANTS
  d1 = d1
  d2 = d2
  Domain = {d1, d2}
  Whitelist = {}
  Validation = {v1, v2}
  None = None
  MaxOrders = 2
  MaxCerts = 3
SYMMETRY Symmetry
INVARIANTS TypeOK JudgedByValidation CertificatesGood PendingIsOpen
PROPERTIES OrdersGoForward
