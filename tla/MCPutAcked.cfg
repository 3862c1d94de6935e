SPECIFICATION Spec
CONSTANTS
  txt = txt
  cert = cert
  Req = {r1, r2}
  Name = {txt, cert}
  Value = {v1, v2}
  Absent = Absent
  Failed = Failed
  Canceled = Canceled
  None = None
  Partial = Partial
  DirCacheName = {cert}
  IOMayFail = TRUE
SYMMETRY Symmetry
INVARIANTS AckedIsWritten
