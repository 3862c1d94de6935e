SPECIFICATION Spec
CONSTANTS
  web = web
  api = api
  Flow = {f1, f2}
  Manager = {web, api}
  Server = web
  Types <- TypesOf
  Domain = {d1}
  Authz = {a1, a2}
  Environments <- AnyEnvironment
  None = None
SYMMETRY Symmetry
VIEW View
INVARIANTS TypeOK AloneIsServed TokensHaveCleanup PendingIsRelinquished
