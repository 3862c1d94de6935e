SPECIFICATION FairSpec
CONSTANTS
  web = web
  api = api
  Flow = {f1}
  Manager = {web, api}
  Server = web
  Types <- TypesOf
  Domain = {d1}
  Authz = {a1, a2}
  Environments <- FewOffers
  None = None
PROPERTIES FlowReturns
