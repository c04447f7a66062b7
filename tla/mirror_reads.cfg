CONSTANTS
  Request = {r1}
  Key = {k1, k2, k3}
  NetworkId = {n1, n2, n3}
  OrgOf <- Owner
  InventoryDocs <- Inventories
  MetricsDocs <- Metrics
  switch = switch
  online = online
  Ephemeral = {k3}
  HitCap = 1
  Org = {ours, theirs}
  TwinOrg = ours
  ProductType = {switch}
  Status = {online}
  NoDoc = NoDoc
  None = None
  k1 = k1
  k2 = k2
  k3 = k3
  n1 = n1
  n2 = n2
  n3 = n3
  ours = ours
  theirs = theirs
SPECIFICATION Spec
INVARIANT TypeOK
INVARIANT AnswersAreExact
INVARIANT ListsMeetFilters
INVARIANT ListsStayInOrg
