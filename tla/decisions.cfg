SPECIFICATION Spec
CONSTANTS
  k1 = k1
  k2 = k2
  k3 = k3
  k4 = k4
  NumTables = 3
  ForeignKeys = {k1, k2, k3, k4}
  LastTable = 1
  MaxRows = 5
  BatchSize = 2
  SampleLimit = 3
  Relationships <- SomeRelationships
  Root = 1
  MaxDepth = 3
  NumBaselines = 3
  c1 = c1
  c2 = c2
  c3 = c3
  Columns = {c1, c2, c3}
  ColumnPairs <- TwoPairs
  TagNames = {"pii"}
  AssignedTags = {"pii"}
  Handlings <- SomeHandlings
  Spellings = {TRUE}
  MaxPolicies = 3
  PoliciesGiven = TRUE
  app = app
  orders = orders
  report = report
  orderId = orderId
  reportId = reportId
  orderKey = orderKey
  Objects = {app, orders, report, orderId, reportId, orderKey}
  Kind <- SomeKinds
  Refers <- SomeReferences
  Ingestions = {i1}
  GrowsWhileListed = FALSE
INVARIANT TypeOK
INVARIANT ReferencedFirst
INVARIANT FailureCleansUp
INVARIANT AssetsAreComplete
INVARIANT PlanIsNeighbourhood
INVARIANT SelectionAgrees
INVARIANT ReadyIsConsistent
INVARIANT CatalogResolves
 
CHECK_DEADLOCK FALSE
