SPECIFICATION GovernanceSpec
CONSTANTS
  c1 = c1
  c2 = c2
  c3 = c3
  Columns = {c1, c2, c3}
  ColumnPairs <- TwoPairs
  TagNames = {"pii"}
  AssignedTags = {"pii"}
  Handlings <- SomeHandlings
  Spellings = {TRUE, FALSE}
  MaxPolicies = 1
  PoliciesGiven = FALSE
INVARIANT GovernedIsTransformed
CHECK_DEADLOCK FALSE
