SPECIFICATION CondSpec
CONSTANTS
  age = age
  vip = vip
  purchase = purchase
  Field = {traits, attributes}
  Traits = traits
  Attributes = attributes
  Key = {age}
  Val <- Values
  Tag = {vip}
  ScalarConcat = TRUE
  None = None
  MaxDepth = 2
  DefaultDays = 30
  Condition <- Trees
  Height <- HeightOf
  Profiles <- People
  Histories <- Pasts
INVARIANT VerdictIsTruth
\* A condition is parsed and evaluated once, or rejected.
CHECK_DEADLOCK FALSE
