SPECIFICATION FairStoreSpec
CONSTANTS
  Client = {c1, c2, c3}
  Id = {id1}
  Field = {traits}
  Key = {k1}
  Val = {v1, v2}
  Tag = {t1}
  ScalarConcat = TRUE
  None = None
  Stored <- NoRows
  Requests <- AllRequests
  TagSets <- OneTag
  Faults <- AllFaults
INVARIANTS TypeOK HeldFreshUnlessRaced CoherentUnlessRaced
PROPERTIES EventuallyCoherent KeysLostToNil
