SPECIFICATION StoreSpec
CONSTANTS
  Client = {c1}
  Id = {id1}
  Field = {attributes, traits}
  Key = {k1}
  Val = {v1}
  Tag = {t1}
  ScalarConcat = TRUE
  None = None
  Stored <- NoRows
  Requests <- MapperRequests
  TagSets <- OneTag
  Faults <- NoFaults
PROPERTY KeysKept
