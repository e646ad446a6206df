SPECIFICATION MergeSpec
CONSTANTS
  a = a
  b = b
  c = c
  k1 = k1
  k2 = k2
  v1 = v1
  e1 = e1
  e2 = e2
  Client = {c1, c2}
  Id = {a, b, c}
  Field = {external_ids}
  ExternalIDs = external_ids
  Key = {k1, k2}
  Val = {v1}
  Tag = {t1}
  ScalarConcat = TRUE
  None = None
  Stored <- ThreeDevices
  MergePairs <- FanIn
  Written <- OnlyA
  Requests <- SetK1
  TagSets <- OneTag
  Faults <- AllFaults
  Event = {e1, e2}
  StoredEvents <- OldEvent
INVARIANTS MergeTypeOK CoherentUnlessRaced
PROPERTIES KeysKept IdentityKept TagsKept NoEventOrphaned
