SPECIFICATION FairIngestSpec
CONSTANTS
  external_ids = external_ids
  attributes = attributes
  traits = traits
  uid = uid
  idfa = idfa
  gaid = gaid
  last_ad_source = last_ad_source
  install_source = install_source
  has_purchase = has_purchase
  vip = vip
  ads = ads
  installs = installs
  bills = bills
  tags = tags
  fromA = fromA
  tagged = tagged
  buyers = buyers
  hand = hand
  broken = broken
  Field = {external_ids, attributes, traits}
  Key = {uid, idfa, gaid, last_ad_source, install_source, has_purchase}
  Val <- Values
  Tag = {vip}
  ScalarConcat = TRUE
  None = None
  ExternalIDs = external_ids
  Attributes = attributes
  Traits = traits
  Uid = uid
  Idfa = idfa
  Gaid = gaid
  KeyOrder <- SortedKeys
  LastAdSource = last_ad_source
  InstallSource = install_source
  HasPurchase = has_purchase
  Spelling <- Spellings
  True <- yes
  Empty <- none
  Id <- IdsOfLog
  Topic = {ads}
  Kind <- KindsOf
  Log <- OnlyAds
  Audience = {fromA, buyers, tagged, broken}
  Dynamic = {fromA, buyers, tagged, broken}
  Estimated = {fromA, broken}
  Estimator = TRUE
  Match <- TreeMatch
  Counted = "purchase"
  Faults <- NoFaults
  Others <- AllOthers
  OtherRequests <- Touch
  OtherTags <- Retag
  MaxEvents = 2
  MaxOthers = 1
  MaxStops = 0
INVARIANTS SettledUnlessDisturbed OwnIds
PROPERTY Drained
\* The service waits for messages.
CHECK_DEADLOCK FALSE
