SPECIFICATION IngestSpec
CONSTANTS
  external_ids = external_ids
  attributes = attributes
  traits = traits
  uid = uid
  idfa = idfa
  gaid = gaid
  last_ad_source = last_ad_source
  install_source = install_source
  has_purchase = has_purchase
  vip = vip
  ads = ads
  installs = installs
  bills = bills
  tags = tags
  fromA = fromA
  tagged = tagged
  buyers = buyers
  hand = hand
  broken = broken
  Field = {external_ids, attributes, traits}
  Key = {uid, idfa, gaid, last_ad_source, install_source, has_purchase}
  Val <- Values
  Tag = {vip}
  ScalarConcat = TRUE
  None = None
  ExternalIDs = external_ids
  Attributes = attributes
  Traits = traits
  Uid = uid
  Idfa = idfa
  Gaid = gaid
  KeyOrder <- SortedKeys
  LastAdSource = last_ad_source
  InstallSource = install_source
  HasPurchase = has_purchase
  Spelling <- Spellings
  True <- yes
  Empty <- none
  Id <- IdsOfLog
  Topic = {installs}
  Kind <- KindsOf
  Log <- OneInstall
  Audience = {tagged}
  Dynamic = {tagged}
  Estimated = {}
  Estimator = FALSE
  Match <- TreeMatch
  Counted = "purchase"
  Faults <- NoFaults
  Others <- NoOne
  OtherRequests <- Touch
  OtherTags <- Retag
  MaxEvents = 1
  MaxOthers = 0
  MaxStops = 0
INVARIANT NoneLost
\* The service waits for messages.
CHECK_DEADLOCK FALSE
