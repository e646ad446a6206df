SPECIFICATION FairIngestSpec
CONSTANTS
  external_ids = external_ids
  attributes = attributes
  traits = traits
  uid = uid
  idfa = idfa
  gaid = gaid
  last_ad_source = last_ad_source
  install_source = install_source
  has_purchase = has_purchase
  vip = vip
  ads = ads
  installs = installs
  bills = bills
  tags = tags
  fromA = fromA
  tagged = tagged
  buyers = buyers
  hand = hand
  broken = broken
  Field = {external_ids, attributes, traits}
  Key = {uid, idfa, gaid, last_ad_source, install_source, has_purchase}
  Val <- Values
  Tag = {vip}
  ScalarConcat = TRUE
  None = None
  ExternalIDs = external_ids
  Attributes = attributes
  Traits = traits
  Uid = uid
  Idfa = idfa
  Gaid = gaid
  KeyOrder <- SortedKeys
  LastAdSource = last_ad_source
  InstallSource = install_source
  HasPurchase = has_purchase
  Spelling <- Spellings
  True <- yes
  Empty <- none
  Id <- IdsOfLog
  Topic = {ads, tags}
  Kind <- KindsOf
  Log <- AdsAndTag
  Audience = {tagged, hand}
  Dynamic = {tagged}
  Estimated = {tagged, hand}
  Estimator = FALSE
  Match <- TreeMatch
  Counted = "purchase"
  Faults <- AllFaults
  Others <- NoOne
  OtherRequests <- Touch
  OtherTags <- Retag
  MaxEvents = 2
  MaxOthers = 0
  MaxStops = 1
INVARIANTS IngestTypeOK MembersHadCause SettledUnlessDisturbed OneLostPerStop
PROPERTIES CommittedIsFinal StopsWhenTold
\* The service waits for messages.
CHECK_DEADLOCK FALSE
