SPECIFICATION FairExportSpec
CONSTANTS
  Id <- Audience
  Requested = 4
  MaxLimit = 3
  DefaultLimit = 2
  Faults <- AllFaults
INVARIANTS ExportTypeOK StayersDelivered PrefixDelivered CountIsExact
PROPERTIES KeepsPromise ExportEnds
