\* Every kind of stop and fault, a prefetch window smaller than the queue.
SPECIFICATION FairSpec
CONSTANTS
  MaxPublished = 3
  NumRules = 3
  Prefetch = 2
  MaxStops = 1
  MaxFaults = 2
  MaxPubFaults = 1
  SilentLoss = TRUE
  Verdict <- MCVerdict
  Malformed <- MCMalformed
INVARIANTS
  TypeOK
  NoAlarmLost
  DuplicatesNeedFaults
PROPERTIES
  StopsWhenAsked
  ImplementsRelay
  EventuallyHandled
