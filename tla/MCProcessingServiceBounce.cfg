\* Only the publisher's connection is lost, once.
SPECIFICATION Spec
CONSTANTS
  MaxPublished = 1
  NumRules = 3
  Prefetch = 2
  MaxStops = 0
  MaxFaults = 0
  MaxPubFaults = 1
  SilentLoss = FALSE
  Verdict <- MCVerdict
  Malformed <- MCMalformed
INVARIANT
  AckedHasItsAlarms
