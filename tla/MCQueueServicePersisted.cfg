\* docs/flow.md:89 says that an acknowledged event is in MongoDB.
SPECIFICATION Spec
CONSTANTS
  Instances = {q1}
  MaxPublished = 2
  MaxFaults = 0
  Malformed <- MCMalformed
INVARIANT
  AckedIsPersisted
CHECK_DEADLOCK FALSE
