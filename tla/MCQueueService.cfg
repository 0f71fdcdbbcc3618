\* Two competing instances, the middle message malformed, one fault.
SPECIFICATION FairSpec
CONSTANTS
  Instances = {q1, q2}
  MaxPublished = 3
  MaxFaults = 1
  Malformed <- MCMalformed
INVARIANTS
  TypeOK
  NoEventLost
PROPERTIES
  ImplementsRelay
  EventuallySettled
\* All published messages settled, faults spent: the services idle.
CHECK_DEADLOCK FALSE
