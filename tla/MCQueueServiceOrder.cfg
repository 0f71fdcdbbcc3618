\* Order without competition, of restarts under either name, and failures during the
\* recovery from failures.
SPECIFICATION Spec
CONSTANTS
  Instances = {q1, q2}
  MaxPublished = 3
  MaxFaults = 2
  Malformed <- MCMalformed
INVARIANTS
  DuplicatesNeedFaults
PROPERTIES
  FirstCopiesInOrder
\* All published messages settled, faults spent: the service idles.
CHECK_DEADLOCK FALSE
