\* Two threads that start the adapter, one of which stops it, two requests at once.
SPECIFICATION FairSpec
CONSTANTS
  Starters = {c1, c2}
  Stoppers = {c2}
  Requests = {r1, r2}
  Callbacks = {"plain", "stops"}
  MaxStarts = 2
  MaxFaults = 1
INVARIANTS
  TypeOK
  CrashNeedsOverlap
  RunningOrStopped
  LossIsBounded
PROPERTIES
  RequestsAndStopsEnd
\* A destroyed or crashed adapter takes no more steps.
CHECK_DEADLOCK FALSE
