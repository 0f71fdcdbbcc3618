\* Two controllers that call start and stop as they like, every callback.
SPECIFICATION FairSpec
CONSTANTS
  Controllers = {c1, c2}
  Callbacks = {"none", "plain", "stops"}
  MaxStarts = 2
  MaxFaults = 1
INVARIANTS
  TypeOK
  CrashNeedsOverlap
  RunningOrStopped
PROPERTY
  StopReturns
\* A destroyed or crashed adapter takes no more steps.
CHECK_DEADLOCK FALSE
