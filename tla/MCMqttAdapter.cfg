\* Two controllers that call start and stop as they like, every kind of message.
SPECIFICATION FairSpec
CONSTANTS
  Controllers = {c1, c2}
  MaxStarts = 2
  MaxInbox = 2
  MaxFaults = 1
INVARIANTS
  TypeOK
  CrashNeedsCause
PROPERTIES
  AckedIsPublished
  CallsReturn
\* A destroyed or crashed adapter takes no more steps.
CHECK_DEADLOCK FALSE
