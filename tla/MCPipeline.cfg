\* Two faults anywhere, the loss of the publisher's connection among them.
SPECIFICATION FairSpec
CONSTANTS
  q1 = q1
  p1 = p1
  d1 = d1
  e1 = e1
  e2 = e2
  e3 = e3
  None = None
  Processes <- MCProcesses
  Serves <- MCServes
  Events = {e1, e2, e3}
  Malformed = {e3}
  Rules = {1, 2}
  Matching <- MCMatching
  Undecodable <- MCUndecodable
  MaxPublished = 1
  MaxFaults = 2
INVARIANTS
  TypeOK
  NoEventDropped
  RepeatsMultiplyAtMost
PROPERTIES
  ImplementsRelay
  EventuallyNotified
\* Everything published was handled.
CHECK_DEADLOCK FALSE
