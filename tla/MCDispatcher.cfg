\* A dispatcher in every configuration, and a demo-cli that competes with it.
SPECIFICATION FairSpec
CONSTANTS
  Dispatchers = {d1}
  Viewers = {v1}
  MaxPublished = 3
  MaxFaults = 1
  Configs <- MCConfigs
  Undecodable <- MCUndecodable
INVARIANTS
  TypeOK
  NoAlarmUnnoticed
  RepeatsNeedFaults
PROPERTIES
  ImplementsRelay
  QueueBlockedByPanicOnly
\* All alarms settled, faults spent: the consumers idle.
CHECK_DEADLOCK FALSE
