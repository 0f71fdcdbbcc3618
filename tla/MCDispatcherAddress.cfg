\* E-mail only, with an address that does not parse.
SPECIFICATION FairSpec
CONSTANTS
  Dispatchers = {d1}
  Viewers = {}
  MaxPublished = 1
  MaxFaults = 0
  Configs <- MCBadAddress
  Undecodable <- MCUndecodable
PROPERTY
  QueueNotBlocked
\* All alarms settled: the dispatcher idles.
CHECK_DEADLOCK FALSE
