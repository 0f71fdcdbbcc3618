\* Each event with each rule by itself, and the threads with a few of them.
SPECIFICATION FairSpec
CONSTANTS
  t1 = t1
  t2 = t2
  t3 = t3
  p1 = p1
  p2 = p2
  None = None
  Threads <- MCThreads
  Publishers <- MCPublishers
  Programs <- MCPrograms
  Events <- MCEvents
  Entries <- MCEntries
  Verdict <- evaluate_rule
  Dotted <- MCDotted
INVARIANTS
  TypeOK
  AlarmsOfOneRuleSet
  PublisherSafe
  RulesMeanWhatTheySay
PROPERTIES
  CallsReturn
\* The programs end, and a callback that calls the engine waits for ever.
CHECK_DEADLOCK FALSE
