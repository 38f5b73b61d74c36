\* Two event messages, one of them filtered, and a policy message, from the
\* broker to ilert, with a restart that may drop the event topic.
SPECIFICATION FairSpec
CONSTANTS
  MaxMessages = 3
  MaxRows = 6
  KindNow <- EventPolicyEvent
  KindAfter <- IgnoredPolicyEvent
  Filtered <- ThirdFiltered
  BatchSize = 1
  MaxRetries = 2
  MaxFaults = 1
  MaxEdits = 0
  Answers <- Hiding
INVARIANTS
  TypeOK
  EnqueuedTwiceNeedsFault
PROPERTIES
  RefinesRelay
  EveryMessageJudged
