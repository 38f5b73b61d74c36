\* Three events, one malformed, batches of two, two attempts, one fault.
SPECIFICATION FairSpec
CONSTANTS
  e1 = e1
  e2 = e2
  e3 = e3
  NoEvent = NoEvent
  Event <- Events
  Malformed <- LastOnly
  Poison <- Nobody
  ApiAnswer <- AllAnswers
  BatchSize = 2
  MaxRetries = 2
  PollMin = 500
  PollMax = 1000
  PollRetryMax = 2000
  MaxFaults = 1
INVARIANTS
  TypeOK
  NoSilentLoss
  DuplicateNeedsFault
  ExhaustedMeansTried
  BackoffInForce
PROPERTIES
  NoOvertaking
  RefinesRelay
  QueueDrains
