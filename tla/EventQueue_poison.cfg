\* Unlimited retries and one event the API never takes, in batches of two.
SPECIFICATION FairSpec
CONSTANTS
  e1 = e1
  e2 = e2
  e3 = e3
  NoEvent = NoEvent
  Event <- Events
  Malformed <- LastOnly
  Poison <- FirstOnly
  ApiAnswer <- Taken
  BatchSize = 2
  MaxRetries = 0
  PollMin = 1
  PollMax = 2
  PollRetryMax = 2
  MaxFaults = 1
PROPERTIES
  HealthyLeave
