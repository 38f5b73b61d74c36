\* No statement fails and nothing crashes, and still a poster is told that an
\* event could not be created that the API has accepted.
SPECIFICATION Spec
CONSTANTS
  e1 = e1
  e2 = e2
  e3 = e3
  NoEvent = NoEvent
  Event <- Events
  Malformed <- Nobody
  Poison <- Nobody
  ApiAnswer <- Taken
  BatchSize = 2
  MaxRetries = 2
  PollMin = 500
  PollMax = 5000
  PollRetryMax = 60000
  MaxFaults = 0
INVARIANTS
  ErrorMeansNotCreated
