\* Three policy messages for one level, one of them filtered, and an edit by
\* somebody else; every answer of the API.
SPECIFICATION Spec
CONSTANTS
  MaxMessages = 3
  MaxRows = 4
  KindNow <- Policies3
  KindAfter <- Policies3
  Filtered <- SecondFiltered
  BatchSize = 2
  MaxRetries = 2
  MaxFaults = 1
  MaxEdits = 1
  Answers <- AllAnswers
PROPERTIES
  TimeoutKept
  OlderWinsOnlyAfterFailure
