\* One policy message and an ilert API that cannot be reached.
SPECIFICATION Spec
CONSTANTS
  MaxMessages = 2
  MaxRows = 2
  KindNow <- PolicyPolicy
  KindAfter <- PolicyPolicy
  Filtered <- NothingFiltered
  BatchSize = 2
  MaxRetries = 0
  MaxFaults = 0
  MaxEdits = 0
  Answers <- AllAnswers
INVARIANTS
  NetworkErrorRetried
