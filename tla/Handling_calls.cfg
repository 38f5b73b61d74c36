\* Every small configuration of topics, with each message on each path.
SPECIFICATION Spec
CONSTANTS
  NotGiven = NotGiven
  Null = Null
  NotText = NotText
  Absent = Absent
  LongHalf = 8
  IntHalf = 2
  Sources <- AnySource
  Filter <- SmallFilters
  Topic <- SmallTopics
  EventPayload <- EventPayloadSet
  EventOptions <- EventOptionSet
  PolicyPayload <- PolicyPayloads
  PolicyOptions <- PolicyOptionSet
  Raw <- SmallRaw
  Offset <- SmallOffset
  Rules <- SmallRules
INVARIANTS
  TypeOK
  CallIsSubscribed
  DeliveredIsHandled
  TimeoutIsOfLevel
  AlertHasSummary
  ConfiguredTypeIsSent
CHECK_DEADLOCK FALSE
