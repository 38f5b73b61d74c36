\* Two agents of a group that has an offset, three messages, failures without
\* end and an API that takes a message in the end.
SPECIFICATION FairSpec
CONSTANTS
  a1 = a1
  a2 = a2
  NoAgent = NoAgent
  Agent <- Agents
  MaxMessages = 3
  GroupHasOffset = TRUE
  MaxFaults = 2
INVARIANTS
  TypeOK
  FirstTakenInOrder
PROPERTIES
  OffsetGrows
  RefinesRelay
  EveryMessageTaken
