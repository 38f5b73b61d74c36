\* No crash, but events an older release has not delivered.
SPECIFICATION Spec
CONSTANTS
  QueuesLeft <- AnyQueue
  MaxCrashes = 0
  MaxUnreadable = 0
INVARIANTS
  UpgradeCompletes
