\* Files of every release, two crashes and a note that cannot be read; every
\* set of jobs, a post and a heartbeat.
SPECIFICATION DaemonSpec
CONSTANTS
  QueuesLeft <- AnyQueue
  MaxCrashes = 2
  MaxUnreadable = 1
  Arguments <- AnyArguments
  NotGiven = NotGiven
  Posts = {p}
  Beats = {b}
INVARIANTS
  DaemonTypeOK
  ReadyMeansMigrated
  EveryPathCanRetry
  ReadyMeansConsuming
PROPERTIES
  CleanStartCompletes
  LostWorkerEndsDaemon
  ShutdownEnds
  RequestsLeave
