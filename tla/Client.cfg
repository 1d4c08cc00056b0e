\* The worker and a probe share the client; files or SPIRE, renewals, an agent outage, shutdown.
SPECIFICATION FairLifeSpec
CONSTANTS
  Callers = {"worker", "probe"}
  Worker = "worker"
  None = "none"
  Generations = {1, 2, 3}
  Authority <- MCAuthority
  MaxRotations = 2
  MaxOutages = 1
INVARIANTS
  LifeTypeOK
  SourcesAccountedFor
PROPERTIES
  CloseLeavesOnlyUnpublished
  ReadyFollows
  GaugesFollow

\* A process that has exited makes no more steps.
CHECK_DEADLOCK FALSE
