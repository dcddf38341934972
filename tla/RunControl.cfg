\* Three runs, so that an ack, a timer or a spawn of the first can meet the
\* second and a third can follow the mix-up; liveness under FairSpec.
SPECIFICATION FairSpec
CONSTANTS
  MaxRuns = 3
  MaxCfg = 2
  MaxInbox = 2
  MaxCrashes = 1
  Limits = {TRUE, FALSE}
INVARIANTS
  TimersOwnTheirRun
  WorkerFollowsDriver
  NewestConfigInForce
PROPERTIES
  NoForeignAckEndsARun
  ImplementsFairLifecycle
  ShutdownReaps
CHECK_DEADLOCK FALSE
