\* Two runs, two profiles, three pending calls, one statement that throws and one restart.
SPECIFICATION Spec
CONSTANTS
  MaxRuns = 2
  MaxCfg = 2
  MaxPending = 3
  MaxThrows = 1
  MaxRestarts = 1
INVARIANTS
  RunningRunHasOpenRow
  OpenRowsAccountedFor
  SavedProfileInForce
CHECK_DEADLOCK FALSE
