CONSTANTS
  a = a
  b = b
  TaskIds <- MCTaskIds
  NoTask = NoTask
  Anyone = Anyone
  MaxDispatches = 3
  MaxCancels = 2
  Embedded = TRUE
SPECIFICATION FairSpec
INVARIANTS OneVerdictPerTask OneCancelPerRequest ScopeOfRunningTask
PROPERTY EveryTaskAnswered
CHECK_DEADLOCK FALSE
