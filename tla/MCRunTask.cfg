CONSTANTS
  a = a
  b = b
  TaskIds <- MCTaskIds
  NoTask = NoTask
  Anyone = Anyone
  MaxDispatches = 1
  MaxCancels = 1
  Embedded = FALSE
  MAX_ITERS = 3
  LOOP_MAX_STEPS = 3
  LOOP_CHECKPOINT_EVERY = 2
  CHECKPOINT_MIN_STEPS = 1
  MAX_USD = 1
  MaxTurnCost = 1
  MaxBatch = 2
SPECIFICATION RTFairSpec
INVARIANTS BudgetsHold CancelStopsTools EveryExitReports
PROPERTIES NoSuccessOverFailure ImplementsTaskWorker
