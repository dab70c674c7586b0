CONSTANTS
  a = a
  b = b
  TaskIds <- MCTaskIds
  NoTask = NoTask
  Anyone = Anyone
  MaxDispatches = 2
  MaxCancels = 1
  Embedded = FALSE
SPECIFICATION Spec
INVARIANT CancelHitsNamedTask
