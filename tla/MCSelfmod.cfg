CONSTANTS
  Flags = {"open", "apply"}
  NoFile = NoFile
  MaxRequests = 2
  MaxCommands = 1
  MaxErrors = 2
  MaxKills = 1
  CommandsOverlap = FALSE
SPECIFICATION SmFairSpec
INVARIANT RateLimit
PROPERTIES NothingIsDeleted ClaimsOnlyQueued QueuedIsAnswered
CHECK_DEADLOCK FALSE
