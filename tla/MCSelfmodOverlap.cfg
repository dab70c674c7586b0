CONSTANTS
  Flags = {"open", "apply"}
  NoFile = NoFile
  MaxRequests = 2
  MaxCommands = 1
  MaxErrors = 0
  MaxKills = 0
  CommandsOverlap = TRUE
SPECIFICATION SmSpec
PROPERTY NothingIsDeleted
CHECK_DEADLOCK FALSE
