CONSTANTS
  Frames <- MCRecords
  Calls = {}
  RECONNECT_BACKOFF_CAP_S = 1
  MaxFaults = 1
  MaxCrashes = 1
  MaxQueue = 2
  MaxRecords = 3
SPECIFICATION LUFairSpec
INVARIANT RecordsAccountedFor
PROPERTY BacklogIsFlushed
CHECK_DEADLOCK FALSE
