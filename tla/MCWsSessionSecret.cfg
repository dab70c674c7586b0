CONSTANTS

  Frames <- MCFrames
  Calls = {c1}
  RECONNECT_BACKOFF_CAP_S = 3
  MaxFaults = 1
  MaxCrashes = 1
SPECIFICATION WsSpec
INVARIANT SecretIsPersisted
CHECK_DEADLOCK FALSE
