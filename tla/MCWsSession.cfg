CONSTANTS

  Frames <- MCFrames
  Calls = {c1}
  RECONNECT_BACKOFF_CAP_S = 3
  MaxFaults = 3
  MaxCrashes = 1
SPECIFICATION WsFairSpec
INVARIANTS PauseIsSound RestartKeepsCredential
PROPERTIES IsLossyChannel SilentLinkIsDropped Reconnects
CHECK_DEADLOCK FALSE
