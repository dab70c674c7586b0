CONSTANTS
  Calls = {c1, c2}
  Projects = {p1}
  Timeout = 3
  Grace = 1
  MinWall = 2
  Tries = 1
  NoCall = NoCall
  Sessions = {s1, s2}
  MaxPieces = 3
  Batch = 2
  Misses = 3
  MaxOutages = 2
  MaxLostBeats = 1
  MaxRecordings = 2
  MaxDeaths = 1
  Names = {"default", "trader"}
  MaxSlots = 2
  MaxFrames = 2
  Parts = {"brief", "log", "beat", "recorder", "router"}
SPECIFICATION SSpec
INVARIANTS StreamIsTheFile OneDeadPostPerOutage RecordingsAreSeparate JoinersUnblock
PROPERTIES ServerAfterAgent LaunchIsReported RecordingEnds FramesAreTaken
CHECK_DEADLOCK FALSE
