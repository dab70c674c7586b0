CONSTANTS
  MaxRelease = 3
  MajorReleases = {2}
  Unsigned = {3}
  MaxDelay = 3
  MaxProbes = 2
  MaxDaemons = 2
  Platforms = {"unix", "windows"}
  Missing = Missing
  PoolSlots = {s1, s2, s3}
  MaxContexts = 2
  MaxLaunches = 2
  MaxLeaks = 2
  NoOne = NoOne
  Goals = {1}
  MaxMilestones = 2
  MaxPlans = 2
  MaxCalls = 3
  Minute = 2
  Day = 2
  WakeMinute = 1
  MaxTime = 3
  MaxRestarts = 1
  MaxConnects = 2
  ToolCalls = {c1, c2}
  NoCaller = NoCaller
  Workspaces = {w1, w2}
  Manifests <- Shipped
  ImageMajor = 1
  EnvKeys = {k1, k2}
  Listed = {k1}
  MaxPasted = 1
  MaxRuns = 2
  Setups = {c1, c2}
  Slugs = {a, b}
  Deadline = 1
  NoSetup = NoSetup
  Parts = {"updater", "pool", "autonomous", "connect", "tools", "runtimes", "setup"}
SPECIFICATION TSpec
INVARIANTS InstallIsSound PoolIsBounded PlansAreAccounted ConnectIsHonest ActsAreGated EditsCompose RuntimesStay SetupIsOwn
CHECK_DEADLOCK FALSE
