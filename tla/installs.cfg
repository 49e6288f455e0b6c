SPECIFICATION PartsSpec
CONSTANTS
  Files = {"f1", "f2"}
  Contents = {"a", "b"}
  Gone = "gone"
  Jobs = {"j1", "j2"}
  NoJob = "none"
  Keep = 1
  MaxRequests = 3
  MaxStarts = 1
  MaxWrites = 1
  MaxTroubles = 1
  FetchedFiles = {"x"}
  HandFiles = {}
  FetchJobs = {"i1", "i2", "i3"}
  AtOnce = 2
  CacheLimit = 0
  FetchAttempts = 2
  MaxFetchFails = 1
  MaxSpoilt = 1
  Suspects = {"a", "l"}
  RendererJars = {}
  OfferedJars = {"l"}
  MaxRounds = 3
  MaxToggles = 1
  MaxRepairTroubles = 1
  MaxBootTroubles = 2
  MaxBuild = 3
  MaxJarJobs = 3
  MaxJarTroubles = 2
  Resizers = {"q1", "q2"}
  HeapWorlds <- Loaders
  TypedHeaps = {1024, 6144}
  ModCounts = {0, 400}
  Memory = 8192
  FreeMemory = {0, 2048}
  MaxResizes = 2
  MaxHeapTroubles = 1
  ModProjects = {1, 2, 3, 4}
  RootProject = 1
  ModWorlds <- WorldsOfFour
  MaxDepth = 2
  MaxPlan = 4
  MaxAddTroubles = 1
  MaxDeletes = 1
  JarNames = {"m", "n"}
  JarContents <- ContentsOfJars
  KnownTo <- WhoKnows
  MaxVersion = 3
  MaxModChanges = 3
  MaxRecordTroubles = 1
INVARIANTS
  PartsTyped
  SnapshotIsMoment
  NetHolds
  DoneMeansDone
  FilesHold
  PackIsAccounted
  ModsAreAccounted
  LaunchHolds
PROPERTIES
  ImplementsCatalogue
  StepsHaveCause
CHECK_DEADLOCK FALSE
