SPECIFICATION PartsSpec
CONSTANTS
  r1 = r1
  w1 = w1
  w2 = w2
  f1 = f1
  f2 = f2
  Workers = {w1, w2}
  NoWorker = "nobody"
  Readers = {f1, f2}
  MaxTries = 1
  Batch = 2
  MaxFrames = 1
  MaxStops = 1
  Troubles = {"fault", "late", "hour"}
  MaxTroubles = 1
  Tasks = {"t1", "t2"}
  NoTask = "none"
  Loops = {"p1", "p2"}
  Every = 1
  Delay = 1
  Grace = 0
  MaxTime = 3
  MaxEdits = 2
  MaxDeaths = 1
  Ids = {1, 2, 3}
  Procs = {"p1", "p2"}
  Nobody = "nobody"
  MaxUserChanges = 4
  MaxFailures = 2
  Lockout = 1
  ChallengeTtl = 2
  Skew = 1
  Recovery = {r1}
  MaxSteps = 2
  MaxSecrets = 2
  MaxHeld = 1
  Servers = {"s1"}
  Callers = {"q1", "q2"}
  RackIds = {"g1", "g2"}
  Yard = "yard"
  NoRequest = "none"
  MaxRacked = 4
  MaxRackTroubles = 1
  Jars <- ReviewJars
  Unnamed = "none"
  OneServer = "s"
  MaxDecisions = 3
  MaxReviewTroubles = 1
  MaxDesired = 3
  MaxDesiredTroubles = 2
  Viewers = {"v1"}
  Pollers = {"r1"}
  Ring = 2
  AgentQueue = 1
  ViewerQueue = 1
  ConsoleBatch = 1
  MaxLines = 4
  MaxJoins = 2
  MaxConsoleTroubles = 1
  PageQueue = 1
  MaxGets = 2
  MaxNews = 1
  MaxNumbers = 1
  MaxPageTroubles = 1
  QueueMax = 2
  LogKept = 3
  LogSent = 2
  LogInDom = 2
  MaxLogged = 4
  MaxJobTroubles = 2
SYMMETRY Symmetry
INVARIANTS
  PartsTyped
  RunsOnce
  CancelledNeverStarts
  NoGap
  LivingNotInterrupted
  RunsAreDue
  AccountsHold
  LayoutHolds
  DecisionsHold
  PagesAreTrue
  HandHolds
CHECK_DEADLOCK FALSE
