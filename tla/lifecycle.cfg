SPECIFICATION PartsSpec
CONSTANTS
  s1 = s1
  s2 = s2
  t1 = t1
  t2 = t2
  t3 = t3
  Servers = {s1, s2}
  Tasks = {t1, t2, t3}
  NoTask = NoTask
  NoServer = NoServer
  MaxBoots = 1
  CrashLoopCount = 1
  PortOf <- OwnPorts
  PortAuto = {}
  CrashRestart = {}
  Requests = {"start", "stop", "restart", "restore"}
  BootTimeouts = FALSE
  DockerMayFail = FALSE
  AgentRestarts = FALSE
SYMMETRY NodeSymmetry
INVARIANTS
  BootsAreBounded
  QueuedIsWaiting
  RestoreExclusive
  ContainerHasHandle
PROPERTIES
  HaltedStaysDown
