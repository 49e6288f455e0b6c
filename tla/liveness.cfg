SPECIFICATION FairSpec
CONSTANTS
  Servers = {s1, s2}
  Tasks = {t1, t2}
  NoTask = NoTask
  NoServer = NoServer
  MaxBoots = 1
  CrashLoopCount = 1
  PortOf <- OwnPorts
  PortAuto = {}
  CrashRestart = {}
  Requests = {"start", "stop"}
  BootTimeouts = TRUE
  DockerMayFail = FALSE
  AgentRestarts = FALSE
PROPERTIES
  QueueMoves
  LockFreed
