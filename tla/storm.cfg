SPECIFICATION Spec
CONSTANTS
  Servers = {s1}
  Tasks = {t1, t2, t3}
  NoTask = NoTask
  NoServer = NoServer
  MaxBoots = 1
  CrashLoopCount = 2
  PortOf <- OwnPorts
  PortAuto = {s1}
  CrashRestart = {s1}
  Requests = {"start", "stop", "restart", "kill", "restore", "install", "delete"}
  BootTimeouts = TRUE
  DockerMayFail = TRUE
  AgentRestarts = TRUE
SYMMETRY TaskSymmetry
INVARIANTS
  TypeOK
  BootSlotsConserved
