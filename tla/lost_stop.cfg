SPECIFICATION HSpec
CONSTANTS
  Servers = {s1, s2}
  Tasks = {t1, t2, t3}
  NoTask = NoTask
  NoServer = NoServer
  MaxBoots = 1
  CrashLoopCount = 1
  PortOf <- OwnPorts
  PortAuto = {}
  CrashRestart = {}
  Requests = {"start", "stop"}
  BootTimeouts = FALSE
  DockerMayFail = FALSE
  AgentRestarts = FALSE
PROPERTIES
  CancelledStaysDown
