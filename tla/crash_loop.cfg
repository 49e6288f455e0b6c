SPECIFICATION HSpec
CONSTANTS
  Servers = {s1}
  Tasks = {t1, t2, t3}
  NoTask = NoTask
  NoServer = NoServer
  MaxBoots = 1
  CrashLoopCount = 2
  PortOf <- OwnPorts
  PortAuto = {}
  CrashRestart = {s1}
  Requests = {"start", "stop", "restart"}
  BootTimeouts = FALSE
  DockerMayFail = FALSE
  AgentRestarts = FALSE
PROPERTIES
  CrashLoopStays
