------------------------- MODULE MCSupervisorParts --------------------------
(* Small nodes for TLC, in three sets of circumstances: requests side by   *)
(* side ("lifecycle", with the constants of the cfg), crashes and restarts *)
(* of the agent ("adoption"), crash timers that sleep while people stop    *)
(* and start a server ("halted").  A behaviour keeps to one of them.       *)
EXTENDS SupervisorHistory

CONSTANTS s1, s2, t1, t2, t3

VARIABLE part

NodeSymmetry == Permutations({t1, t2, t3}) \cup Permutations({s1, s2})

Adoption == INSTANCE Supervisor WITH
  CrashLoopCount <- 2, CrashRestart <- {s1, s2}, Requests <- {"start", "stop"},
  AgentRestarts <- TRUE
Halting == INSTANCE SupervisorHistory WITH
  CrashLoopCount <- 3, CrashRestart <- {s1, s2}, Requests <- {"start", "stop", "restart", "restore"}

PartsInit == part \in {"lifecycle", "adoption", "halted"} /\ HInit

LifecycleStep == part = "lifecycle" /\ Next /\ UNCHANGED <<part, verdict>>

\* Two tasks at a time.
AdoptionStep ==
  /\ part = "adoption" /\ Adoption!Next
  /\ \E t \in Tasks : task'[t] = Idle
  /\ UNCHANGED <<part, verdict>>

\* One of the servers is never asked for.
HaltedStep ==
  /\ part = "halted" /\ Halting!HNext
  /\ \E s \in Servers : /\ \A t \in Tasks : task'[t].srv # s
                        /\ verdict'[s] = "none" /\ crashes'[s] = 0
                        /\ ~up'[s] /\ ~running'[s] /\ state'[s] = "offline" /\ ~stopping'[s]
  /\ UNCHANGED part

PartsNext == LifecycleStep \/ AdoptionStep \/ HaltedStep

PartsSpec == PartsInit /\ [][PartsNext]_<<hvars, part>>

-----------------------------------------------------------------------------

\* No more servers boot at once than there are slots (_release_when_up), while
\* the agent lives and no boot takes too long.
BootsAreBounded == part = "lifecycle" => BootsBounded
=============================================================================
