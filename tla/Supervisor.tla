----------------------------- MODULE Supervisor -----------------------------
(***************************************************************************)
(* The lifecycles of the game servers of one node: agent/servers.py, with  *)
(* the container runtime of agent/containers.py underneath it.             *)
(*                                                                         *)
(* The agent is one asyncio event loop, so a coroutine runs without        *)
(* interruption from one await to the next.  A task is an activation of    *)
(* power(), _start_queued(), _restore(), _install(), delete() or of one of *)
(* the timers; its pc names the await it is suspended at, and an action is *)
(* what it does from there to its next await.  srv.lock and boot_slots are *)
(* asyncio's own Lock and Semaphore, both first come, first served.        *)
(***************************************************************************)
EXTENDS Naturals, FiniteSets, Sequences, SequencesExt

CONSTANTS
  Servers,         \* the servers of this node
  Tasks,           \* identities for concurrent tasks; an idle one is reused
  NoTask,          \* no task: a free lock, a server that is not queued
  NoServer,        \* the server of an idle task
  MaxBoots,        \* cfg.max_concurrent_boots
  CrashLoopCount,  \* CRASH_LOOP_COUNT
  PortOf,          \* the game port of each server
  PortAuto,        \* the servers whose spec says "Port: automatic"
  CrashRestart,    \* the servers whose lifecycle says crash_restart
  Requests,        \* the kinds of request that reach the agent
  BootTimeouts,    \* a boot can take longer than boot_timeout
  DockerMayFail,   \* a call to Docker can fail or lose its answer
  AgentRestarts    \* the agent can be stopped and started again

Kinds == {"start", "stop", "restart", "kill", "restore", "install", "delete"}

ASSUME ServersAssumption == IsFiniteSet(Servers) /\ NoServer \notin Servers
ASSUME TasksAssumption == IsFiniteSet(Tasks) /\ NoTask \notin Tasks
ASSUME BoundsAssumption == MaxBoots \in Nat \ {0} /\ CrashLoopCount \in Nat \ {0}
ASSUME SpecsAssumption == /\ DOMAIN PortOf = Servers
                          /\ PortAuto \subseteq Servers
                          /\ CrashRestart \subseteq Servers
                          /\ Requests \subseteq Kinds
ASSUME SwitchesAssumption == {BootTimeouts, DockerMayFail, AgentRestarts} \subseteq BOOLEAN

VARIABLES
  task,         \* what each task is and where it is suspended
  lock,         \* srv.lock: the task that holds it
  lockq,        \* srv.lock: the tasks waiting for it, in order
  queued,       \* Supervisor.queued: the task waiting to start the server
  state,        \* srv.state
  running,      \* srv.running is not None
  stopping,     \* srv.stopping
  crashes,      \* crashes inside CRASH_LOOP_WINDOW, at most CrashLoopCount
  timers,       \* restarts sleeping out CRASH_BACKOFF (the later() tasks)
  bootSlots,    \* boot_slots: the semaphore's value
  bootWaiters,  \* boot_slots: the tasks waiting for a slot, in order
  bootHeld,     \* the tasks a slot has been given to
  up,           \* the server's container is running
  known,        \* the server has a spec on this node
  serving,      \* the agent answers requests
  toAdopt       \* adopt_running: containers found and not yet looked at

requestVars == <<task, lock, lockq>>
slotVars    == <<bootSlots, bootWaiters, bootHeld>>
crashVars   == <<crashes, timers>>
agentVars   == <<known, serving, toAdopt>>
vars == <<requestVars, queued, state, running, stopping, crashVars, slotVars,
          up, agentVars>>

States == {"offline", "queued", "starting", "running", "stopping", "crashed",
           "installing"}
TaskKinds == Kinds \cup {"startq", "later", "adopt", "hold", "none"}
PCs == {"idle", "lock", "enter", "check", "ports", "create", "attached", "recheck",
        "stopping", "stopwait", "killing", "restoring", "slot", "hold",
        "created", "installing", "delkill", "delremove", "adopting"}

Activations == [kind : TaskKinds, srv : Servers \cup {NoServer}, pc : PCs,
                again : BOOLEAN]

TypeOK ==
  /\ task \in [Tasks -> Activations]
  /\ lock \in [Servers -> Tasks \cup {NoTask}]
  /\ lockq \in [Servers -> Seq(Tasks)]
  /\ queued \in [Servers -> Tasks \cup {NoTask}]
  /\ state \in [Servers -> States]
  /\ running \in [Servers -> BOOLEAN]
  /\ stopping \in [Servers -> BOOLEAN]
  /\ crashes \in [Servers -> 0 .. CrashLoopCount]
  /\ timers \in [Servers -> Nat]
  /\ bootSlots \in Nat
  /\ bootWaiters \in Seq(Tasks)
  /\ bootHeld \in SUBSET Tasks
  /\ up \in [Servers -> BOOLEAN]
  /\ known \in [Servers -> BOOLEAN]
  /\ serving \in BOOLEAN
  /\ toAdopt \in SUBSET Servers

Idle == [kind |-> "none", srv |-> NoServer, pc |-> "idle", again |-> FALSE]

\* A node whose agent has just come up for the first time.
Init ==
  /\ task = [t \in Tasks |-> Idle]
  /\ lock = [s \in Servers |-> NoTask]
  /\ lockq = [s \in Servers |-> <<>>]
  /\ queued = [s \in Servers |-> NoTask]
  /\ state = [s \in Servers |-> "offline"]
  /\ running = [s \in Servers |-> FALSE]
  /\ stopping = [s \in Servers |-> FALSE]
  /\ crashes = [s \in Servers |-> 0]
  /\ timers = [s \in Servers |-> 0]
  /\ bootSlots = MaxBoots
  /\ bootWaiters = <<>>
  /\ bootHeld = {}
  /\ up = [s \in Servers |-> FALSE]
  /\ known = [s \in Servers |-> TRUE]
  /\ serving = TRUE
  /\ toAdopt = {}

-----------------------------------------------------------------------------
(* Tasks and the lock of a server.                                         *)

IsIdle(t)   == task[t] = Idle
At(t, s, p) == task[t].pc = p /\ task[t].srv = s

\* t's coroutine has returned.
Ends(t) == task' = [task EXCEPT ![t] = Idle]

Goto(t, p) == task' = [task EXCEPT ![t].pc = p]

\* t, which holds or has just been given the lock of s, suspends at p.
Suspends(t, s, p) == Goto(t, p) /\ lock' = [lock EXCEPT ![s] = t]

\* The "async with srv.lock" block is left, and with it the coroutine.
Leaves(t, s) == Ends(t) /\ lock' = [lock EXCEPT ![s] = NoTask]

\* t, a task of kind k, comes to "async with srv.lock".  A lock that is free
\* and that nobody waits for is taken without an await, so t goes on at once
\* (pc "enter"); otherwise it waits its turn.
ComesToLock(t, k, s) ==
  LET free == lock[s] = NoTask /\ lockq[s] = <<>>
  IN  /\ task' = [task EXCEPT ![t] = [kind |-> k, srv |-> s, again |-> FALSE,
                                      pc |-> IF free THEN "enter" ELSE "lock"]]
      /\ lock' = IF free THEN [lock EXCEPT ![s] = t] ELSE lock
      /\ lockq' = IF free THEN lockq ELSE [lockq EXCEPT ![s] = Append(@, t)]

\* Nothing else runs while a task goes on at once.
LoopFree == \A t \in Tasks : task[t].pc # "enter"

\* What t awaits at one of these points is over, and the event loop is free.
Resumes(t, s, pcs) ==
  LoopFree /\ task[t].pc \in pcs /\ task[t].srv = s

\* t goes on with the lock of s: it just took it, or it is the longest waiter
\* and is woken to find it free.
Granted(t, s) ==
  \/ /\ At(t, s, "enter")
     /\ UNCHANGED lockq
  \/ /\ Resumes(t, s, {"lock"})
     /\ lock[s] = NoTask
     /\ lockq[s] # <<>> /\ Head(lockq[s]) = t
     /\ lockq' = [lockq EXCEPT ![s] = Tail(@)]

-----------------------------------------------------------------------------
(* The boot slots.                                                         *)

\* A slot given to a waiter whose task has not run since.
SlotPending == \E t \in bootHeld : task[t].pc = "slot"

\* Semaphore.locked(): no value left, or somebody is (still) waiting.
Locked == bootSlots = 0 \/ bootWaiters # <<>> \/ SlotPending

TakesSlot(t) ==
  /\ bootSlots' = bootSlots - 1
  /\ bootHeld' = bootHeld \cup {t}
  /\ UNCHANGED bootWaiters

\* Semaphore.release(): the longest waiter gets the slot, if there is one.
ReleasesSlot(t) ==
  IF bootWaiters = <<>>
    THEN /\ bootSlots' = bootSlots + 1
         /\ bootHeld' = bootHeld \ {t}
         /\ UNCHANGED bootWaiters
    ELSE /\ bootHeld' = (bootHeld \ {t}) \cup {Head(bootWaiters)}
         /\ bootWaiters' = Tail(bootWaiters)
         /\ UNCHANGED bootSlots

\* Where the coroutine has a slot to give back when it fails: after
\* boot_slots.acquire() in _start, anywhere in _start_queued.
OwnsSlot(t) ==
  \/ task[t].pc \in {"ports", "create", "attached", "recheck", "hold"}
  \/ task[t].kind = "startq" /\ task[t].pc \in {"lock", "enter", "check"}

\* queued.pop(uuid) and cancel(): a task cancelled while it waits for a slot
\* is no longer a waiter, and gives back a slot it had just been given.
CancelsQueued(s) ==
  LET q == queued[s]
  IN  /\ queued' = [queued EXCEPT ![s] = NoTask]
      /\ \/ q \in bootHeld /\ ReleasesSlot(q)
         \/ /\ q \notin bootHeld
            /\ \E i \in DOMAIN bootWaiters :
                 /\ bootWaiters[i] = q
                 /\ bootWaiters' = RemoveAt(bootWaiters, i)
            /\ UNCHANGED <<bootSlots, bootHeld>>

-----------------------------------------------------------------------------
(* start: _start, _start_queued, _checks, _launch, _hold_slot.             *)

\* _start up to its first await: nothing to do when it runs or waits to run;
\* an install refuses it; otherwise the checks begin.
BeginsStart(t, s) ==
  IF running[s] \/ queued[s] # NoTask \/ state[s] = "installing"
    THEN Leaves(t, s)
    ELSE Suspends(t, s, "check")

GrantStart(t, s) ==
  /\ task[t].kind = "start" /\ Granted(t, s)
  /\ BeginsStart(t, s)
  /\ UNCHANGED <<queued, state, running, stopping, crashVars, slotVars, up, agentVars>>

\* A bug: the crash timer does not look at why the server is down.
GrantLaterAnyway(t, s) ==
  /\ task[t].kind = "later" /\ Granted(t, s)
  /\ BeginsStart(t, s)
  /\ UNCHANGED <<queued, state, running, stopping, crashVars, slotVars, up, agentVars>>

\* The crash timer: it starts the server only if it is still down and crashed.
GrantLater(t, s) ==
  /\ task[t].kind = "later" /\ Granted(t, s)
  /\ IF ~running[s] /\ state[s] = "crashed" THEN BeginsStart(t, s) ELSE Leaves(t, s)
  /\ UNCHANGED <<queued, state, running, stopping, crashVars, slotVars, up, agentVars>>

\* Whether o is on the port of s.  A port the agent chooses itself is one that
\* was free when it looked.
SamePort(o, s) == o # s /\ {o, s} \cap PortAuto = {} /\ PortOf[o] = PortOf[s]

\* The servers running on the port of s.
Holders(s) == {o \in Servers : known[o] /\ running[o] /\ SamePort(o, s)}

\* A bug: a queued start that is refused is still shown as queued.
CheckRefusedQuietly(t, s) ==
  /\ Resumes(t, s, {"check", "recheck"})
  /\ Leaves(t, s)
  /\ IF OwnsSlot(t) THEN ReleasesSlot(t) ELSE UNCHANGED slotVars
  /\ UNCHANGED <<lockq, queued, state, running, stopping, crashVars, up, agentVars>>

\* No command, the node would be overcommitted, or a server holds the port:
\* the request is refused.  A queued start says so and is offline again; a
\* start that has a slot gives it back.
CheckRefused(t, s) ==
  /\ Resumes(t, s, {"check", "recheck"})
  /\ Leaves(t, s)
  /\ state' = IF task[t].kind = "startq" THEN [state EXCEPT ![s] = "offline"] ELSE state
  /\ IF OwnsSlot(t) THEN ReleasesSlot(t) ELSE UNCHANGED slotVars
  /\ UNCHANGED <<lockq, queued, running, stopping, crashVars, up, agentVars>>

\* A bug: the slot was seen free before the awaits of the checks, and is taken
\* after them without another look.
CheckLaunchesUnlooked(t, s) ==
  /\ Resumes(t, s, {"check", "recheck"})
  /\ Holders(s) = {}
  /\ \/ OwnsSlot(t) /\ UNCHANGED slotVars
     \/ ~OwnsSlot(t) /\ TakesSlot(t)
  /\ Goto(t, "ports")
  /\ UNCHANGED <<lock, lockq, queued, state, running, stopping, crashVars, up, agentVars>>

\* The checks pass and a slot is at hand (or already held): launch.
CheckLaunches(t, s) ==
  /\ Resumes(t, s, {"check", "recheck"})
  /\ Holders(s) = {}
  /\ \/ OwnsSlot(t) /\ UNCHANGED slotVars
     \/ ~OwnsSlot(t) /\ ~Locked /\ TakesSlot(t)
  /\ Goto(t, "ports")
  /\ UNCHANGED <<lock, lockq, queued, state, running, stopping, crashVars, up, agentVars>>

\* The checks pass and every slot is held: the request is answered, and a
\* task (_start_queued) waits for a slot in its place.
CheckQueues(t, s) ==
  /\ Resumes(t, s, {"check"}) /\ ~OwnsSlot(t)
  /\ Holders(s) = {}
  /\ Locked
  /\ task' = [task EXCEPT ![t] = [kind |-> "startq", srv |-> s, pc |-> "slot",
                                  again |-> FALSE]]
  /\ lock' = [lock EXCEPT ![s] = NoTask]
  /\ state' = [state EXCEPT ![s] = "queued"]
  /\ queued' = [queued EXCEPT ![s] = t]
  /\ bootWaiters' = Append(bootWaiters, t)
  /\ UNCHANGED <<lockq, running, stopping, crashVars, bootSlots, bootHeld, up, agentVars>>

\* A waiter that was given a slot runs: it is no longer in the queue, wakes
\* the next waiter if the semaphore has more to give, and wants the lock.
SlotRun(t, s) ==
  /\ Resumes(t, s, {"slot"}) /\ t \in bootHeld
  /\ queued' = [queued EXCEPT ![s] = NoTask]
  /\ ComesToLock(t, "startq", s)
  /\ IF bootSlots > 0 /\ bootWaiters # <<>>
       THEN /\ bootSlots' = bootSlots - 1
            /\ bootHeld' = bootHeld \cup {Head(bootWaiters)}
            /\ bootWaiters' = Tail(bootWaiters)
       ELSE UNCHANGED slotVars
  /\ UNCHANGED <<state, running, stopping, crashVars, up, agentVars>>

\* _start_queued with the lock: somebody stopped or started it meanwhile, or
\* the checks are made again.
GrantQueued(t, s) ==
  /\ task[t].kind = "startq" /\ Granted(t, s)
  /\ IF state[s] # "queued" \/ running[s]
       THEN Leaves(t, s) /\ ReleasesSlot(t)
       ELSE Suspends(t, s, "check") /\ UNCHANGED slotVars
  /\ UNCHANGED <<queued, state, running, stopping, crashVars, up, agentVars>>

\* _launch has read the add-ons' ports.
Launch(t, s) ==
  /\ Resumes(t, s, {"ports"})
  /\ Goto(t, "create")
  /\ stopping' = [stopping EXCEPT ![s] = FALSE]
  /\ state' = [state EXCEPT ![s] = "starting"]
  /\ UNCHANGED <<lock, lockq, queued, running, crashVars, slotVars, up, agentVars>>

\* runtime.start: a running container is never replaced, and Docker binds a
\* port once.
Create(t, s) ==
  /\ Resumes(t, s, {"create"})
  /\ ~up[s]
  /\ \A o \in Servers : up[o] => ~SamePort(o, s)
  /\ up' = [up EXCEPT ![s] = TRUE]
  /\ Goto(t, "attached")
  /\ UNCHANGED <<lock, lockq, queued, state, running, stopping, crashVars, slotVars, agentVars>>

\* A bug: a launch that fails keeps its slot.
CreateFailsKeepsSlot(t, s) ==
  /\ Resumes(t, s, {"create"})
  /\ state' = [state EXCEPT ![s] = "offline"]
  /\ Leaves(t, s)
  /\ UNCHANGED <<lockq, queued, running, stopping, crashVars, slotVars, up, agentVars>>

\* runtime.start raised.  With Docker failing, the container may be running
\* all the same: the answer to its start was lost.
CreateFails(t, s) ==
  /\ Resumes(t, s, {"create"})
  /\ \/ UNCHANGED up
     \/ DockerMayFail /\ up' = [up EXCEPT ![s] = TRUE]
  /\ state' = [state EXCEPT ![s] = "offline"]
  /\ Leaves(t, s)
  /\ ReleasesSlot(t)
  /\ UNCHANGED <<lockq, queued, running, stopping, crashVars, agentVars>>

\* The bind was refused and the port is chosen by the agent: _checks picks
\* the next one, and it is launched again.
CreateTaken(t, s) ==
  /\ Resumes(t, s, {"create"})
  /\ s \in PortAuto
  /\ state' = [state EXCEPT ![s] = "offline"]
  /\ Goto(t, "recheck")
  /\ UNCHANGED <<lock, lockq, queued, running, stopping, crashVars, slotVars, up, agentVars>>

\* runtime.start returned the handle: the lock is released, and the slot is
\* kept by a task that watches the boot (_hold_slot).
Attached(t, s) ==
  /\ Resumes(t, s, {"attached"})
  /\ running' = [running EXCEPT ![s] = TRUE]
  /\ task' = [task EXCEPT ![t] = [kind |-> "hold", srv |-> s, pc |-> "hold",
                                  again |-> FALSE]]
  /\ lock' = [lock EXCEPT ![s] = NoTask]
  /\ UNCHANGED <<lockq, queued, state, stopping, crashVars, slotVars, up, agentVars>>

\* A bug: the slot is given back while the server still boots.
HoldEndsAtOnce(t, s) ==
  /\ Resumes(t, s, {"hold"})
  /\ Ends(t)
  /\ ReleasesSlot(t)
  /\ UNCHANGED <<lock, lockq, queued, state, running, stopping, crashVars, up, agentVars>>

\* A bug: the watch has no deadline.
HoldHasNoDeadline(t, s) ==
  /\ Resumes(t, s, {"hold"})
  /\ state[s] # "starting" \/ ~running[s]
  /\ Ends(t)
  /\ ReleasesSlot(t)
  /\ UNCHANGED <<lock, lockq, queued, state, running, stopping, crashVars, up, agentVars>>

\* hold(): it is up, or gone, or slow past the timeout.
HoldEnds(t, s) ==
  /\ Resumes(t, s, {"hold"})
  /\ state[s] # "starting" \/ ~running[s] \/ BootTimeouts
  /\ Ends(t)
  /\ ReleasesSlot(t)
  /\ UNCHANGED <<lock, lockq, queued, state, running, stopping, crashVars, up, agentVars>>

-----------------------------------------------------------------------------
(* stop, restart, kill, restore: power, _stop, _restore.                   *)

\* What follows _stop: nothing, _start, or the restore, which is refused if
\* the server would not stop.
AfterStop(t, s) ==
  \/ task[t].kind = "restart" /\ BeginsStart(t, s)
  \/ task[t].kind = "restore" /\ ~running[s] /\ Suspends(t, s, "restoring")
  \/ task[t].kind = "restore" /\ running[s] /\ Leaves(t, s)
  \/ task[t].kind = "stop" /\ Leaves(t, s)

\* _stop of a server that waits to start: it no longer waits.
GrantStopQueued(t, s) ==
  /\ task[t].kind \in {"stop", "restart", "restore"} /\ Granted(t, s)
  /\ task[t].kind = "restore" => running[s]
  /\ queued[s] # NoTask
  /\ CancelsQueued(s)
  /\ state' = [state EXCEPT ![s] = "offline"]
  /\ IF task[t].kind = "restart" /\ ~running[s]
       THEN /\ task' = [task EXCEPT ![queued[s]] = Idle, ![t].pc = "check"]
            /\ lock' = [lock EXCEPT ![s] = t]
       ELSE /\ task' = [task EXCEPT ![queued[s]] = Idle, ![t] = Idle]
            /\ lock' = [lock EXCEPT ![s] = NoTask]
  /\ UNCHANGED <<running, stopping, crashVars, up, agentVars>>

\* _stop of a server that does not run does nothing.
GrantStopIdle(t, s) ==
  /\ task[t].kind \in {"stop", "restart"} /\ Granted(t, s)
  /\ queued[s] = NoTask /\ ~running[s]
  /\ AfterStop(t, s)
  /\ UNCHANGED <<queued, state, running, stopping, crashVars, slotVars, up, agentVars>>

\* _stop of a running server: the stop command is typed.  A restore notes
\* whether it has to start the server again (was_running and start_after).
GrantStopRunning(t, s) ==
  /\ task[t].kind \in {"stop", "restart", "restore"} /\ Granted(t, s)
  /\ queued[s] = NoTask /\ running[s]
  /\ stopping' = [stopping EXCEPT ![s] = TRUE]
  /\ state' = [state EXCEPT ![s] = "stopping"]
  /\ \E again \in BOOLEAN :
       /\ again => task[t].kind = "restore"
       /\ task' = [task EXCEPT ![t].pc = "stopping", ![t].again = again]
  /\ lock' = [lock EXCEPT ![s] = t]
  /\ UNCHANGED <<queued, running, crashVars, slotVars, up, agentVars>>

\* The server exited: running.stop returns and srv.running is None.
StopSeen(t, s) ==
  /\ Resumes(t, s, {"stopping", "stopwait"})
  /\ ~running[s]
  /\ AfterStop(t, s)
  /\ UNCHANGED <<lockq, queued, state, running, stopping, crashVars, slotVars, up, agentVars>>

\* A bug: the wait for the server's exit has no timeout.
StopHasNoTimeout(t, s) == FALSE

\* stop_timeout passed: Docker stops the container.
StopTimesOut(t, s) ==
  /\ Resumes(t, s, {"stopping"}) /\ running[s]
  /\ \/ up' = [up EXCEPT ![s] = FALSE]
     \/ DockerMayFail /\ UNCHANGED up
  /\ Goto(t, "stopwait")
  /\ UNCHANGED <<lock, lockq, queued, state, running, stopping, crashVars, slotVars, agentVars>>

\* Ten seconds later its exit has not been seen: it is killed, and nobody
\* waits for that.
StopKills(t, s) ==
  /\ Resumes(t, s, {"stopwait"}) /\ running[s]
  /\ \/ up' = [up EXCEPT ![s] = FALSE]
     \/ DockerMayFail /\ UNCHANGED up
  /\ AfterStop(t, s)
  /\ UNCHANGED <<lockq, queued, state, running, stopping, crashVars, slotVars, agentVars>>

\* Docker cannot be reached: the request fails where it is.
StopFails(t, s) ==
  /\ DockerMayFail
  /\ Resumes(t, s, {"stopping", "stopwait", "killing"})
  /\ Leaves(t, s)
  /\ UNCHANGED <<lockq, queued, state, running, stopping, crashVars, slotVars, up, agentVars>>

GrantKill(t, s) ==
  /\ task[t].kind = "kill" /\ Granted(t, s)
  /\ IF running[s]
       THEN /\ stopping' = [stopping EXCEPT ![s] = TRUE]
            /\ Suspends(t, s, "killing")
       ELSE Leaves(t, s) /\ UNCHANGED stopping
  /\ UNCHANGED <<queued, state, running, crashVars, slotVars, up, agentVars>>

Killed(t, s) ==
  /\ Resumes(t, s, {"killing"})
  /\ up' = [up EXCEPT ![s] = FALSE]
  /\ Leaves(t, s)
  /\ UNCHANGED <<lockq, queued, state, running, stopping, crashVars, slotVars, agentVars>>

\* A bug: whether the server runs is not looked at.
GrantRestoreAnyway(t, s) ==
  /\ task[t].kind = "restore" /\ Granted(t, s)
  /\ Suspends(t, s, "restoring")
  /\ UNCHANGED <<queued, state, running, stopping, crashVars, slotVars, up, agentVars>>

\* A restore of a server that is not running (one that waits to start, too).
GrantRestore(t, s) ==
  /\ task[t].kind = "restore" /\ Granted(t, s)
  /\ ~running[s]
  /\ Suspends(t, s, "restoring")
  /\ UNCHANGED <<queued, state, running, stopping, crashVars, slotVars, up, agentVars>>

\* The files are back, or could not be put back; after the first, a server
\* that was running is started again.
RestoreEnds(t, s) ==
  /\ Resumes(t, s, {"restoring"})
  /\ \/ task[t].again /\ BeginsStart(t, s)
     \/ Leaves(t, s)
  /\ UNCHANGED <<lockq, queued, state, running, stopping, crashVars, slotVars, up, agentVars>>

-----------------------------------------------------------------------------
(* What the server does: on_output, _exited, later.                        *)

ProcessDies(s) ==
  /\ LoopFree
  /\ up[s]
  /\ up' = [up EXCEPT ![s] = FALSE]
  /\ UNCHANGED <<requestVars, queued, state, running, stopping, crashVars, slotVars, agentVars>>

\* The server logs "Done".
BootDone(s) ==
  /\ LoopFree
  /\ running[s] /\ state[s] = "starting"
  /\ state' = [state EXCEPT ![s] = "running"]
  /\ UNCHANGED <<requestVars, queued, running, stopping, crashVars, slotVars, up, agentVars>>

\* Its console stream ended -- because it exited or, with Docker failing,
\* only the stream did.
ExitSeen(s) == LoopFree /\ running[s] /\ (~up[s] \/ DockerMayFail)

\* An exit somebody asked for, or one with a code that is a clean stop for a
\* server that was up.
ExitedClean(s) ==
  /\ ExitSeen(s)
  /\ stopping[s] \/ state[s] = "running"
  /\ running' = [running EXCEPT ![s] = FALSE]
  /\ state' = [state EXCEPT ![s] = "offline"]
  /\ UNCHANGED <<requestVars, queued, stopping, crashVars, slotVars, up, agentVars>>

\* Any other exit is a crash: short of a crash loop, a restart is set up.
ExitedCrash(s) ==
  /\ ExitSeen(s)
  /\ ~stopping[s]
  /\ running' = [running EXCEPT ![s] = FALSE]
  /\ state' = [state EXCEPT ![s] = "crashed"]
  /\ crashes' = [crashes EXCEPT ![s] = IF @ < CrashLoopCount THEN @ + 1 ELSE @]
  /\ timers' = IF crashes[s] + 1 < CrashLoopCount /\ s \in CrashRestart
                 THEN [timers EXCEPT ![s] = @ + 1] ELSE timers
  /\ UNCHANGED <<requestVars, queued, stopping, slotVars, up, agentVars>>

\* later(): the backoff is over; it wants the lock.
TimerFires(t, s) ==
  /\ LoopFree
  /\ IsIdle(t) /\ timers[s] > 0
  /\ timers' = [timers EXCEPT ![s] = @ - 1]
  /\ ComesToLock(t, "later", s)
  /\ UNCHANGED <<queued, state, running, stopping, crashes, slotVars, up, agentVars>>

\* The oldest crash leaves the ten-minute window.  The backoffs are far
\* shorter, so its own timer has fired by then.
CrashForgotten(s) ==
  /\ LoopFree
  /\ crashes[s] > timers[s]
  /\ crashes' = [crashes EXCEPT ![s] = @ - 1]
  /\ UNCHANGED <<requestVars, queued, state, running, stopping, timers, slotVars, up, agentVars>>

-----------------------------------------------------------------------------
(* Requests; installs and deletions, which do not take the lock.           *)

Request(t, k, s) ==
  /\ LoopFree
  /\ serving /\ known[s] /\ IsIdle(t)
  /\ k \in Requests \ {"install", "delete"}
  /\ ComesToLock(t, k, s)
  /\ UNCHANGED <<queued, state, running, stopping, crashVars, slotVars, up, agentVars>>

\* start_install refuses a running server and spawns _install.
InstallRequest(t, s) ==
  /\ LoopFree
  /\ serving /\ known[s] /\ IsIdle(t)
  /\ "install" \in Requests
  /\ ~running[s]
  /\ task' = [task EXCEPT ![t] = [kind |-> "install", srv |-> s, pc |-> "created",
                                  again |-> FALSE]]
  /\ UNCHANGED <<lock, lockq, queued, state, running, stopping, crashVars, slotVars, up, agentVars>>

InstallBegins(t, s) ==
  /\ Resumes(t, s, {"created"})
  /\ state' = [state EXCEPT ![s] = "installing"]
  /\ Goto(t, "installing")
  /\ UNCHANGED <<lock, lockq, queued, running, stopping, crashVars, slotVars, up, agentVars>>

InstallEnds(t, s) ==
  /\ Resumes(t, s, {"installing"})
  /\ state' = IF state[s] = "installing" THEN [state EXCEPT ![s] = "offline"] ELSE state
  /\ Ends(t)
  /\ UNCHANGED <<lock, lockq, queued, running, stopping, crashVars, slotVars, up, agentVars>>

\* delete: a queued start is cancelled, a running server killed.
DeleteRequest(t, s) ==
  /\ LoopFree
  /\ serving /\ known[s] /\ IsIdle(t)
  /\ "delete" \in Requests
  /\ LET next == [kind |-> "delete", srv |-> s, again |-> FALSE,
                  pc |-> IF running[s] THEN "delkill" ELSE "delremove"]
     IN  IF queued[s] # NoTask
           THEN /\ CancelsQueued(s)
                /\ task' = [task EXCEPT ![queued[s]] = Idle, ![t] = next]
           ELSE /\ UNCHANGED <<queued, slotVars>>
                /\ task' = [task EXCEPT ![t] = next]
  /\ stopping' = IF running[s] THEN [stopping EXCEPT ![s] = TRUE] ELSE stopping
  /\ UNCHANGED <<lock, lockq, state, running, crashVars, up, agentVars>>

DeleteKilled(t, s) ==
  /\ Resumes(t, s, {"delkill"})
  /\ up' = [up EXCEPT ![s] = FALSE]
  /\ Goto(t, "delremove")
  /\ UNCHANGED <<lock, lockq, queued, state, running, stopping, crashVars, slotVars, agentVars>>

\* The container is removed, then the server's record and its spec.
DeleteDone(t, s) ==
  /\ Resumes(t, s, {"delremove"})
  /\ up' = [up EXCEPT ![s] = FALSE]
  /\ known' = [known EXCEPT ![s] = FALSE]
  /\ Ends(t)
  /\ UNCHANGED <<lock, lockq, queued, state, running, stopping, crashVars, slotVars, serving, toAdopt>>

DeleteFails(t, s) ==
  /\ DockerMayFail
  /\ Resumes(t, s, {"delkill", "delremove"})
  /\ Ends(t)
  /\ UNCHANGED <<lock, lockq, queued, state, running, stopping, crashVars, slotVars, up, agentVars>>

-----------------------------------------------------------------------------
(* An agent restart: shutdown, load, adopt_running.                        *)

\* The agent stops; its servers keep running.  The next one reads the specs
\* and asks Docker which servers run -- an answer it may not get.
AgentStops ==
  /\ LoopFree
  /\ AgentRestarts
  /\ task' = [t \in Tasks |-> Idle]
  /\ lock' = [s \in Servers |-> NoTask]
  /\ lockq' = [s \in Servers |-> <<>>]
  /\ queued' = [s \in Servers |-> NoTask]
  /\ state' = [s \in Servers |-> "offline"]
  /\ running' = [s \in Servers |-> FALSE]
  /\ stopping' = [s \in Servers |-> FALSE]
  /\ crashes' = [s \in Servers |-> 0]
  /\ timers' = [s \in Servers |-> 0]
  /\ bootSlots' = MaxBoots
  /\ bootWaiters' = <<>>
  /\ bootHeld' = {}
  /\ serving' = FALSE
  /\ \/ toAdopt' = {s \in Servers : known[s] /\ up[s]}
     \/ DockerMayFail /\ toAdopt' = {}
  /\ UNCHANGED <<up, known>>

\* The next server found, in the middle of being re-attached.
AdoptBegins(t, s) ==
  /\ LoopFree
  /\ IsIdle(t) /\ \A u \in Tasks : task[u].kind # "adopt"
  /\ s \in toAdopt /\ ~running[s]
  /\ lock[s] = NoTask /\ lockq[s] = <<>>
  /\ task' = [task EXCEPT ![t] = [kind |-> "adopt", srv |-> s, pc |-> "adopting",
                                  again |-> FALSE]]
  /\ lock' = [lock EXCEPT ![s] = t]
  /\ state' = [state EXCEPT ![s] = "starting"]
  /\ stopping' = [stopping EXCEPT ![s] = FALSE]
  /\ UNCHANGED <<lockq, queued, running, crashVars, slotVars, up, agentVars>>

\* Its handle is back.  Its last lines say whether it is up; if not, it
\* counts against the boot slots while there are any.
Adopted(t, s) ==
  /\ Resumes(t, s, {"adopting"})
  /\ up[s]
  /\ running' = [running EXCEPT ![s] = TRUE]
  /\ lock' = [lock EXCEPT ![s] = NoTask]
  /\ toAdopt' = toAdopt \ {s}
  /\ \E seen \in {"starting", "running"} :
       /\ state' = [state EXCEPT ![s] = seen]
       /\ IF seen = "starting" /\ ~Locked
            THEN /\ TakesSlot(t)
                 /\ task' = [task EXCEPT ![t] = [kind |-> "hold", srv |-> s,
                                                 pc |-> "hold", again |-> FALSE]]
            ELSE Ends(t) /\ UNCHANGED slotVars
  /\ UNCHANGED <<lockq, queued, stopping, crashVars, up, known, serving>>

\* It exited meanwhile, or Docker would not attach it.
AdoptFails(t, s) ==
  /\ Resumes(t, s, {"adopting"})
  /\ ~up[s] \/ DockerMayFail
  /\ Leaves(t, s)
  /\ state' = [state EXCEPT ![s] = "offline"]
  /\ toAdopt' = toAdopt \ {s}
  /\ UNCHANGED <<lockq, queued, running, stopping, crashVars, slotVars, up, known, serving>>

\* Sixty seconds were not enough: adopt_running is cancelled where it is.
AdoptTimesOut ==
  /\ LoopFree
  /\ ~serving /\ toAdopt # {} /\ DockerMayFail
  /\ toAdopt' = {}
  /\ serving' = TRUE
  /\ task' = [t \in Tasks |-> IF task[t].kind = "adopt" THEN Idle ELSE task[t]]
  /\ lock' = [s \in Servers |-> IF \E t \in Tasks : At(t, s, "adopting")
                                  THEN NoTask ELSE lock[s]]
  /\ UNCHANGED <<lockq, queued, state, running, stopping, crashVars, slotVars, up, known>>

\* A bug: the agent answers before every server found was looked at.
AgentServesEarly ==
  /\ LoopFree
  /\ ~serving
  /\ serving' = TRUE
  /\ UNCHANGED <<requestVars, queued, state, running, stopping, crashVars, slotVars, up, known, toAdopt>>

AgentServes ==
  /\ LoopFree
  /\ ~serving /\ toAdopt = {}
  /\ serving' = TRUE
  /\ UNCHANGED <<requestVars, queued, state, running, stopping, crashVars, slotVars, up, known, toAdopt>>

-----------------------------------------------------------------------------

\* t goes on with the lock of its server.
GrantStep(t, s) ==
  \/ GrantStart(t, s) \/ GrantLater(t, s) \/ GrantQueued(t, s)
  \/ GrantStopQueued(t, s) \/ GrantStopIdle(t, s) \/ GrantStopRunning(t, s)
  \/ GrantKill(t, s) \/ GrantRestore(t, s)

\* What t awaits is over.
AwaitStep(t, s) ==
  \/ CheckRefused(t, s) \/ CheckLaunches(t, s) \/ CheckQueues(t, s)
  \/ SlotRun(t, s) \/ Launch(t, s) \/ Create(t, s) \/ CreateFails(t, s)
  \/ CreateTaken(t, s) \/ Attached(t, s) \/ HoldEnds(t, s)
  \/ StopSeen(t, s) \/ StopTimesOut(t, s) \/ StopKills(t, s) \/ StopFails(t, s)
  \/ Killed(t, s) \/ RestoreEnds(t, s)
  \/ InstallBegins(t, s) \/ InstallEnds(t, s)
  \/ DeleteKilled(t, s) \/ DeleteDone(t, s) \/ DeleteFails(t, s)
  \/ Adopted(t, s) \/ AdoptFails(t, s)

TaskStep(t, s) == GrantStep(t, s) \/ AwaitStep(t, s)

\* Something new for the agent to do.
ArrivalStep(t, s) ==
  \/ TimerFires(t, s) \/ InstallRequest(t, s) \/ DeleteRequest(t, s)
  \/ \E k \in Requests : Request(t, k, s)

ServerStep(s) ==
  \/ ProcessDies(s) \/ BootDone(s) \/ ExitedClean(s) \/ ExitedCrash(s)
  \/ CrashForgotten(s)

AgentStep ==
  \/ AgentStops \/ AdoptTimesOut \/ AgentServes
  \/ \E t \in Tasks, s \in Servers : AdoptBegins(t, s)

Next ==
  \/ \E t \in Tasks, s \in Servers : TaskStep(t, s) \/ ArrivalStep(t, s)
  \/ \E s \in Servers : ServerStep(s)
  \/ AgentStep

Spec == Init /\ [][Next]_vars

\* The event loop runs every task that is ready, every call to Docker ends
\* (each has a timeout), and an exit that happened is reported.  Nothing makes
\* a server boot, die or be asked for.  Fairness is strong only because a task
\* that goes on at once holds the others up for a step.
Fairness ==
  /\ \A t \in Tasks : SF_vars(\E s \in Servers : TaskStep(t, s))
  /\ \A s \in Servers : SF_vars(ExitedClean(s) \/ ExitedCrash(s))

FairSpec == Spec /\ Fairness
-----------------------------------------------------------------------------
(* Properties.                                                             *)

\* The boot semaphore neither leaks a slot nor hands one out twice, whatever
\* is cancelled, refused or fails: its value and the slots in use add up to
\* max_concurrent_boots, and a coroutine that will give a slot back has one.
BootSlotsConserved ==
  /\ bootSlots + Cardinality(bootHeld) = MaxBoots
  /\ \A t \in Tasks : OwnsSlot(t) => t \in bootHeld
  /\ \A t \in bootHeld : OwnsSlot(t) \/ task[t].pc = "slot"

\* A node boots at most max_concurrent_boots servers at a time (_start).
BootsBounded ==
  Cardinality({s \in Servers : running[s] /\ state[s] = "starting"}) <= MaxBoots

\* A restore never writes into the folder of a server that is running
\* (_restore: "the server would not stop, so nothing was restored").
RestoreExclusive ==
  \A t \in Tasks, s \in Servers : At(t, s, "restoring") => ~up[s]

\* Once the agent serves, every running container of a server it has is one
\* it has a handle on, or is about to: none runs unseen, out of reach of
\* stop and kill.
ContainerHasHandle ==
  serving => \A s \in Servers :
    up[s] /\ known[s] => running[s] \/ \E t \in Tasks : At(t, s, "attached")

\* A server shown as waiting to start is waiting: a task in the queue of the
\* semaphore, or one already past it, is going to start it.
QueuedIsWaiting ==
  \A s \in Servers : state[s] = "queued" =>
    \E t \in Tasks :
      /\ task[t].kind = "startq" /\ task[t].srv = s
      /\ \/ task[t].pc = "slot" /\ queued[s] = t
         \/ task[t].pc \in {"lock", "enter", "check", "ports"}

\* A server waiting to start does not wait for ever, as long as boots end.
QueueMoves == \A s \in Servers : state[s] = "queued" ~> state[s] # "queued"

\* Whoever holds a server's lock lets go of it: no request hangs behind
\* another for ever.
LockFreed == \A s \in Servers : lock[s] # NoTask ~> lock[s] = NoTask

-----------------------------------------------------------------------------
(* Small nodes for TLC.                                                    *)

\* Tasks are interchangeable.
TaskSymmetry == Permutations(Tasks)

\* Every server has a port of its own.
OwnPorts == [s \in Servers |-> s]
=============================================================================
