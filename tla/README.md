# A formal model of BlessForge

BlessForge is a control panel for Minecraft servers. A *panel* (`app/`, FastAPI,
Postgres, Redis) tells *node agents* (`agent/`, one per machine) what should
run; an agent keeps the servers of its machine in Docker containers. This
directory holds TLA+ modules of the parts whose correctness depends on the
order in which things happen, the TLC configurations that check them on small
instances, and proofs that hold for every size.

Contents: 1 Inventory · 2 Plan · 3 The modules · 4 Runs, bounds and
fairness · 5 Proofs · 6 What the code does that its documents do not say ·
7 What is left out.

## 1. Inventory

### The node (`agent/`)

| Part | State | Operations | Hard behaviour | Correct when | Module |
|---|---|---|---|---|---|
| `servers.py` supervisor | per server: `state`, `running`, `stopping`, `crashes`, `lock`; `queued`, `boot_slots` | power, boot queue, launch, stop, exits, crash timers, restore, install, delete, adoption | requests, timers, exits and restarts of the agent interleave on one event loop | slots conserved; stopped servers stay down; restores alone; no container without a handle | Supervisor, SupervisorHistory |
| `containers.py` runtime | images, handles, consoles | pull, create, attach, start, stop, adopt, install | a Docker call that fails, is slow or loses its answer | an image is fetched once, an exit is real, a console whole | Containers |
| `worldbackup.py` | objects, manifests, index | take, restore, delete, prune, collect | a death in the middle, a game that writes meanwhile | a snapshot is one moment and stays whole | WorldBackup, BackupCatalogue |
| `events.py` | a bounded queue, drop counters | emit, flush | lost answers, overflow during a flush | nothing is lost uncounted | AgentEvents |
| `downloads.py` | a cache by SHA-1 | fetch, evict | two fetches of one file, eviction of a file in use | what lands has its hash | Downloads |
| `files.py` | the folder of a server | list, read, write, upload, copy, move, delete, archive | each system call beside those of other requests and of the server | stays inside, files whole | ServerFiles |
| `main.py` | desired state, console sockets | reconcile, follow a console | restarts | panel and agent agree | DesiredState, ConsoleRelay |

### The panel (`app/`)

| Part | Hard behaviour | Correct when | Module |
|---|---|---|---|
| `jobs.py`, `worker.py` | followers that join late, a worker that dies, two readers that notice it | a follower misses no frame, a job runs once | JobStream |
| `static/js/jobs.js` | a stream that breaks, overruns, is forgotten | the card says what is true | JobsClient |
| `schedules.py` | several loops, runs missed while down, chains | a due time runs at most once | Schedules |
| `auth.py`, `access.py` | administrators that change each other, codes used twice | somebody can always get in | Accounts, SignIn |
| `fleetgroups.py` | a layout saved while it changes | the tables hold what is shown | FleetGroups |
| `fleetbus.py`, `agent_api.py`, `app.js` | pushes without a memory, shared readings | a page comes to show the state | FleetPage |
| `console_hub.py` | viewers with bounded queues, an agent that restarts | no hole | ConsoleRelay |
| `whitelist.py` | saves in the order of requests, a database that is away | the latest decision counts | Decisions |
| `engine/agent.py` | calls whose answer is lost | row and spec agree when it is quiet | DesiredState |
| `installer.py`, `provision.py`, `packs.py`, `uploads.py` | failure and death at any step | every mod is accounted for | ModpackInstall, ServerJar, Imports |
| `curseforge.py`, `cache.py` | two jobs on one archive, pruning | what is used is whole | JarCache |
| `repair.py`, `smoketest.py` | a loop that must end, logs of an older boot | a repair gets on, a boot is its own | Repair, BootTest |
| `mods.py`, `deps.py`, `blocked.py` | manifests read, changed and written by several | what is recorded is so | AddMod, ModRecords |
| `clientscan.py`, `diagnostics.py` | evidence of several sources, some of them away | a mod is blamed for a cause | ClientScan, Diagnosis |
| `backups.py` | requests that overlap, a prune by name | a change can be undone | ModSnapshots |
| `ai.py`, `optimizer.py` | whatever a model answers | nothing harmful, nothing untold | Assistant, Advice |
| `heap.py`, `perf.py` | three places that name one number | the heap fits its container | Heap |
| `jarupdates.py` | a job that dies half-way | the command names a jar that is there | ServerJar |
| `players.py` | lists in files and in the memory of the game | a promise is kept in both | Players |
| `history.py` | two loops, roll-ups in two transactions | a minute is kept and counts once | History |
| `roulette.py`, `kinship.py` | rounds, conflicts, add-ons | a hand is real and agrees | Roulette |

Parts without a module, and the reason for each, are in section 7; `PROJECT.json`
lists every part with what of it is modelled. The 40 hazards listed there are the
places in the code that a test hardly reaches; every one names the property that
would notice it going wrong.

## 2. Plan

What the plan named in its order: the supervisor, the job stream, the events, the
backups, the schedules, caches and relays, the sequential protocols of the panel,
and the decisions that are computed from evidence. All of it is written and
checked. Proved so far: the supervisor's conservation of slots, what its lock is good
for, and that a server that was stopped stays down; the store of backups, its
refinement, the moment a snapshot is of and the net under a restore; the queue of
events; the job stream; the claim of a scheduled run, chains and one-time
tasks; the last administrator, and that requests about administrators queue; what an
account remembers of its codes; the layout of the racks; the decisions about jars and
the agreement of row and spec; the console, from the ring of the agent to the page; and
what a page shows of the fleet and of a job; the repairs and test boots of a server,
its jar and its heap; the files that are fetched for it; what a mod that is added requires
and what is recorded of the jars (section 5).

What is left, in order of what it would say: proofs of `ServersAreRun` (containers and
players) and of the part of `FilesHold` about the panel's cache of archives (JarCache), for
which nothing is in the way but the work; jobs that run in
the API process, and the trimming of a job's stream.

## 3. The modules

One action is what one process does between two points at which another can come
in between: an `await`, a call of the database or of Docker, a system call of a
thread. What goes wrong (a call that fails, an answer that is lost, a process that
dies) is an action or a branch of one, and a bound says how often. Operators under
a comment "A bug: …" are not part of a specification: each is a plausible mistake
in one definition, kept to show that a property notices it.

### Supervisor

`Supervisor.tla` models one agent: all of `agent/servers.py` that decides when a
server starts and stops, and the steps of `agent/containers.py` it awaits.

**State.** `state`, `running`, `stopping` and `crashes` are the fields of
`Server`; `running` is "is not None". `lock` and `lockq` are `srv.lock`: its
holder and its waiters in order. `bootSlots` and `bootWaiters` are the value and
the waiters of `boot_slots`; `bootHeld` is who a slot has been given to.
`queued[s]` is the entry of `Supervisor.queued`: the task in `_start_queued`.
`timers[s]` counts the `later()` tasks that sleep out their backoff. Outside the
agent, `up[s]` says that Docker runs the container. `known` is the spec on disk;
`serving` and `toAdopt` are where the agent is in its start-up.

**Tasks.** A coroutine is a *task*: what it is (`kind`), its server, and the
await it is suspended at (`pc`). The pool `Tasks` bounds how many exist at once.
An action takes a task from one await to the next, since nothing else runs in
between on one event loop. A request that finds `srv.lock` free does not
suspend; the model splits that into arrival and pc `enter`, during which nothing
else moves (`LoopFree`), so that each handler's body is written once.

| Code | Actions |
|---|---|
| `power`, the lock | `Request`, `GrantStart`, `GrantStop…`, `GrantKill` |
| `_start`, `_checks` | `BeginsStart`, `CheckRefused`, `CheckLaunches`, `CheckQueues` |
| `_start_queued` | `SlotRun`, `GrantQueued`, then the checks and launch |
| `_launch`, `runtime.start` | `Launch`, `Create`, `CreateFails`, `CreateTaken`, `Attached` |
| `_hold_slot` | `HoldEnds` |
| `_stop`, `running.stop`, `kill` | `GrantStopQueued`, `GrantStopIdle`, `GrantStopRunning`, `StopSeen`, `StopTimesOut`, `StopKills`, `StopFails`, `Killed` |
| `_restore` | `GrantRestore` or the stop actions, `AfterStop`, `RestoreEnds` |
| `on_output`, `_exited`, `later` | `BootDone`, `ExitedClean`, `ExitedCrash`, `TimerFires`, `GrantLater`, `CrashForgotten` |
| `start_install`, `_install` | `InstallRequest`, `InstallBegins`, `InstallEnds` |
| `delete` | `DeleteRequest`, `DeleteKilled`, `DeleteDone`, `DeleteFails` |
| `shutdown`, `load`, `adopt_running`, `lifespan` | `AgentStops`, `AdoptBegins`, `Adopted`, `AdoptFails`, `AdoptTimesOut`, `AgentServes` |

**Abstractions.** Time is choice: a timeout may fire whenever its wait is still
on, a backoff may end at any moment, and crashes leave the ten-minute window one
by one, none before its own timer fired (the backoffs are at most 45 s).
`crashes` stops counting at `CrashLoopCount`. The checks may refuse for reasons
the model does not hold (no command, overcommit): `CheckRefused` has no guard on
why; `CheckLaunches` needs the port to be free. An automatic port is free when
it is chosen, so automatic servers hold no port others see. "switch" is a stop
of one server and a start of another, and the disk watchdog and auto-start are
requests. The wait for an install slot is part of pc `installing`, and for the
backup lock of pc `restoring`. The task of `hold()` keeps the identity of the
start it follows. `StopKills` joins the kill's await to the step before it. A
call in Docker's hands when the agent stops either took effect by then or never
does. `delete` followed by a new `put` of the same server, and the process
runtime (development only), are not modelled.

**SupervisorHistory.tla** adds `verdict`: why a server should be down. It becomes
"halted" when a stop of a running server is answered, "cancelled" when a stop of
one that does not run is, "loop" when a crash loop is declared, and "none" when
somebody asks for the server again or such a request already waits behind the
one answered. A request for it is a start, a restart, or a restore, which starts a
server again that it found running. A stop that ends because the agent does is not
answered.

### JobStream

`JobStream.tla` follows one job of `app/jobs.py` and `app/worker.py` from
`submit` to its last frame. Four kinds of process share Redis: the API that
submits, the worker's coroutine `run_job` with the body of the job, the job's
`Pump`, and the readers, each one activation of `follow()` or `cancel()`.

**State.** `stream`, `record` and `flag` are the three keys of the job in Redis
and `beat` the heartbeats; `queue` and `tries` are what arq knows. `job` is the
`Job` object, reduced to its status and the number of frames it has emitted:
frames are numbered, a snapshot is the number it reflects (`upto`) and the event
id it is stamped with (`last`), an event id a position in `stream`. `pump` is the
drain of `Pump._run`: what it has taken from its queue, what it has added, the
last id, and where it is suspended. `record.fresh` and `beat` stand for
`HEARTBEAT_TTL`: time makes them false. `told` and `ran` are histories: whether a
cancel was answered with True while the job was still queued, and how often its
body was started. `trouble` is the budget of what goes wrong: processes that stop,
and `Troubles` of the kinds "fault" (a call to Redis or the database fails),
"late" (a live process misses its heartbeat) and "hour" (the flag of a cancel
expires); it remembers which kinds there were.

| Code | Actions |
|---|---|
| `submit` | `SubmitRecords`, `SubmitEnqueues`, `SubmitBreaks` |
| arq (external), `max_tries` | `PickUp`, `Exhausted`, `Redelivered` |
| `worker.run_job`, `jobs.run_job` | `CheckCancelled`, `CheckPasses`, `StartFails`, `Starts`, `BodyEmits`, `BodyEnds`, `WatchCancels`, `Closed` |
| `Pump._run`, `write_snapshot`, `close` | `PumpTakes`, `PumpAdds`, `PumpSnaps`, `PumpStores`, `PumpFails`, `PumpGivenUp` |
| heartbeat, shutdown, death | `Beats`, `BeatExpires`, `WorkerStops`, `WorkerStopped`, `WorkerDies` |
| `snapshot`, `_reconcile` | `Looks`, `OwnerLookedUp`, `Declares`, `DeclareStored` |
| `follow`, `cancel` | `Begins`, `Gets`, `LooksAgain`, `FlagSets` |

**Abstractions.** Every await on Redis is a point of interleaving: the effect of
a call and the return of its answer are apart where something can happen in
between that matters (`PumpAdds`, then `PumpSnaps`). A pipeline takes effect as a
whole or not at all. The frames a body emits on its last stretch are two: one
that says how it ended and the end frame. What arq does with a job whose worker
is gone or that raised `CancelledError` (deliver it again, then refuse it for
`max_tries`) is external. A stream is not trimmed.

### AgentEvents

`AgentEvents.tla` has both ends of `POST /api/agent/events`. Each event is a
number and reports a state of one server. `queue`, `dropped` and `reported` are the
fields of `Events`; `post` is the one that `flush()` awaits, `wire` the posts that
the panel has yet to handle. `Emit` may come between any two steps of a flush.
`FlushFails` is every way a flush can fail: unreachable, refused, no answer in 15
seconds; the panel may have handled the post by then, do so later or never get
it. `late` remembers that the panel handled a post after the agent had given up
on it. `ShutsDown` cancels `run()` wherever it is and leaves one more flush.
`PanelHandles` goes through a batch and commits. The server is not being
installed into (its status is then left alone), and audit lines are only the
drop count, `told`.

### WorldBackup and BackupCatalogue

`WorldBackup.tla` is `agent/worldbackup.py` with what surrounds it in
`agent/servers.py`. `world` is the folder, `server` and `saving` the game (it
writes while saving is "on" or "flushing"), `disk` the store: objects, manifests
and the index. A job is one coroutine: it takes the lock of the server and the
backup lock (`LocksServer`, `LocksForBackup`, `LocksForRestore`,
`LocksForDelete`), has the game stop saving and copies file after file
(`BeginsCopy`, `CopiesOne`, `Skips`), publishes manifest and then index
(`WritesManifest`, `WritesIndex`), trims to `Keep`, unlists, unlinks and collects
what no manifest names (`Unlists`, `Unlinks`, `Collects`); a restore first takes a
snapshot of what it is about to overwrite, then wipes and writes back (`Stops`,
`Wipes`, `WritesBack`). `AgentDies` may come between any two of these. `net` is
what the last restore was promised.

`BackupCatalogue.tla` is what the store promises, in two actions: a snapshot
appears as a whole (`Publish`) and one disappears (`Forget`). WorldBackup
implements it, and the mapping says for each step which snapshot it may publish or
forget: `ImplementsCatalogue`.

### The other modules

| Module | Code | One step is | Left to choice |
|---|---|---|---|
| Schedules | `schedules.py`: `run_due`, claim, chain, one-time tasks, `update_task` of any part of a task | a database session or a call of the engine | time, edits, deaths of loops |
| Accounts | `auth.py`: bootstrap, set role, disable, delete | a statement of a transaction; row locks, "look again" after a wait and the undoing of a deadlock are Postgres's (external) | who asks what |
| SignIn | `auth.py`, `access.py`: password, TOTP, recovery codes, lock-out | a transaction (each locks the account's row) | the clock, answers |
| FleetGroups | `fleetgroups.py`: racks, assignments, observations, `_save` | a statement of `_save` | polls, failed saves, restarts |
| FleetPage | `fleetbus.py`, `agent_api.py`, `engine/agent.py`, `app.js` | a message, a fetch, a poll | lost messages, timeouts |
| Downloads | `agent/downloads.py`: `fetch_many`, `one`, `prune`, `drop` | an await or a system call on a thread | failures, files that rot |
| ConsoleRelay | `servers.py` Console, `console_hub.py`, `tab-console.js` | a frame, a line, a poll | lost sockets, agent restarts |
| JobsClient | `static/js/jobs.js`, `Job.emit`, `follow` | an event of the page or a frame | overruns, lost connections |
| Decisions | `whitelist.py`: add, import, remove, clear, `_save` | a request up to its save; a save | failed saves, restarts |
| DesiredState | `engine/agent.py` create, update, delete; `put`, `delete`, reconcile | a statement or a call of the agent | lost and late answers, restarts |
| ServerFiles | `agent/files.py` on Linux | a system call | a server that swaps files for links, deaths |
| ModpackInstall | `installer.py`, `provision.py`, `mods.py` | a step of the pipeline | facts of the mods, failures, deaths |
| Imports | `uploads.py`, `packs.py` | a write, a rename, a listing | what is in an archive, deaths |
| ServerJar | `provision.py`, `jarupdates.py` | a call of the node | newer builds, power, failures |
| JarCache | `curseforge.py`, `installer.py`, `cache.py` | what an install does between two awaits | failed downloads, prunes, deaths |
| AddMod | `deps.py`, `mods.py` | a visit of a project, a fetch, a manifest read or written | graphs, deletes by others |
| ModRecords | `mods.py` identify, check; `watcher.py` | a call of the node or of a catalogue | what people change meanwhile |
| Repair, BootTest | `repair.py`, `smoketest.py` | a boot and its reading; a poll | what the jars need, what the log says, stale answers |
| ClientScan | `clientscan.py` | a call of the node or Modrinth | evidence, unreadable jars, decisions |
| Diagnosis | `diagnostics.py`, routes of `main.py` | a read of a log, list or jar | what the texts hold, failed reads |
| ModSnapshots | `backups.py` | a call of the node, a write | random ids, overlapping requests |
| Assistant | `ai.py`, `main.py` | a listing, an answer of the model, an action | the answer, people, failures |
| Advice | `optimizer.py`, `ai.py` | a request, an answer | the answer, changes of the server |
| Heap | `heap.py`, `specs.py`, `optimizer.py`, `perf.py`, `repair.py` | a read or a write of one place | who asks for which heap |
| Players | `players.py` | a look, a command, a read, a write | starts and stops, failures |
| History | `history.py` | a transaction | silent servers, deaths |
| Containers | `agent/containers.py` | a call of Docker | its failures, lost answers, prunes |
| Roulette | `roulette.py`, `kinship.py` | a round, a reroll, the install | the pool and its facts |

Each begins with a comment that says what it models and what it takes from
outside; the correspondence of every definition to its lines is in `PROJECT.json`.

"Excused" behaviour. Several modules keep a history variable that remembers an
overlap the code does not order (`excused`, `mixed`, `crossed`, `shared`, `late`):
the property is stated where the code promises it, and section 6 says what
happens in the overlap.

## 4. Runs, bounds and fairness

Twelve runs, each of one question. A module alone would be a run of a few hundred
to a few hundred thousand states; the modules `MCStreams`, `MCPanel`, `MCInstalls`
and `MCCare` put those of one kind side by side. Their parts share no state, the
first step chooses one (`part`) and a behaviour stays with it, so the run explores
each part completely and nothing of the products. A property of a part is stated
under `part = …`, a liveness property of a part says nothing of a behaviour of
another. The module that an MC module extends has its constants in the cfg, the
others in the `INSTANCE … WITH` of the MC module. `Panel` puts nine of the parts of
`MCPanel` side by side for every value of their constants and says what the panel
promises as a whole (`RunsAreDue`, `AccountsHold`, `LayoutHolds`, `DecisionsHold`,
`PagesAreTrue`); `MCPanel` extends it, and the proofs are about the same definitions.
`ServerSetup` does so for seven parts of `MCInstalls`, the files that are fetched for a
server and all from its first boots on (`LaunchHolds`, `ModsAreAccounted`, `StepsHaveCause`).
A part that is not of the behaviour stays as it begins, where its promises hold.

| Run | What it explores | Question and answer |
|---|---|---|
| `storm` | Supervisor: 1 server, 3 tasks, crash loop of 2, everything may fail | Types and conservation of slots under all of it at once. They hold. |
| `lifecycle` | Supervisor three times: 2 servers and 3 tasks without failures; 2 servers and 2 tasks with crashes, timers and agent restarts; 1 server, 3 tasks, every power request and a restore, a crash loop of 3 and timers | Boots bounded, a queued server waits, a restore alone, no container without a handle, stopped stays down. All hold. |
| `liveness` | Supervisor: 2 servers, 2 tasks, slow boots; fairness | The queue moves, and a lock is let go of. Yes. |
| `streams` | AgentEvents, JobStream, Schedules, WorldBackup, Downloads, ConsoleRelay, JobsClient, FleetPage with fairness | Does what was lost come to be told, does everybody who waits get an end, does a page come to show the truth? Yes. |
| `panel` | JobStream twice (2 workers, 2 readers; longer bodies and at most 1 reader), Schedules, Accounts, SignIn, FleetGroups, Decisions, DesiredState, ConsoleRelay, JobsClient, FleetPage, Roulette | The safety of what people share on the panel. It holds. |
| `installs` | WorldBackup, Downloads, ModpackInstall, Repair, BootTest, ServerJar, AddMod, ServerFiles, Heap, ModRecords, JarCache, Imports | The safety of what is put into a server's folder, and that WorldBackup implements BackupCatalogue. It holds. |
| `care` | ModSnapshots, Assistant, Containers, ClientScan, Players, History, Diagnosis, Advice | The safety of what is done for a server day by day. It holds. |
| `lost_stop`, `crash_loop`, `orphan`, `torn_archive`, `clean_bill` | the smallest that show it | Counterexamples: section 6. |

*Why these bounds are enough.* A boot queue is contended with two servers and
one slot. Three tasks give a start that holds the slot, one that waits for it and
a third actor (a stop, a second start, a restore) between the waiter's slot and
its lock: the shape of every hazard of the queue. The crash runs need one server
and three crashes, with three tasks so that a timer, a stop and a start overlap.

A job needs three processes to go wrong: the worker, and two readers that look at
the same record. One process that stops is enough, since no body is started
after the first one did. Four frames (start, one of the body, two at the end) in
batches of two give batches that are full, partial and only the `None` of
`close()`, and an emit in each of the pump's awaits. A queue of three events with
posts of two is the smallest in which an overflow shifts part of a batch that is
in flight, all of it, and events behind it; six events overflow it by as much as
it holds.

Elsewhere the pattern is the same: two actors and the object they share (two
loops and a schedule, two administrators and a third account, two requests and a
manifest, three installs and a cached file), one call that fails or one process
that dies, one more object than a cache or a limit keeps, and data of two values.
Graphs and facts (dependencies, evidence, pools, archives) are chosen from lists of
small worlds in the MC modules that include each case the code tells apart. For
the properties that section 5 proves the bounds do not matter. So the schedules of
`panel` are small: two tasks, two loops, three minutes, two changes by hand and a death
are a task that came again and is then made one-time, or given a parent while a loop
has read it, and a chain of two; a chain that is changed later is in the proofs only.

Symmetry over tasks, servers, workers and readers is used for safety only.
`CHECK_DEADLOCK FALSE` is said where the system really stops: a job, a session or
an install ends, and the bounded requests run out. No run of the supervisor turns
it off: somebody can always ask for something or a server can always die.

*Fairness.* Of the supervisor, `Fairness` is assumed of tasks and of exits only. A
task that can go on does: asyncio runs every ready callback, every call to Docker
has a timeout, and every `sleep` ends. An exit that happened is reported, by the
end of the console stream. Nothing makes a server boot, die, be requested or be
forgotten. It is strong fairness because of `LoopFree`: a task is disabled for the
one step in which another goes through a free lock, and weak fairness would let
that starve it, which the first-come event loop does not.

For a job, every task that is ready runs (queue, `run_job`, pump, heartbeats,
readers), and time passes for records and for the heartbeats of processes that
are gone. A body need not end: what is said of followers is about a body that is
over, and what is said of cancels holds for one that never would be. For events,
`run()` flushes again after every backoff and the panel handles the posts it has;
posts fail at most `MaxFails` times, which is that the panel comes back. A loop of
`schedules.py` that lives goes on with its tick (weak). A backup job is a coroutine
whose locks are first-come, so each job's steps are strongly fair. The threads of a
fetch go on (weak). The polls of a page, its reconnections and the deliveries of
a live connection happen (weak), the failures of calls are bounded.

## 5. Proofs

Checked by TLAPS, for every value of the constants that meets the named
assumptions of the modules (finite sets of servers, tasks, jobs, workers; at
least one slot, crash, try; a batch of at least one; ids that are numbers). An
assumption on the *environment* (no lost answer of Docker, no failed call) is a
hypothesis of the theorem, and each is one that the property needs: what happens
without it is said here or in section 6.

Sixty theorems. The supervisor has a module of proofs; AgentEvents, Accounts, Schedules
and ConsoleRelay have theirs at their end; `PanelProofs` has those of the other parts of
`Panel` and what `Panel` promises as a whole, `InstallsProofs` those of the store of
backups and of what `ServerSetup` promises of the files of a server, and `JobProofs` those
of the streams of jobs and of the jobs that launch a server. The
components that MC modules instantiate and do not extend have their bounds and delays as
hypotheses (`Sizes`, `FleetSizes`, …) and not as assumptions of the module. A theorem
has the name of its promise; each section first proves what its helpers do, then one
lemma for each action, then the theorem from them.

### The supervisor (`SupervisorProofs`)

* **TypeCorrect**: `Spec => []TypeOK`. Its content is where subtraction happens:
  `bootSlots` never falls below zero because `acquire` is only reached when the
  semaphore is not `Locked`, a queue is only shortened when it is not empty,
  `timers` and `crashes` likewise.
* **SlotsConserved**: `Spec => []BootSlotsConserved`. That `release` hands the slot
  to a waiter keeps the sum only if the waiter has no slot yet, and that a cancelled
  start leaves nothing behind only if the queue names a task that is at the
  semaphore. `SlotsInv` adds: waiters are distinct, are at `boot_slots.acquire()` and
  have no slot; the queue names tasks that are there; `_start_queued` and adoption
  are only at points of their own code. The proof goes through four kinds of step
  (`QuietStep`, `ReleasingStep`, `TakingStep`, `CancellingStep`).
* **LockExcludes**: `Spec => []MutexInv`. At every point of a handler that has the
  lock, its task is the one in `lock` (`LockHeld`); an adoption holds no lock and
  relies on the agent not serving yet (`Adopting`); at the points before a launch
  the server has no handle (`StartsDown`). The next three rest on it.
* **QueueIsTrue**: `QueuedIsWaiting`, a server shown as queued has a start that
  waits, for requests without `delete`. A delete takes the start out of the queue and
  leaves the state, so when it then fails the server is shown as queued and nobody
  waits (section 6).
* **BootsAreBounded**: no more servers boot than there are slots, by `BootInv` (a
  boot has a task that watches it and has a slot), if no boot outlasts its slot
  (`BootTimeouts`: the code gives the slot on after a while by design) and the agent
  does not restart (adopted boots have no slot).
* **RestoreIsAlone** and **HandlesAreKept**: `RestoreExclusive` and
  `ContainerHasHandle`, by `HandleInv`, if no call of Docker loses its answer. A
  start whose answer is lost leaves a container that the agent does not see
  (section 6).
* **HaltIsKept**: `HaltedStaysDown`, a server that was stopped while it ran is not
  launched again until somebody asks for it, about the history of `SupervisorHistory`.
  What was halted is `Down`, and every part of that is a way back which is shut: its
  state is neither "crashed" nor "queued", so a crash timer or a queued start that
  gets the lock gives up; an exit that is still to be seen will not count as a crash;
  nobody is between the checks and the launch; nobody who asked for a start is left;
  the next agent will not find its container. A step cannot open one but by a request
  (`TaskStepStays`, `ArrivalStays`, `OtherStays`), and an answered stop leaves them
  all shut (`StoppedIsDown`): from when it has the lock its exit does not count as a
  crash (`StopsHold`), the lock keeps starts away from their launch (`Mutex`), and
  who has asked for one is in the line of the lock (`Lined`), where the history sees
  him. It needs Docker to answer or the agent to live on: a container whose kill was
  lost is running when the next agent looks, which adopts it, and its crash then
  starts it.

### The store of backups (`InstallsProofs`)

* **BackupTypeCorrect**: the types of every variable.
* **StoreStaysWhole**: `Spec => []StoreInv`, five parts, each needed for the next:
  the jobs at work hold their locks (`Locked`); who copies, publishes or prunes
  names snapshots that nobody else does (`Named`); index and manifests are of
  numbers below the next one (`Numbered`); every blob of a listed or published
  manifest is in the store and whole (`Whole`); so are the blobs of a snapshot that
  is being taken, from the moment they are written (`Copying`). The last one is what
  a collection beside a backup could break, and the backup lock prevents.
* **BackupsAreACatalogue**: WorldBackup implements BackupCatalogue, for any number of
  files, contents, jobs and any `Keep`: initial states map to the empty catalogue,
  and each step to `Publish` (only the writing of an index entry), `Forget` (only an
  unlisting, of the snapshot that was asked for or the oldest beyond `Keep`) or a
  stutter (`Seen` is the mapping). Death of the agent is a stutter.

* **SnapshotsAreMoments**, **NetIsKept** and **DoneIsDone** rest on `StoreInv` and on
  four parts more (`KeepInv`). `Owned`: a job that is past its locks has them. `Good`
  says of each job what it may count on at its step: a restore works on a folder no
  game is in (`Undisturbed`); while a calm copy is made the world stays as it was when
  the copy began, and what is copied so far is from it (`OneMoment`); its manifest is
  what was copied and is listed, and the job removes others only (`Filed`); the files
  a restore has put back are those of the snapshot (`WrittenBack`). `ReadRight`: a
  file whose entry in a snapshot counts as current is in the world as it is in that
  snapshot, which is why its hash may be carried over (`Reusable`). `NetListed`: the
  snapshot a restore put aside is listed and is the world the restore replaced.
  Together: a backup of a server that was down, or that confirmed its save and was not
  started meanwhile, is the world at one moment (`SnapshotIsMoment`); the world a
  restore replaced is kept as a whole through deaths, later backups and their trims,
  until its own removal is asked for (`NetHolds`); and what is reported done is done,
  also after the trim of what is beyond `Keep` (`DoneMeansDone`). A game that writes
  while it is copied is excepted in the property, not in the theorem.

### Schedules (at the end of `Schedules`)

A person may change every part of a task at any time (`update_task`, 244-269): a
recurring task becomes one-time, a timed one follows another and back, while a loop
has read it as what it was. So the properties count from the moment a task came to be
timed as it is, by the clock or by that parent: `since[t].at` is that time, `base` the
number of recorded runs of the parent by then, and `left` says that a task kept a time
of its own when it got a parent. `since` and the counts `ran` and `done` are history:
no guard reads them.

* **DueRunsOnce**: `RunsOnce`, no run that was due is made twice, whatever the number
  of tasks and of processes that run the loop. A run is *claimed* when it was made or
  a loop is about to make it. `Ahead`: the time of a row, when it has one, is later
  than every run of it that was claimed, and those are not in the future; so a claim
  that finds the row with the time it read (`schedules.py`: the `UPDATE … WHERE
  next_run = old`) finds a time nobody claimed. `Snapped`: what a loop has read is due
  no later than its row, so what it has read twice it claims once. `Alone`: a run that
  a loop is about to make was not made and is no other loop's. That times move on is
  arithmetic: `StepExists` shows that among any `Every` minutes one is a whole number
  of steps from the last run, so `NextAfter` is defined and strictly later. Switching
  off, editing, a delay of a chain and a run by hand give a row no time, one after the
  clock, or the one it had. The hypothesis `Sizes` has a delay of at least one tick:
  the code allows none, and then a chained step is due at the very tick, which on a
  clock of whole ticks would be the same name for two runs (the code's clock has
  microseconds).
* **StepsComeAfter** and **AskedRunsOnce**: `StepsFollow` and `OneTimeOnce`, by counting.
  `Times(t)` are the due times of a task, since it is timed as it is, that are claimed
  or wait in its row. `Stale(t)`: a loop has read the row at the time it has as a task
  that comes again, so its claim would give it one more time although it no longer
  does. `Earned`: for a step, `Times`, and one more if it is stale, are no more than the
  runs of its parent recorded since it follows it, and one if it had a time left; for a
  one-time task they are at most one. A record gives a step one time and allows it one;
  a claim moves a time from the row to the claimed, and gives a new one only where it
  was stale, after which nobody has read that one; an edit begins to count again, and
  what is claimed by then is not later than the clock (`Ahead`). A run that is missed or
  a process that stops only loses times. The ids of tasks are used once.
* **TasksRunWhenDue**: the three together, what `Panel` promises of schedules.
* **SchedulesTyped**: the types.

### Accounts (at the end of `Accounts`)

* **AnAdminStays**: `AlwaysAnAdmin`, while there are accounts one of them is an
  administrator who can log in. A request that is to remove an administrator locks
  the administrators in the order of their ids, then the row itself, then looks who
  is enabled and locks those one by one. `Guarding` is what it knows in that last
  step: its row is locked and an administrator's; whoever it has counted is locked,
  present and enabled; and its row, if enabled, is counted or still to be. What is
  locked nobody else changes (`EndKeeps`), and only rows that are there are locked
  (`Held`). So a request that counted another leaves that one in office, and one that
  counted nobody but its own row does not go on. The ids are numbers, finitely many,
  at least one (`Sizes`).
* **NobodyIsUndone**: `TheyQueue`, no circle of requests that wait for each other, hence
  none that the database undoes, as long as who is an administrator does not change
  while two are at work. `Orderly`: only administrators are locked; a request that can
  take an office away has locked them from the first one on (`InOrder`), all of them
  before it goes for its own row; the others hold nothing. So whoever is waited for and
  waits is still on its way through the administrators (`MiddleOfCircle`), and each in a
  circle would wait for an id above the one its predecessor waits for: the one with the
  lowest such id has no predecessor.
* **AdminsStayAndQueue**: the two together. **AccountsTyped**: the types.

### Desired state (`PanelProofs`)

* **RowAndSpecAgree**: `QuietAgrees`, with nothing under way the row of the panel and
  the spec on the node agree on every server that is not excused. Excused is a server
  whose last call got no good answer, or ran beside another, and that the agent has
  not reconciled since. A server can differ quietly only if what made it differ was
  not excused, so the invariant (`Agreeing`) says of a server that is not excused:
  a request that works on it is the only one that does (`OnItsWay`), the row
  has what its call will put, and a delete that was answered has taken the spec; and
  of every server: a call that arrives late is of an excused one. `UntouchedStaysSound`
  and `OtherServers` say once that a step leaves the servers it is not about alone.
* **ReconciledIsWhole**: `NothingMissing`, from the last part of `Agreeing`: a server on
  which nobody began anything since the agent asked has still the row it was told of,
  nothing under way and, once the agent has settled, that spec.

  The number of servers and of requests at once is any; `DesiredSizes` has at least one
  server.

### The console (at the end of `ConsoleRelay`)

* **PagesHaveNoHole**: `NoHole`, what a page shows over the socket is one unbroken
  piece of the console of one life of the agent. A line passes the ring, the queue of
  the subscriber, the socket, the panel's feed and the queue of the viewer, and each of
  those may drop what it holds; the invariant says where it may not. The ring and the
  lines not yet sent end at the newest line and are numbered one by one (`RingHolds`,
  `Numbered`). A frame of new lines begins right after what precedes it, on the socket
  as in each viewer's queue (`Chain`, `Precedes`); a backlog may begin anywhere,
  because the reader starts over with it. What waits for a viewer ends where the feed
  does (`ViewerHolds`, `EndsAs`), so that the next frame follows both: that is what
  putting the backlog in the place of a full queue must keep (`Feed._give`). A follower
  whose feed is not ready has a backlog first on its socket (`LinkHolds`); a
  subscriber that overflowed is bound to nothing, since the ring is sent next.
* **PollsHaveNoHole**: `PolledIsWhole`. What a page has that polls ends at its cursor
  (`ReaderHolds`) while the cursor is of the life of the agent it asks.
* **ConsolesAreTrue**: the two together. **ConsoleTyped**: the types, and that no queue
  outgrows its length.

  Any number of pages; a ring, a queue of a viewer and a batch of at least one line; a
  page is either on the socket or polls (`Sizes`). That a page which keeps watching
  comes to see the newest line (`CatchesUp`) is liveness, and only model-checked.

### The panel as a whole (`PanelProofs`)

* **LayoutIsKept**: the layout that is shown is the one in the tables once nothing is
  being saved, no server hangs on a rack that is gone, and an uptime that counts as
  witnessed was seen to begin. A save writes the memory of when it got the lock, in
  several statements, while requests go on changing the memory. `LayoutInv`: one save is
  between its statements, the holder of the lock (`OneSaves`); what it writes, what the
  tables hold and what is shown each hang together (`Sound`); a save of activity alone
  has the racks of the tables (`KeepsLayout`); and whatever memory and tables differ in
  is still to be saved, by the save under way or by one that waits, or could not be
  (`NothingIsLost`). `FleetSizes`: the mark of no request is no request.
* **SignInIsGuarded**: a code lets somebody in at most once, wrong answers lock, and a
  second factor is asked for only once a code of it was seen to work. `CodesInv` relates
  the row to the history of accepted codes (`Remembers`): the step the row remembers
  is not before any accepted code of its secret, a recovery code that was accepted is no
  longer left, the secret of an unfinished set-up has none accepted. `CodeSizes`: a
  recovery code is no number of a step, and one failure at least is allowed.
* **DecisionsAreKept**: the latest decision about a jar is the one in force; one answered
  as persisted is in the tables until it is taken back. A request replaces the list by a
  new object, and saves of older objects still wait for the lock. `DecisionsInv`: the list
  is the newest object and saves wait in the order of the objects (`SavesInOrder`);
  each entry is of one change (`Apart`); whoever was told "persisted" has the entry in
  the tables and in everything still to be written (`ToldIsKept`); nothing in the list
  contradicts the latest entry (`LatestAlone`). `DecisionSizes`: a jar has a key.
* **PageIsTold**: a page whose stream of events ran over hears of it before it relies on
  having heard everything, and is shown no reading from before the last change it was
  told of without a mark. `PageInv` (`Recent`): what is shared and not marked, and what
  a fetch under way has got, is from after the shared reading last grew old.
* **JobIsShownTrue**: whoever waits for a job is told once and of the end it came to, its
  log has no line twice and, unless its queue ran over, no hole, and its card shows the
  end of that log; through lost streams, snapshots and truths asked for twice. `JobInv`:
  the log is the end of what the job has written (`Held`, `Rising`); what is on its way
  goes on where the log will be by then, and reaches the job's last line (`StreamHolds`);
  an answer that is on its way is of the job as it was (`AskedHolds`); an end is told once
  contact is over (`EndHolds`); a card of this epoch shows the last of the log, less what
  it has not painted (`CardHolds`). `JobSizes`: a page keeps as many lines as a snapshot
  brings and as a card shows; the constants of `jobs.js` are 220, 100 and its
  `LOG_IN_DOM`.
* **PanelRunsAreDue**, **PanelAccountsHold**, **PanelLayoutHolds**, **PanelDecisionsHold**,
  **PanelPagesAreTrue**: the promises of `Panel`, from the theorems above, for the
  instances it is made of.

### The setup of a server (`InstallsProofs`)

* **RecordsHold**: the records of the mods, while people add, delete, switch and publish.
  `IdentifyInv` says what an identification knows at each of its steps: a file that was
  read still lies under its name, on or off, unless somebody touched it; a match is of a
  file that was read, by a catalogue that knows its content; and of every content that a
  catalogue knows, one file has a match or the catalogue failed. What is on record then
  is only true while no two writers of the manifest met (`crossed`), so the rest of the
  invariant is under that condition. `CheckInv`: whatever the check for newer versions
  has looked up and does not tell of is of a version that was the newest at some moment
  since it began.
* **AddedAreAccounted**: the walk of what a mod requires, and what is recorded of it.
  Visits run side by side and come to one project by several ways. `AskedIsApart`: of the
  visits that wait for an answer each is of a project of its own, which is seen and not
  planned yet, so an answer plans nothing twice (`NoTwice`). `SeenIsTold` and
  `RequiredIsTold`: what was seen is planned, warned of, on record or asked for, and what a
  planned project requires is one of these or has still a visit; when no visit is left
  that is `Accounted`. The work is in `Spliced`: the visits an answer puts in the place of
  its own, and the others, which each keep a place (`KeepsTheRest`). `QueueInv` says of the
  installs that the root is the first of all and that what failed does not come again,
  `RecordInv` that the manifest `_remember_mod` has read is the manifest, as long as nobody
  deletes and no call fails. `AddSizes`: finitely many projects, which require projects.
* **OldOneIsKept**: the version that is replaced goes only once the new one was fetched,
  by the same invariant.
* **FetchesAreShared**: what lands is what was asked for, one fetch of a file is past its
  lock, and none gives up without two spoilt copies. `ClaimsHold` is about the lock, which
  is made for the first who claims a file and dropped with the last: whoever is counted
  has the lock that is kept now, so nobody waits at one that others have forgotten.
  `NewLock` is a lock nobody holds: there is one, as the fetch that asks has none
  (`ALockIsFree`). `LostForCause`: a fetch that has lost a
  round, or is about to, has had a copy spoilt by others for each round it is in. `FetchSizes`:
  finitely many files and installs.
* **FailuresHaveCause**: a test boot is called failed only when the process ended or
  was silent.
* **ModsHold**, **CausesHold**: what `ServerSetup` promises as `ModsAreAccounted` and
  `StepsHaveCause`, each from those above.

### Events (at the end of `AgentEvents`)

* **EventTypesHold**, **LossesAreCounted**: an event that is neither waiting nor known
  to the panel is counted as lost. `flush()` takes from the left of a queue that an
  overflow may have shifted while it waited; `Sent` says what that batch has to do
  with the queue: the number taken is exactly the number of sent events that are
  still there plus those counted as dropped since.
* **StatusIsLast**: a panel that got to all that is left of the queue shows the last
  state that was reported, unless it got to a post the agent had given up on.
* **ReportsAreHeard**: a loss the agent takes for reported was told of.

### Jobs (`JobProofs`)

* **StreamTypesHold**: `Spec => []Shape`: the types, and that the pump never counts
  more frames as sent than it took, or as taken than were emitted.
* **RunsAreTries** and **JobRunsOnce**: a body begins at most as often as arq hands
  the job out; with the one try of `worker.py` (`max_tries`), at most once.
* **CancelledStaysOut**: a job whose cancel was answered while it was queued never
  starts, while the flag lasts (`CancelInv`).
* **LivingAreNotLost**: a job is not declared interrupted while its process is up, as
  long as a live process beats in time (`OwnersInv`, `BeatInv`): the reader names an
  owner from a snapshot two calls old, and owners do not come back.
* **NoFrameIsMissed**: a follower gets every frame after its snapshot, for any
  interleaving of pump and followers and any batches, unless a call to Redis fails
  (`GapsInv`: a snapshot reflects at least the frames up to the id it is stamped
  with; `Follows`: what a follower has is up to where it reads). With a second try it
  would not hold: a snapshot of the first run stored late would carry an id of a
  stream that a second run has gone on with.

The jobs that launch a server, of `ServerSetup`:

* **RepairsGetOn**: a session of boots and repairs never takes back what it did
  (`NeverUndoes`), switches content off only for what no server can have
  (`ContentIsKept`) and tries something new in every round (`RoundsAreNew`), whatever a
  person switches meanwhile. `ReportsHold`: a report that the session decides on names a
  jar that was on when it was made, and a jar that is missing is one that a jar needs
  which is on; what is done about it is new because a thing tried is left out of what may
  be done (`OneTriedMore` counts them, and a server has finitely many jars).
* **UpIsThisBoot**: a test boot is called ready only by what this boot has logged.
  `BootInv`: what is read after the log has turned over, or from the length it had, is of
  this boot.
* **JarIsThere**: the startup command names a jar that is in the folder, and a server
  called complete can start, wherever a creation or an update dies. `JobHoldsItsJar`
  says of each step of an update which jar it has put and which it may remove: the one
  the command names is removed only after the command names another.
* **HeapIsKept**: four promises of the heap. `HeapInv` relates a request to the places it
  has already written (`Knows`, `Placed`), and says that all of them name one heap when
  nothing is under way (`Settled`); that the container holds it is arithmetic about
  `Overhead` and the largest heap that fits (`HeapsFit`, `GrownIsMore`). `HeapSizes`: of
  the loaders it is forge that reads a file of arguments (what the code does for old
  Forge, which does not, is in section 6), and a new server has no mods.
* **LaunchesHold**: what `ServerSetup` promises as `LaunchHolds`, from the four above.

## 6. What the code does that its documents do not say

Each of these has a run that ends in a counterexample:

* `lost_stop` (`CancelledStaysDown`): a queued start leaves `queued` when it gets
  its slot and before it has the lock (`servers.py:557`). A stop that takes the
  lock in that window finds neither an entry nor a running server, is answered,
  and the server starts (`test_agent_node.py:1106`: "it never starts").
* `crash_loop` (`CrashLoopStays`): a timer of an earlier crash is never cancelled;
  after somebody started the server and it crashed its way into a loop, that timer
  starts it once more (docstring, lines 13–16: "the server is left stopped").
* `orphan` (`OrphanEnds`): a worker that is gone before its first snapshot leaves
  the job "pending", which `_reconcile` never looks at again
  (`test_jobs_redis.py:14-15`). An ordinary restart of the worker in that window
  does it too.
* `torn_archive` (`NeverMistaken`): two installs download one archive to one
  `.part`; the one that goes on after the other has truncated it renames a file of
  the right size with a hole (`curseforge.py:485`, docstring 481–482: "can never be
  mistaken for a cached archive").
* `clean_bill` (`CleanBill`): a log that cannot be read is passed over without an
  error, so every examination calls itself complete (`diagnostics.py:395`, docstring
  `main.py:1100-1105`).

Properties of the modules that do not hold for the same kind of reason, kept with
the comment "Does not hold", and not in a run:

* `JobStream!NoRepeat`: a snapshot reflects frames that were emitted while the pump
  awaited its XADDs, but is stamped with the id before them; a follower gets them
  twice (`jobs.py:396`; `jobs.py:26-29`: "no gap, no duplicate").
* `ServerFiles!UploadAnswered`: a write that is refused before its first chunk never
  starts reading; an upload of more than eight chunks waits at `queue.put()` for
  ever (`agent/main.py:552`).
* `Containers!AdoptMissesNothing`: a line printed between the read of the log and
  the attach is in neither; a missed "Done" leaves the server "starting"
  (`containers.py:722` against 707–708).
* `Assistant!OnlyApproved`: `_match_file` takes another file for one that was removed
  meanwhile, so an approved deletion may delete another jar (`main.py:2779`).
* `ClientScan!ChainGoesToo`: protection is not transitive (`clientscan.py:460`
  against 443–444). `Roulette!AddonsHaveParents`: a rule that runs later drops the
  parent an earlier one found (`roulette.py:1014`). `ModSnapshots!LatestIsKept`: the
  prune goes by a random name and may take the newest (`backups.py:213`).

What else the models show, by component. No property is stated that these would
break; some name them as their exception.

**Supervisor.** In the window of `lost_stop`, while a restore holds the lock, a
second start is queued too; the first one starts the server, and a stop then pops
the second entry, says "offline" and returns: the server runs. A delete that fails
after it took a start out of the queue leaves "queued". An adopted boot has no slot.
`start_install` looks at `running` only, and a start that is being made has no handle
yet (`servers.py:1151`): the install writes beside it. Delete takes neither the lock
nor the timers (`servers.py:362`). A container whose start lost its answer
(`containers.py:601`) runs unseen until the agent restarts, and a restore may write
beside it. A backup of a stopped server does not hold its lock (`servers.py:1063`);
an agent that dies in a backup leaves saving off until the game restarts.

**Jobs.** `_reconcile` claims nothing: two readers both append an end (`jobs.py:461`:
"Say so, once"), and it may store a snapshot two awaits old over a "done". The
cancel flag lives an hour; a job that waits longer starts (`jobs.py:599-600`: "never
runs"). If the pump's last write fails nothing repeats it, and `follow()` sends
keepalives for as long as the worker lives (`jobs.py:605`). A job that was recorded
and not queued stays "pending" (`jobs.py:555`). In the page, closing the drawer and
trimming treat "pending" as finished (`jobs.js:532`).

**Events and pages.** A post that the panel commits after the agent gave up on it,
and after its retry, puts the server back to an older state until the next event.
`flush()` pops as many events as it sent, after an overflow partly ones it never
sent; the count is right although it names the wrong events. `agent_events`
publishes before its session commits, and the page's reading 350 ms later may be
answered from one up to 2 s old, so what is pushed "at once" can show the old state
until the next poll. The page does not listen to "hello". A node that hangs shows
"orphan", since `_FLEET_TIMEOUT` (`main.py:455`) equals the node's timeout.

**Consoles.** A poller whose number the new count has passed after an agent restart
is not reset; a failed numbered poll followed by a snapshot shows all lines again.

**Desired state.** A lost create answer leaves a server that only the node knows.
An update that races a delete creates the server again on the agent; overlapping
pushes leave the agent at the older state until its next reconcile.

**Layouts and decisions.** A whitelist that cannot be loaded at the start counts as
empty, and the next change writes the table anew without it.

**Installs.** A switch of versions that fails leaves the old manifest "complete" with
its mods gone, and keeps old mods when the folder cannot be listed. A mod that the
review switched off and that comes from the node's cache is put in place enabled. An
update whose fetch fails after the stop leaves the server stopped. "Finish setup"
marks a half-finished modpack complete. Failed writes of a manifest are passed over,
after which a boot does not resume. The manifest is read, changed and written without
a lock: overlapping updates lose one.

**Uploads.** An archive whose process died before its record is never pruned; loader
and version may come from two different files of one archive; an
`overrides/manifest.json` that is first in the zip is taken for the pack's.

**Files.** A rename checks and then renames in two calls: a file that appeared in
between is overwritten (`files.py:464`), and so with `create_file`. A delete of
several paths stops at one that is missing. Temporary files of an agent that died
stay.

**Caches.** `cache.py` says least recently used and a read does not touch the time. A
prune can take jars that another install holds by path (`installer.py:1414`: "the one
moment nothing else is reading it"). The size check tolerates 1023 bytes.

**Mods.** A record "local" that an identification wrote for a jar replaced while it was
read stays until the next one; `RecordsAreTrue` excepts such a jar until then, which
with five changes made by people shows and with three does not. `check_updates` counts a failed slow look-up as up to date; identify writes a
record back for a jar that was deleted meanwhile; of two jars with one content only
the last is identified per run. The sweep's lock of 120 s is not refreshed.

**Snapshots of mods.** A restore keeps jars that were added since, does not write the
manifest back, and its own snapshot may prune the blobs it is about to read.

**Heap.** Four paths write the heap and nothing orders them. `fix/set-ram`
(`main.py:1458`) does not resize the container, though `heap.py:19` says every path
does; `grow_for_oom` writes `limits` back as it read them, so a choice made in
between is lost; for old Forge the heap goes to a file nobody reads
(`optimizer.py:709`). `HeapIsAsTyped` is stated for one request at a time.

**Models.** An analysis whose snapshot fails goes on (`main.py:2976-2978`: "it always
gets a snapshot"); `disable_mods` that fails half-way does not say what is off
already; a flag named twice is counted as two changes.

**Diagnosis.** A Java refusal that another pointer overlaps offers the mod for
disabling, which `diagnostics.py:1164-1167` calls "exactly the wrong fix"; the fixes
of one deep scan together may disable every copy of a mod that others need; a crash
report older than the last good boot is still reported.

**History.** A roll-up that dies between its two transactions leaves minutes counted
twice until the next one. **Players.** A look that fails counts as "stopped", and the
file is written under a running server; a list that cannot be read counts as empty.

**Schedules.** A missed run is judged by the time of the look, not of the due date
(`schedules.py:28-30`). A timed task that is given a parent keeps its time
(`schedules.py:260-267`) and runs by it, without its parent having run; a loop that had
read it as due runs it then and gives it one more time. `StepsFollow` allows one run
at a time after the change (`left`). `update_task` does not look whether the
parent is there, as `create` does: a step may follow a task that is not there, and never
run, or follow itself in a circle, which goes round for ever once a task of it has run; `remove`
of such a task does not come to an end (`schedules.py:285-288`). In the model that removal
is not enabled. A one-time task that is saved again while its run is
under way is switched off by that run (`schedules.py:452-455`). The editor sends
`one_time` for tasks that exist (`tab-schedules.js:243-255`), as `undefined` when it is
off, which is not sent: it can make a task one-time and not undo it; a request to the API
can, and the model has both. **Roulette.** A rerolled mod is not checked for the
client-only flag that was learned; adopted parents pass every setting but a banned
category; an add-on that is rerolled leaves its companion.

## 7. What is left out

*Only model-checked.* Every property of the modules without a proof module, and all
liveness: temporal proofs under fairness and `ENABLED` are out of this prover's
reach. So is what a recursive definition computes for every input (resolutions of
names, what is left of a plan that a model proposes): the induction theorems of the library
take an operator as a parameter, which none of the installed back-ends can
instantiate. The modules with proofs declare no RECURSIVE operator. `HandHolds`
and `PackIsAccounted` are about lists that `SelectSeq` and folds make, about which nothing
can be proved for the same reason; `ChangesCanBeUndone` and `FindingsHold` are in the
modules beside the recursive ones. `FilesHold` is about such lists too where it is about
paths (ServerFiles), and has no proof yet where it is about the cache of archives (JarCache);
nor has `ServersAreRun`. Nor is what the run `lifecycle` calls `BootsAreBounded` the theorem of that name: it checks it in
one of its parts only, the one that the theorem's hypotheses describe.

*Not modelled, and why.* Parsing, formatting and rendering: server specs and
properties, status page and templates, the metadata of jars, `spark.py`. Clients of
outside services without a protocol of their own: server ping, HTTP clients, the
catalogues of mods beyond what identifies a jar. Configuration that is read once,
and the database schema. Authentication of the agent, which decides each call by
its own token; the table of rights, one look-up per request; the registry of tasks,
a table of functions. The watcher, whose changes go through History and events. Of
modelled components: `put` and port choice of the supervisor, the process runtime
for a machine without Docker, jobs that run in the API process and the trimming of
a job's stream, the worker's update sweep beyond its check, the pool of a deal and
the odds that are shown, profiles and statistics of players, chats with a model,
the views of the browser other than the fleet page, the console and the job drawer.
The front end's layout, `dev/` and `design/` were read as documents only.
