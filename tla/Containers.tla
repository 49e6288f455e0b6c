------------------------------ MODULE Containers ------------------------------
(***************************************************************************)
(* How the agent has Docker run a game server (agent/containers.py): the   *)
(* image that is pulled or built when it is first needed, the container    *)
(* that is made anew for each start, the ports it publishes, the console   *)
(* that is attached before it starts, what tells that it has exited, and   *)
(* how a new agent takes over what an old one has left running.  Images    *)
(* are pruned behind the agent's back, calls of Docker fail and lose their *)
(* answers, and the agent restarts.                                        *)
(***************************************************************************)
EXTENDS Integers, Sequences

CONSTANTS Addons,       \* add-on ports of the server
          Game,         \* its own port
          MaxLines,     \* bound: lines the server prints
          MaxStarts,    \* bound: starts
          MaxPrunes,    \* bound: prunes of images
          MaxRestarts,  \* bound: restarts of the agent
          MaxTroubles   \* bound: calls and streams that fail

VARIABLES image,        \* Docker has the image
          ready,        \* it is in _images_ready
          lock,         \* who holds the lock of the image
          at,           \* where each task of the agent is
          taken,        \* ports that others on the machine have
          wants,        \* the add-on ports this start still asks for
          again,        \* the container is created a second time
          said,         \* how the last start has ended
          box, published,   \* the server's container, and its add-on ports
          installer,    \* the container of the installer
          printed,      \* lines the server has printed since it started
          heard,        \* those that went to on_output
          reader,       \* the console: the next line it will give, or closed
          pump,         \* what follows it: "none", "live", "asks" or "over"
          detached,     \* the agent has let go of it
          exits,        \* on_exit has been called, and with or without a code
          broke,        \* the console broke while the server ran
          killed,       \* a start has deleted a running server
          starts, prunes, restarts, troubles

vars == <<image, ready, lock, at, taken, wants, again, said, box, published, installer, printed, heard, reader,
          pump, detached, exits, broke, killed, starts, prunes, restarts, troubles>>

images == <<image, ready, lock>>
console == <<printed, heard, reader, pump, detached, exits, broke>>
counts == <<starts, prunes, restarts, troubles>>
ports == <<taken, wants, published>>

Tasks == {"start", "pull", "install", "stop"}
Free == "free"
Closed == 0
Idle == [t \in Tasks |-> "idle"]

TypeOK ==
  /\ image \in BOOLEAN /\ ready \in BOOLEAN /\ lock \in Tasks \cup {Free}
  /\ \A t \in Tasks : at[t] \in {"idle", "look", "wait", "fetch", "check", "clear", "create", "attach", "run",
                                 "sent", "docker", "logs", "follow", "done"}
  /\ taken \subseteq Addons \cup {Game} /\ wants \subseteq Addons /\ published \subseteq Addons
  /\ again \in BOOLEAN /\ said \in {"", "up", "running", "image", "port", "failed"}
  /\ box \in {"none", "created", "running", "exited"} /\ installer \in {"none", "created", "running"}
  /\ printed \in 0..MaxLines /\ \A i \in DOMAIN heard : heard[i] \in 1..MaxLines
  /\ reader \in 0..(MaxLines + 1) /\ pump \in {"none", "live", "asks", "over"} /\ detached \in BOOLEAN
  /\ exits \in {"no", "code", "unknown", "false"} /\ broke \in BOOLEAN /\ killed \in BOOLEAN

Init ==
  /\ image \in BOOLEAN /\ ready = FALSE /\ lock = Free /\ at = Idle
  /\ taken \in SUBSET (Addons \cup {Game})
  /\ wants = {} /\ again = FALSE /\ said = "" /\ box \in {"none", "exited"} /\ published = {} /\ installer = "none"
  /\ printed = 0 /\ heard = <<>> /\ reader = Closed /\ pump = "none" /\ detached = FALSE
  /\ exits = "no" /\ broke = FALSE /\ killed = FALSE
  /\ starts = 0 /\ prunes = 0 /\ restarts = 0 /\ troubles = 0

Goes(t, pc) == at' = [at EXCEPT ![t] = pc]
Trouble == troubles < MaxTroubles /\ troubles' = troubles + 1
Works(ok) == IF ok THEN UNCHANGED troubles ELSE Trouble

-----------------------------------------------------------------------------
(* The image: _ensure_image, _fetch_image, _build_runtime.                 *)

\* What follows when the image is there.
Then(t) ==
  CASE t = "start" -> IF again THEN "create" ELSE "check"
    [] t = "install" -> "clear"
    [] OTHER -> "idle"
Fails(t, why) ==
  /\ Goes(t, "idle")
  /\ said' = IF t = "start" THEN why ELSE said

Looks(t) ==
  /\ at[t] = "look"
  /\ Goes(t, IF ready \/ image THEN Then(t) ELSE "wait")
  /\ ready' = (ready \/ image)
  /\ UNCHANGED <<image, lock, ports, again, said, box, installer, console, killed, counts>>

\* async with _image_lock: whoever held it may have fetched the image.
Waits(t) ==
  /\ at[t] = "wait" /\ lock = Free
  /\ IF ready THEN Goes(t, Then(t)) /\ UNCHANGED lock ELSE Goes(t, "fetch") /\ lock' = t
  /\ UNCHANGED <<image, ready, ports, again, said, box, installer, console, killed, counts>>

\* Pulled, or built here when it cannot be.
Fetched(t, ok) ==
  /\ at[t] = "fetch" /\ Works(ok)
  /\ lock' = Free /\ ready' = (ready \/ ok) /\ image' = (image \/ ok)
  /\ IF ok THEN Goes(t, Then(t)) /\ UNCHANGED said ELSE Fails(t, "image")
  /\ UNCHANGED <<ports, again, box, installer, console, killed, starts, prunes, restarts>>

\* Somebody prunes the images that no container has.
Prunes ==
  /\ prunes < MaxPrunes /\ prunes' = prunes + 1
  /\ image /\ box = "none" /\ installer = "none"
  /\ image' = FALSE
  /\ UNCHANGED <<ready, lock, at, ports, again, said, box, installer, console, killed, starts, restarts, troubles>>

\* prepare: the pull in the background.
Pulls ==
  /\ at["pull"] = "idle" /\ ~ready /\ starts = 0
  /\ Goes("pull", "look")
  /\ UNCHANGED <<images, ports, again, said, box, installer, console, killed, counts>>

-----------------------------------------------------------------------------
(* start, _recreate.                                                       *)

\* One start at a time, of a server that has no handle: the supervisor holds its lock.
Starts ==
  /\ starts < MaxStarts /\ starts' = starts + 1
  /\ at["start"] = "idle" /\ at["stop"] \in {"idle", "done"} /\ pump \in {"none", "over"}
  /\ at' = [at EXCEPT !["start"] = "look", !["stop"] = "idle"]
  /\ wants' = Addons /\ again' = FALSE /\ said' = "" /\ exits' = "no" /\ pump' = "none" /\ broke' = FALSE
  /\ UNCHANGED <<images, taken, published, box, installer, printed, heard, reader, detached, killed, prunes, restarts, troubles>>

\* refuse_running: a server that still runs is not deleted.
Checks ==
  /\ at["start"] = "check"
  /\ IF box = "running" THEN Fails("start", "running") ELSE Goes("start", "clear") /\ UNCHANGED said
  /\ UNCHANGED <<images, ports, again, box, installer, console, killed, counts>>

Clears ==
  /\ at["start"] = "clear" /\ Goes("start", "create")
  /\ killed' = (killed \/ box = "running")
  /\ box' = "none"
  /\ UNCHANGED <<images, ports, again, said, installer, console, counts>>

\* A bug: an image that has been found once is not looked for again.
NoSuchImage == Fails("start", "image") /\ UNCHANGED <<ready, again>>
\* A 404: the image was pruned, and is fetched again, once.
Refetches ==
  IF again THEN Fails("start", "image") /\ UNCHANGED <<ready, again>>
  ELSE ready' = FALSE /\ again' = TRUE /\ Goes("start", "look") /\ UNCHANGED said
Creates ==
  /\ at["start"] = "create"
  /\ IF image THEN Goes("start", "attach") /\ box' = "created" /\ UNCHANGED <<ready, again, said>>
     ELSE Refetches /\ UNCHANGED box
  /\ UNCHANGED <<image, lock, ports, installer, console, killed, counts>>

\* _attach: the console is open before the server runs.
Attaches(ok) ==
  /\ at["start"] = "attach" /\ Works(ok)
  /\ IF ok THEN Goes("start", "run") /\ reader' = 1 /\ printed' = 0 /\ heard' = <<>> /\ UNCHANGED said
     ELSE Fails("start", "failed") /\ UNCHANGED <<reader, printed, heard>>
  /\ UNCHANGED <<images, ports, again, box, installer, pump, detached, exits, broke, killed, starts, prunes, restarts>>

\* Docker names one port that is taken: the server's own is a refusal, an add-on's is left out and
\* the container made again.
PortTaken(p) ==
  IF p = Game THEN Fails("start", "port") /\ UNCHANGED <<wants, again>>
  ELSE wants' = wants \ {p} /\ again' = FALSE /\ Goes("start", "look") /\ UNCHANGED said
Runs(ok) ==
  /\ at["start"] = "run"
  /\ LET busy == (wants \cup {Game}) \cap taken IN
       IF busy # {}
       THEN /\ ok /\ UNCHANGED troubles
            /\ \E p \in busy : PortTaken(p)
            /\ reader' = Closed
            /\ UNCHANGED <<box, published, pump, detached>>
       ELSE /\ Works(ok)
            /\ \E there \in IF ok THEN {TRUE} ELSE BOOLEAN :       \* the answer alone may be lost
                 /\ box' = IF there THEN "running" ELSE box
                 /\ published' = IF there THEN wants ELSE published
            /\ IF ok THEN /\ Goes("start", "idle") /\ said' = "up" /\ pump' = "live" /\ detached' = FALSE
                          /\ UNCHANGED reader
               ELSE Fails("start", "failed") /\ reader' = Closed /\ UNCHANGED <<pump, detached>>
            /\ UNCHANGED <<wants, again>>
  /\ UNCHANGED <<images, taken, installer, printed, heard, exits, broke, killed, starts, prunes, restarts>>

-----------------------------------------------------------------------------
(* The server, and _follow.                                                *)

Prints ==
  /\ box = "running" /\ printed < MaxLines /\ printed' = printed + 1
  /\ UNCHANGED <<images, at, ports, again, said, box, installer, heard, reader, pump, detached, exits, broke, killed, counts>>

\* It exits, by itself or because it was told to.
Exits ==
  /\ box = "running" /\ box' = "exited"
  /\ UNCHANGED <<images, at, ports, again, said, installer, console, killed, counts>>

\* The pump hands over whole lines.
Hears ==
  /\ pump = "live" /\ ~detached /\ reader # Closed /\ reader <= printed
  /\ heard' = Append(heard, reader) /\ reader' = reader + 1
  /\ UNCHANGED <<images, at, ports, again, said, box, installer, printed, pump, detached, exits, broke, killed, counts>>

\* The stream ends when the server has exited and all of it is read, or it breaks; or the pump was
\* cancelled because the agent lets go.
PumpEnds ==
  /\ pump = "live"
  /\ \/ ~detached /\ box # "running" /\ reader = printed + 1 /\ UNCHANGED <<troubles, broke>>
     \/ ~detached /\ box = "running" /\ Trouble /\ broke' = TRUE
     \/ at["stop"] = "logs" /\ UNCHANGED <<troubles, broke>>
  /\ pump' = IF detached THEN "over" ELSE "asks"
  /\ reader' = Closed
  /\ UNCHANGED <<images, at, ports, again, said, box, installer, printed, heard, detached, exits, killed, starts, prunes, restarts>>

\* Docker is asked for the code, for thirty seconds; on_exit.
AsksCode(ok) ==
  /\ pump = "asks"
  /\ IF box = "running" THEN ok /\ UNCHANGED troubles ELSE Works(ok)
  /\ pump' = "over"
  /\ exits' = CASE box = "running" -> "false" [] ok -> "code" [] OTHER -> "unknown"
  /\ UNCHANGED <<images, at, ports, again, said, box, installer, printed, heard, reader, detached, broke, killed, starts, prunes, restarts>>

\* stop: the command on the console, then the end of the pump, and only then Docker's own stop.
Stops ==
  /\ at["stop"] = "idle" /\ pump = "live" /\ ~detached
  /\ Goes("stop", "sent")
  /\ UNCHANGED <<images, ports, again, said, box, installer, console, killed, counts>>
StopSees ==
  /\ at["stop"] = "sent" /\ pump = "over" /\ Goes("stop", "done")
  /\ UNCHANGED <<images, ports, again, said, box, installer, console, killed, counts>>
StopTimesOut ==
  /\ at["stop"] = "sent" /\ pump # "over" /\ Goes("stop", "docker")
  /\ UNCHANGED <<images, ports, again, said, box, installer, console, killed, counts>>
DockerStops(ok) ==
  /\ at["stop"] = "docker" /\ Goes("stop", "done") /\ Works(ok)
  /\ box' = IF box = "running" /\ ok THEN "exited" ELSE box
  /\ UNCHANGED <<images, ports, again, said, installer, console, killed, starts, prunes, restarts>>

-----------------------------------------------------------------------------
(* Another agent: detach, adopt.                                           *)

\* The agent shuts down: it lets go of the console and cancels the pump.
Detaches ==
  /\ restarts < MaxRestarts /\ pump = "live" /\ ~detached /\ at["start"] = "idle" /\ at["stop"] = "idle"
  /\ detached' = TRUE /\ Goes("stop", "logs")
  /\ UNCHANGED <<images, ports, again, said, box, installer, printed, heard, reader, pump, exits, broke, killed, counts>>

\* A new agent, after a shutdown or a crash; it takes back what is running.
Restarts ==
  /\ restarts < MaxRestarts /\ restarts' = restarts + 1
  /\ pump \in {"none", "over"} \/ at["stop"] # "logs"
  /\ ready' = FALSE /\ lock' = Free
  /\ at' = [Idle EXCEPT !["start"] = IF box = "running" THEN "logs" ELSE "idle"]
  /\ pump' = "none" /\ reader' = Closed /\ heard' = <<>> /\ detached' = FALSE /\ said' = "" /\ again' = FALSE
  /\ UNCHANGED <<image, ports, box, installer, printed, exits, broke, killed, starts, prunes, troubles>>

\* adopt: the last lines of the log, then the console as it goes on.
AdoptsLog(ok) ==
  /\ at["start"] = "logs"
  /\ IF box = "running" THEN Works(ok) ELSE ok /\ UNCHANGED troubles
  /\ IF box = "running" /\ ok
     THEN Goes("start", "follow") /\ heard' = [i \in 1..printed |-> i] /\ UNCHANGED said
     ELSE Fails("start", "failed") /\ UNCHANGED heard
  /\ UNCHANGED <<images, ports, again, box, installer, printed, reader, pump, detached, exits, broke, killed, starts, prunes, restarts>>
AdoptsConsole(ok) ==
  /\ at["start"] = "follow"
  /\ Works(ok)
  /\ IF ok THEN /\ Goes("start", "idle") /\ said' = "up"
                /\ reader' = printed + 1 /\ pump' = "live" /\ detached' = FALSE
     ELSE Fails("start", "failed") /\ UNCHANGED <<reader, pump, detached>>
  /\ UNCHANGED <<images, ports, again, box, installer, printed, heard, exits, broke, killed, starts, prunes, restarts>>

-----------------------------------------------------------------------------
(* run_installer: a container of its own.                                  *)

Installs ==
  /\ at["install"] = "idle" /\ starts = 0
  /\ Goes("install", "look")
  /\ UNCHANGED <<images, ports, again, said, box, installer, console, killed, counts>>
InstallerClears ==
  /\ at["install"] = "clear" /\ Goes("install", IF image THEN "run" ELSE "look")
  /\ installer' = IF image THEN "running" ELSE "none"
  /\ ready' = (ready /\ image)
  /\ UNCHANGED <<image, lock, ports, again, said, box, console, killed, counts>>
\* It ends, or runs past its time and is killed; its container goes either way.
InstallerEnds ==
  /\ at["install"] = "run" /\ Goes("install", "done") /\ installer' = "none"
  /\ UNCHANGED <<images, ports, again, said, box, console, killed, counts>>

-----------------------------------------------------------------------------

Next ==
  \/ \E t \in {"start", "pull", "install"} :
       Looks(t) \/ Waits(t) \/ \E ok \in BOOLEAN : Fetched(t, ok)
  \/ Prunes \/ Pulls \/ Starts \/ Checks \/ Clears \/ Creates
  \/ \E ok \in BOOLEAN : Attaches(ok) \/ Runs(ok) \/ AsksCode(ok) \/ AdoptsLog(ok) \/ AdoptsConsole(ok) \/ DockerStops(ok)
  \/ Prints \/ Exits \/ Hears \/ PumpEnds
  \/ Stops \/ StopSees \/ StopTimesOut
  \/ Detaches \/ Restarts
  \/ Installs \/ InstallerClears \/ InstallerEnds

Spec == Init /\ [][Next]_vars

-----------------------------------------------------------------------------
(* Properties.                                                             *)

\* _image_lock, "One pull or build per image at a time".
OneFetch == \A s, t \in Tasks : at[s] = "fetch" /\ at[t] = "fetch" => s = t

\* _recreate: a start never deletes a server that runs ("that kills it unsaved"), and one that is
\* refused is refused for a reason: for the image only if it could not be fetched or was pruned, for
\* a port only if it is its own.  One that is up publishes the ports that were free.
StartsAreFair ==
  /\ ~killed
  /\ said = "image" => troubles > 0 \/ prunes > 1
  /\ said = "port" => Game \in taken
  /\ said = "up" /\ box = "running" => published = Addons \ taken

\* on_exit: a server that was let go of, or still runs with its console, has not exited; and a stop
\* that has ended has stopped it.
ExitsAreReal ==
  /\ exits = "false" => broke
  /\ exits = "code" => box # "running"
  /\ at["stop"] = "done" /\ troubles = 0 => box # "running"

\* start: the console of a server that this agent has started misses nothing, and is read to the
\* end before on_exit is called.
StartMissesNothing ==
  restarts = 0 =>
    /\ \A i \in DOMAIN heard : heard[i] = i
    /\ exits = "code" /\ ~broke => Len(heard) = printed

\* adopt: "its last tail lines go to on_output first, then the console follows it live".
\* Does not hold: see README, section 6.
AdoptMissesNothing == \A i \in DOMAIN heard : heard[i] = i
=============================================================================
