----------------------------- MODULE ServerJar ------------------------------
(***************************************************************************)
(* The server jar of one server: its creation from nothing (create_empty   *)
(* of app/provision.py), "Finish setup" of one that was left without a     *)
(* loader (reinstall_loader), and the update of Paper, Purpur and Folia    *)
(* jars (apply of app/jarupdates.py).  All three get the jar by the same   *)
(* ladder: the node downloads it, or BlessForge does, checks its hash and  *)
(* uploads it.  One such job runs at a time; it may fail or die anywhere,  *)
(* the project may publish a newer build and people start and stop the     *)
(* server meanwhile.                                                       *)
(***************************************************************************)
EXTENDS Naturals, FiniteSets

CONSTANTS MaxBuild,     \* bound: builds the project publishes
          MaxJobs,      \* bound: jobs that are begun
          MaxTroubles   \* bound: calls that fail, jobs that die
NoBuild == 0
Builds == 1..MaxBuild

VARIABLES published,    \* the newest build there is
          folder,       \* jars in the server's folder; TRUE for one whose hash is right
          command,      \* the build the startup command names
          made,         \* the server exists
          manifest,     \* complete; the recorded build
          running,      \* and the build it runs
          job,          \* kind, step, the build it installs, the one it found, was it running
          jobs, troubles
vars == <<published, folder, command, made, manifest, running, job, jobs, troubles>>

NoUpdate == [kind |-> "none", at |-> "none", new |-> NoBuild, old |-> NoBuild, was |-> FALSE]
Kinds == {"none", "create", "finish", "update"}
Places == {"none", "make", "stub", "fetch", "relay", "run", "command", "remove", "record",
           "backup", "stop", "again"}
NoManifest == [written |-> FALSE, complete |-> FALSE, build |-> NoBuild]
TypeOK ==
  /\ published \in Builds /\ folder \in [Builds -> {"none", "good", "bad"}]
  /\ command \in 0..MaxBuild /\ made \in BOOLEAN /\ running \in 0..MaxBuild
  /\ manifest \in [written : BOOLEAN, complete : BOOLEAN, build : 0..MaxBuild]
  /\ job \in [kind : Kinds, at : Places, new : 0..MaxBuild, old : 0..MaxBuild, was : BOOLEAN]
  /\ jobs \in 0..MaxJobs /\ troubles \in 0..MaxTroubles

Init ==
  /\ published = 1 /\ folder = [b \in Builds |-> "none"] /\ command = NoBuild /\ made = FALSE
  /\ manifest = NoManifest /\ running = NoBuild /\ job = NoUpdate /\ jobs = 0 /\ troubles = 0

Trouble == troubles < MaxTroubles /\ troubles' = troubles + 1
At(p) == job.at = p
Goes(p) == job' = [job EXCEPT !.at = p]
Idle == job = NoUpdate

\* The job raises or its process dies.  A server that was stopped for it stays stopped.
Breaks ==
  /\ ~Idle /\ Trouble /\ job' = NoUpdate
  /\ UNCHANGED <<published, folder, command, made, manifest, running, jobs>>

(***************************************************************************)
(* The three jobs.                                                         *)
(***************************************************************************)
Begins(kind, at, build) ==
  /\ Idle /\ jobs < MaxJobs /\ jobs' = jobs + 1
  /\ job' = [kind |-> kind, at |-> at, new |-> build, old |-> command, was |-> running # NoBuild]
  /\ UNCHANGED <<published, folder, command, made, manifest, running, troubles>>
CreateBegins == ~made /\ Begins("create", "make", published)
Creates ==
  /\ At("make") /\ Goes("stub") /\ made' = TRUE
  /\ UNCHANGED <<published, folder, command, manifest, running, jobs, troubles>>
StubWritten ==
  /\ At("stub") /\ Goes("fetch")
  /\ \/ manifest' = [NoManifest EXCEPT !.written = TRUE] /\ UNCHANGED troubles
     \/ Trouble /\ UNCHANGED manifest
  /\ UNCHANGED <<published, folder, command, made, running, jobs>>
FinishBegins ==
  /\ made /\ manifest.written /\ ~manifest.complete
  /\ \E b \in {published} \cup ({manifest.build} \ {NoBuild}) : Begins("finish", "fetch", b)

\* An update is for a newer build, unless it is forced; the build is looked up twice.
UpdateBegins ==
  /\ made /\ manifest.complete
  /\ \E forced \in BOOLEAN : forced \/ published > manifest.build
  /\ Begins("update", "backup", published)
BackedUp ==         \* or the update is not done: that is Breaks
  /\ At("backup") /\ Goes(IF job.was THEN "stop" ELSE "fetch")
  /\ UNCHANGED <<published, folder, command, made, manifest, running, jobs, troubles>>
Stopped ==          \* power and _wait_stopped
  /\ At("stop") /\ Goes("fetch") /\ running' = NoBuild
  /\ UNCHANGED <<published, folder, command, made, manifest, jobs, troubles>>

(***************************************************************************)
(* The ladder (_fetch_loader), the startup command and the rest.           *)
(***************************************************************************)
Fetched(b) == folder' = [folder EXCEPT ![b] = "good"]
NodeFetches ==
  /\ At("fetch")
  /\ \/ Goes("run") /\ Fetched(job.new) /\ UNCHANGED troubles
     \/ Goes("relay") /\ Trouble /\ UNCHANGED folder
  /\ UNCHANGED <<published, command, made, manifest, running, jobs>>
\* What the relay downloads is checked against the published hash before it is sent.
Relayed == {"good"}

Relays ==
  /\ At("relay") /\ Goes("run")
  /\ \E f \in Relayed : folder' = [folder EXCEPT ![job.new] = f]
  /\ UNCHANGED <<published, command, made, manifest, running, jobs, troubles>>
RunsInstaller ==    \* for the families whose jar is an installer
  /\ At("run") /\ Goes("command")
  /\ UNCHANGED <<published, folder, command, made, manifest, running, jobs, troubles>>
AfterFetch == IF job.kind = "update" THEN "remove" ELSE "record"
CommandRemovesFirst ==
  /\ At("command") /\ Goes(AfterFetch) /\ command' = job.new
  /\ folder' = [b \in Builds |-> IF job.kind = "update" /\ b = job.old THEN "none" ELSE folder[b]]
  /\ UNCHANGED <<published, made, manifest, running, jobs, troubles>>
CommandSet ==
  /\ At("command") /\ Goes(AfterFetch) /\ command' = job.new
  /\ UNCHANGED <<published, folder, made, manifest, running, jobs, troubles>>
OldRemoved ==       \* only when it is another file; one that cannot be removed stays
  /\ At("remove") /\ Goes("record")
  /\ \/ folder' = [b \in Builds |-> IF b = job.old /\ job.old # job.new THEN "none" ELSE folder[b]]
        /\ UNCHANGED troubles
     \/ Trouble /\ UNCHANGED folder
  /\ UNCHANGED <<published, command, made, manifest, running, jobs>>
Recorded ==
  /\ At("record")
  /\ IF job.was THEN Goes("again") ELSE job' = NoUpdate
  /\ \/ manifest' = [written |-> TRUE, complete |-> TRUE,
                     build |-> IF job.kind = "finish" THEN manifest.build ELSE job.new]
        /\ UNCHANGED troubles
     \/ Trouble /\ UNCHANGED manifest
  /\ UNCHANGED <<published, folder, command, made, running, jobs>>
StartedAgain ==
  /\ At("again") /\ job' = NoUpdate
  /\ running' = IF folder[command] # "none" THEN command ELSE NoBuild
  /\ UNCHANGED <<published, folder, command, made, manifest, jobs, troubles>>

(***************************************************************************)
(* People, and the project.                                                *)
(***************************************************************************)
Publishes ==
  /\ published < MaxBuild /\ published' = published + 1
  /\ UNCHANGED <<folder, command, made, manifest, running, job, jobs, troubles>>
Powers ==           \* start and stop, at any time
  /\ made /\ command # NoBuild /\ folder[command] # "none"
  /\ running' = IF running = NoBuild THEN command ELSE NoBuild
  /\ UNCHANGED <<published, folder, command, made, manifest, job, jobs, troubles>>

Next == \/ CreateBegins \/ Creates \/ StubWritten \/ FinishBegins \/ UpdateBegins \/ BackedUp
        \/ Stopped \/ NodeFetches \/ Relays \/ RunsInstaller \/ CommandSet \/ OldRemoved
        \/ Recorded \/ StartedAgain \/ Breaks \/ Publishes \/ Powers
Spec == Init /\ [][Next]_vars

(***************************************************************************)
(* Properties.                                                             *)
(***************************************************************************)
\* Wherever a job dies, the startup command names a jar that is in the folder and is the
\* one the project published: a server that had a jar can always be started again.
CommandHasItsJar == command # NoBuild => folder[command] = "good"

\* A server whose manifest says it is complete can be started: no order of failed
\* creations, "Finish setup" and updates leaves one that looks healthy without a jar.
CompleteCanStart == manifest.complete => command # NoBuild
=============================================================================
