---------------------------- MODULE WorldBackup -----------------------------
(***************************************************************************)
(* The backups of one server (agent/worldbackup.py, and what surrounds it  *)
(* in agent/servers.py): snapshots of its files in a store that keeps each *)
(* content once, taken while the game may be writing.                      *)
(*                                                                         *)
(* A job is one coroutine; its blocking work runs on a thread, one file or *)
(* one file system call after the other, and the agent may die in between. *)
(***************************************************************************)
EXTENDS Integers, FiniteSets

CONSTANTS
  Files,       \* paths below the server's folder
  Contents,    \* what a file may hold; stands for the hash as well
  Gone,        \* a path without a file
  Jobs, NoJob, \* coroutines that exist at once
  Keep,        \* the setting "keep"
  MaxRequests, \* bound on the requests, each of which takes a snapshot at most
  MaxStarts, MaxWrites,  \* bounds on what the game does
  MaxTroubles  \* bound on the deaths of the agent and the file system calls that fail

ASSUME ContentsAssumption == Contents # {}
ASSUME LimitsAssumption == {MaxRequests, MaxStarts, MaxWrites, MaxTroubles} \subseteq Nat
ASSUME JobsAssumption == NoJob \notin Jobs
ASSUME KeepAssumption == Keep \in Int

VARIABLES
  world,   \* the server's folder, from paths to contents
  readBy,  \* the snapshots that have read a file as it is now: its size and mtime
  server,  \* the game: "down", "booting" or "running"
  saving,  \* whether the game writes: "on", "flushing" after save-off, "off"
  disk,    \* the store: objects, manifests and the index, in which a higher id is a newer one
  job,     \* what each coroutine does
  srvLock, backupLock,  \* who holds them
  net,     \* what the restore that began last was promised: a snapshot, and the world it replaced
  count    \* what there was so far of all that is bounded

vars == <<world, readBy, server, saving, disk, job, srvLock, backupLock, net, count>>

Ids == 1 .. MaxRequests
NoId == 0
Copies == [Files -> Contents \cup {Gone}]
Manifests == UNION {[D -> Copies] : D \in SUBSET Ids}
Nothing == [f \in Files |-> Gone]
NoNet == [id |-> NoId, was |-> Nothing]

PCs == {"none", "srvlock", "lock", "flush", "walk", "index", "unlink", "collect",
        "stop", "check", "write", "done", "failed"}
Job == [kind : {"none", "backup", "restore", "delete"}, pc : PCs,
        id : Ids \cup {NoId},          \* the snapshot it restores or deletes
        new : Ids \cup {NoId},         \* the snapshot it takes
        left : SUBSET Files,           \* files it has yet to copy or write
        copy : Copies, asOf : Copies,  \* what it has copied; the world when it began
        calm : BOOLEAN,                \* nothing was written or left out meanwhile
        off : BOOLEAN,                 \* it turned saving off
        was : BOOLEAN,                 \* the server ran before the restore
        gone : SUBSET Ids]             \* snapshots it removes
Resting == [kind |-> "none", pc |-> "none", id |-> NoId, new |-> NoId, left |-> {},
            copy |-> Nothing, asOf |-> Nothing, calm |-> FALSE, off |-> FALSE,
            was |-> FALSE, gone |-> {}]
Counts == [asked : 0 .. MaxRequests, taken : 0 .. MaxRequests, starts : 0 .. MaxStarts,
           writes : 0 .. MaxWrites, troubles : 0 .. MaxTroubles, died : BOOLEAN]

TypeOK ==
  /\ world \in Copies
  /\ readBy \in [Files -> SUBSET Ids]
  /\ server \in {"down", "booting", "running"} /\ saving \in {"on", "flushing", "off"}
  /\ disk \in [objects : SUBSET Contents, manifests : Manifests, index : SUBSET Ids]
  /\ job \in [Jobs -> Job]
  /\ {srvLock, backupLock} \subseteq Jobs \cup {NoJob}
  /\ net \in [id : Ids \cup {NoId}, was : Copies]
  /\ count \in Counts

Init ==
  /\ world = [f \in Files |-> CHOOSE c \in Contents : TRUE]
  /\ readBy = [f \in Files |-> {}]
  /\ server = "down" /\ saving = "on"
  /\ disk = [objects |-> {}, manifests |-> <<>>, index |-> {}]
  /\ job = [j \in Jobs |-> Resting]
  /\ srvLock = NoJob /\ backupLock = NoJob
  /\ net = NoNet
  /\ count = [asked |-> 0, taken |-> 0, starts |-> 0, writes |-> 0, troubles |-> 0,
               died |-> FALSE]

Trouble(death) ==
  /\ count.troubles < MaxTroubles
  /\ count' = [count EXCEPT !.troubles = @ + 1, !.died = @ \/ death]
Goes(j, pc) == job' = [job EXCEPT ![j].pc = pc]
At(j, pc) == job[j].pc = pc
Game == <<server, saving>>
Locks == <<srvLock, backupLock>>
Folder == <<world, readBy>>

-----------------------------------------------------------------------------
(* The game, and the server around it.                                     *)

\* Whoever copies while the server starts may copy what it writes.
ServerStarts ==
  /\ server = "down" /\ srvLock = NoJob
  /\ count.starts < MaxStarts /\ count' = [count EXCEPT !.starts = @ + 1]
  /\ server' = "booting" /\ saving' = "on"
  /\ job' = [j \in Jobs |-> [job[j] EXCEPT !.calm = FALSE]]
  /\ UNCHANGED <<Folder, disk, Locks, net>>

ServerBoots ==
  /\ server = "booting" /\ server' = "running"
  /\ UNCHANGED <<Folder, saving, disk, job, Locks, net, count>>

\* A stop, or a crash.
ServerEnds ==
  /\ server # "down" /\ server' = "down" /\ saving' = "on"
  /\ UNCHANGED <<Folder, disk, job, Locks, net, count>>

GameWrites(f, c) ==
  /\ server # "down" /\ saving # "off" /\ c # world[f]
  /\ world' = [world EXCEPT ![f] = c]
  /\ readBy' = [readBy EXCEPT ![f] = {}]
  /\ count.writes < MaxWrites /\ count' = [count EXCEPT !.writes = @ + 1]
  /\ UNCHANGED <<Game, disk, job, Locks, net>>

\* "Saved the game".
GameFlushed ==
  /\ saving = "flushing" /\ saving' = "off"
  /\ UNCHANGED <<Folder, server, disk, job, Locks, net, count>>

-----------------------------------------------------------------------------
(* Requests and locks.                                                     *)

Listed(i) == i \in disk.index
HasManifest(i) == i \in DOMAIN disk.manifests
Readable(i) ==
  HasManifest(i) /\ \A f \in Files : disk.manifests[i][f] \in disk.objects \cup {Gone}

Idle == CHOOSE j \in Jobs : (\E k \in Jobs : job[k].kind = "none") => job[j].kind = "none"
Asks(j, kind, id, pc) ==
  /\ j = Idle /\ job[j].kind = "none" /\ count.asked < MaxRequests
  /\ job' = [job EXCEPT ![j] = [Resting EXCEPT !.kind = kind, !.id = id, !.pc = pc]]
  /\ count' = [count EXCEPT !.asked = @ + 1]
  /\ UNCHANGED <<Folder, disk, Game, Locks, net>>

\* start_backup(), start_restore() (404 for a snapshot without a manifest), delete_backup().
AsksBackup(j) == Asks(j, "backup", NoId, "lock")
AsksRestore(j, id) == HasManifest(id) /\ Asks(j, "restore", id, "srvlock")
AsksDelete(j, id) == id <= count.taken /\ Asks(j, "delete", id, "lock")

\* _restore() takes the lock of the server first: nothing starts it meanwhile.
LocksServer(j) ==
  /\ At(j, "srvlock") /\ srvLock = NoJob
  /\ srvLock' = j /\ Goes(j, "lock")
  /\ UNCHANGED <<Folder, disk, Game, backupLock, net, count>>

\* _backup(): a server that is up saves first.
LocksForBackup(j) ==
  /\ job[j].kind = "backup" /\ At(j, "lock") /\ backupLock = NoJob
  /\ backupLock' = j
  /\ job' = [job EXCEPT ![j].pc = "flush", ![j].off = (server = "running")]
  /\ saving' = IF server = "running" THEN "flushing" ELSE saving
  /\ UNCHANGED <<Folder, server, disk, srvLock, net, count>>

\* _restore(): stops the server if it has to.
LocksForRestore(j) ==
  /\ job[j].kind = "restore" /\ At(j, "lock") /\ backupLock = NoJob
  /\ backupLock' = j
  /\ job' = [job EXCEPT ![j].pc = "stop", ![j].was = (server # "down")]
  /\ UNCHANGED <<Folder, disk, Game, srvLock, net, count>>

\* A bug: nobody else is looked for.
DeleteUnlocked(j) ==
  /\ job[j].kind = "delete" /\ At(j, "lock")
  /\ job' = [job EXCEPT ![j].gone = {job[j].id},
                        ![j].pc = IF HasManifest(job[j].id) THEN "unlink" ELSE "failed"]
  /\ UNCHANGED <<Folder, disk, Game, Locks, net, count>>

\* Store.delete(): 404 for a snapshot that is not there any more.
LocksForDelete(j) ==
  /\ job[j].kind = "delete" /\ At(j, "lock") /\ backupLock = NoJob
  /\ backupLock' = j
  /\ job' = [job EXCEPT ![j].gone = {job[j].id},
                        ![j].pc = IF HasManifest(job[j].id) THEN "unlink" ELSE "failed"]
  /\ UNCHANGED <<Folder, disk, Game, srvLock, net, count>>

-----------------------------------------------------------------------------
(* Store.take().                                                           *)

\* The copy begins: saved, or not confirmed in time, or nothing to save.
BeginsCopy(j) ==
  /\ \/ At(j, "flush")
     \/ At(j, "stop") /\ server = "down"
  /\ count.taken < MaxRequests
  /\ job' = [job EXCEPT ![j] = [@ EXCEPT !.pc = "walk", !.new = count.taken + 1,
               !.left = Files, !.copy = Nothing, !.asOf = world,
               !.calm = (server = "down" \/ saving = "off")]]
  /\ count' = [count EXCEPT !.taken = @ + 1]
  /\ UNCHANGED <<Folder, disk, Game, Locks, net>>

Newest == CHOOSE i \in disk.index : \A k \in disk.index : k <= i

\* A bug: a file that was in the newest snapshot is taken to be as it was.
ReusableBySize(f) ==
  /\ disk.index # {} /\ HasManifest(Newest)
  /\ disk.manifests[Newest][f] \in disk.objects

\* The newest snapshot has read the file and it has not changed since.
Reusable(f) ==
  /\ disk.index # {} /\ HasManifest(Newest)
  /\ Newest \in readBy[f]
  /\ disk.manifests[Newest][f] \in disk.objects

\* A walk goes through the folder, and a restore through the manifest, in an
\* order of its own.
NextOf(j) == CHOOSE f \in Files : job[j].left # {} => f \in job[j].left

\* One file: its hash is carried over, or it is read and stored.
CopiesOne(j, f) ==
  /\ At(j, "walk") /\ job[j].left # {} /\ f = NextOf(j)
  /\ LET content == IF world[f] # Gone /\ Reusable(f)
                      THEN disk.manifests[Newest][f] ELSE world[f]
     IN  /\ job' = [job EXCEPT ![j].left = @ \ {f}, ![j].copy[f] = content]
         /\ disk' = [disk EXCEPT !.objects = @ \cup ({content} \ {Gone})]
  /\ readBy' = IF world[f] = Gone THEN readBy ELSE [readBy EXCEPT ![f] = @ \cup {job[j].new}]
  /\ UNCHANGED <<world, Game, Locks, net, count>>

\* A file that cannot be read is left out, and named in the manifest.
Skips(j, f) ==
  /\ At(j, "walk") /\ job[j].left # {} /\ f = NextOf(j) /\ world[f] # Gone
  /\ Trouble(FALSE)
  /\ job' = [job EXCEPT ![j].left = @ \ {f}, ![j].calm = FALSE]
  /\ UNCHANGED <<Folder, disk, Game, Locks, net>>

\* The manifest is written beside its name and moved there.
WritesManifest(j) ==
  /\ At(j, "walk") /\ job[j].left = {}
  /\ disk' = [disk EXCEPT !.manifests =
       [i \in DOMAIN @ \cup {job[j].new} |-> IF i = job[j].new THEN job[j].copy ELSE @[i]]]
  /\ Goes(j, "index")
  /\ UNCHANGED <<Folder, Game, Locks, net, count>>

\* A bug: one more than what is to be kept goes.
SurplusAndOne(j) ==
  LET index == disk.index \cup {job[j].new}
  IN  IF job[j].kind = "backup" /\ Keep > 0
        THEN {i \in index : Cardinality({k \in index : k >= i}) >= Keep} ELSE {}

\* keep_only(): what a backup with a `keep` removes.
Surplus(j) ==
  LET index == disk.index \cup {job[j].new}
  IN  IF job[j].kind = "backup" /\ Keep > 0
        THEN {i \in index : Cardinality({k \in index : k > i}) >= Keep} ELSE {}

\* Then the index.  A backup goes on to remove what is beyond `keep`.
WritesIndex(j) ==
  /\ At(j, "index")
  /\ disk' = [disk EXCEPT !.index = @ \cup {job[j].new}]
  /\ job' = [job EXCEPT ![j].gone = Surplus(j), ![j].copy = Nothing, ![j].asOf = Nothing,
                        ![j].pc = CASE job[j].kind = "restore" -> "check"
                                    [] job[j].kind # "restore" /\ Surplus(j) = {} -> "done"
                                    [] OTHER -> "unlink"]
  /\ UNCHANGED <<Folder, Game, Locks, net, count>>

\* The file system refuses: the job ends with an error.
TakeFails(j) ==
  /\ job[j].pc \in {"walk", "index"}
  /\ Trouble(FALSE)
  /\ Goes(j, "failed")
  /\ UNCHANGED <<Folder, disk, Game, Locks, net>>

-----------------------------------------------------------------------------
(* Removing: keep_only() and delete().                                     *)

\* Manifests first.  Whoever counted on one of them has been told.
Unlinks(j, i) ==
  /\ At(j, "unlink") /\ i \in job[j].gone /\ HasManifest(i)
  /\ disk' = [disk EXCEPT !.manifests = [x \in DOMAIN @ \ {i} |-> @[x]]]
  /\ net' = IF net.id = i THEN NoNet ELSE net
  /\ UNCHANGED <<Folder, Game, job, Locks, count>>

Unlists(j) ==
  /\ At(j, "unlink") /\ job[j].gone \cap DOMAIN disk.manifests = {}
  /\ disk' = [disk EXCEPT !.index = @ \ job[j].gone]
  /\ Goes(j, "collect")
  /\ UNCHANGED <<Folder, Game, Locks, net, count>>

\* collect(): what no manifest of the index refers to.
Wanted == UNION {{disk.manifests[i][f] : f \in Files} :
                   i \in {x \in DOMAIN disk.manifests : Listed(x)}}

Collects(j) ==
  /\ At(j, "collect")
  /\ \/ \E o \in disk.objects \ Wanted :
          disk' = [disk EXCEPT !.objects = @ \ {o}] /\ UNCHANGED job
     \/ disk.objects \subseteq Wanted /\ Goes(j, "done") /\ UNCHANGED disk
  /\ UNCHANGED <<Folder, Game, Locks, net, count>>

-----------------------------------------------------------------------------
(* Store.restore() and the end of a job.                                   *)

\* _stop() brings the server down, or it would not stop and nothing is restored.
Stops(j) ==
  /\ At(j, "stop") /\ server # "down"
  /\ \/ server' = "down" /\ saving' = "on" /\ UNCHANGED job
     \/ Goes(j, "failed") /\ UNCHANGED Game
  /\ UNCHANGED <<Folder, disk, Locks, net, count>>

\* The snapshot may be gone by now.  Everything is looked for before anything
\* is removed.
Wipes(j) ==
  /\ At(j, "check") /\ Readable(job[j].id)
  /\ job' = [job EXCEPT ![j].pc = "write", ![j].left = Files,
                        ![j].copy = disk.manifests[job[j].id]]
  /\ net' = IF job[j].calm THEN [id |-> job[j].new, was |-> world] ELSE NoNet
  /\ world' = Nothing /\ readBy' = [f \in Files |-> {}]
  /\ UNCHANGED <<disk, Game, Locks, count>>

RestoreRefused(j) ==
  /\ At(j, "check") /\ ~Readable(job[j].id)
  /\ Goes(j, "failed")
  /\ UNCHANGED <<Folder, disk, Game, Locks, net, count>>

WritesBack(j, f) ==
  /\ At(j, "write") /\ f = NextOf(j)
  /\ world' = [world EXCEPT ![f] = job[j].copy[f]]
  /\ job' = [job EXCEPT ![j].left = @ \ {f},
                        ![j].pc = IF job[j].left = {f} THEN "done" ELSE @]
  /\ UNCHANGED <<readBy, disk, Game, Locks, net, count>>

\* The locks are let go, saving is turned on again, and a server that ran
\* before a restore is started.
Finishes(j) ==
  /\ job[j].pc \in {"done", "failed"}
  /\ job' = [job EXCEPT ![j] = Resting]
  /\ backupLock' = IF backupLock = j THEN NoJob ELSE backupLock
  /\ srvLock' = IF srvLock = j THEN NoJob ELSE srvLock
  /\ server' = IF At(j, "done") /\ job[j].was THEN "booting" ELSE server
  /\ saving' = IF job[j].off THEN "on" ELSE saving
  /\ UNCHANGED <<Folder, disk, net, count>>

\* The agent stops in the middle; the server runs on, and is adopted.
AgentDies ==
  /\ \E j \in Jobs : job[j].kind # "none"
  /\ Trouble(TRUE)
  /\ job' = [j \in Jobs |-> Resting]
  /\ srvLock' = NoJob /\ backupLock' = NoJob
  /\ UNCHANGED <<Folder, disk, Game, net>>

JobMoves(j) ==
  \/ LocksServer(j) \/ LocksForBackup(j) \/ LocksForRestore(j) \/ LocksForDelete(j)
  \/ BeginsCopy(j) \/ WritesManifest(j) \/ WritesIndex(j)
  \/ Unlists(j) \/ Collects(j) \/ Stops(j) \/ Wipes(j) \/ RestoreRefused(j) \/ Finishes(j)
  \/ \E f \in Files : CopiesOne(j, f) \/ WritesBack(j, f)
  \/ \E i \in Ids : Unlinks(j, i)

Requested(j) == AsksBackup(j) \/ \E i \in Ids : AsksRestore(j, i) \/ AsksDelete(j, i)

ServerMoves ==
  \/ ServerStarts \/ ServerBoots \/ ServerEnds \/ GameFlushed
  \/ \E f \in Files, c \in Contents : GameWrites(f, c)

Next ==
  \/ ServerMoves \/ AgentDies
  \/ \E j \in Jobs : Requested(j) \/ JobMoves(j) \/ TakeFails(j) \/ \E f \in Files : Skips(j, f)

Spec == Init /\ [][Next]_vars

\* Coroutines and threads go on.
Fairness == \A j \in Jobs : SF_vars(JobMoves(j))

-----------------------------------------------------------------------------
(* Properties.                                                             *)

\* "so a live world is never copied mid-write": a copy of a server that was
\* down, or confirmed its save, and was not started meanwhile is the world as
\* it was at one moment, whatever other backups begin and end around it.
SnapshotIsMoment ==
  \A j \in Jobs : job[j].calm /\ At(j, "index") => job[j].copy = job[j].asOf

\* restore() has a net: the world it replaced, or was replacing when the agent
\* died, is in the store as a whole until somebody removes that backup.
NetHolds == net.id # NoId => Readable(net.id) /\ disk.manifests[net.id] = net.was

\* A backup that is reported done can be restored and is listed; a restore that
\* is has made the folder exactly the snapshot.
DoneMeansDone ==
  \A j \in Jobs : At(j, "done") =>
    /\ job[j].kind = "backup" => Listed(job[j].new) /\ Readable(job[j].new)
    /\ job[j].kind = "restore" => world = job[j].copy

\* Why what is listed stays whole, whoever removes objects meanwhile: whoever
\* works on the store has the lock of the backups, ids are not given twice, and
\* what a copy has stored so far is still there when its manifest is listed.
Working == {"flush", "walk", "index", "unlink", "collect", "stop", "check", "write"}
Locked == \A j \in Jobs : job[j].pc \in Working => backupLock = j
Named ==
  \A j \in Jobs : /\ job[j].pc \in {"walk", "index"} => job[j].new \in Ids
                  /\ job[j].kind = "delete" => job[j].id \in Ids
Numbered ==
  /\ \A i \in DOMAIN disk.manifests \cup disk.index : i <= count.taken
  /\ \A j \in Jobs : job[j].pc \in {"walk", "index"} => job[j].new <= count.taken
Whole == \A i \in disk.index : HasManifest(i) => Readable(i)
Copying ==
  \A j \in Jobs :
    /\ At(j, "walk") =>
         /\ ~HasManifest(job[j].new) /\ ~Listed(job[j].new)
         /\ \A f \in Files : job[j].copy[f] \in disk.objects \cup {Gone}
    /\ At(j, "index") => Readable(job[j].new) /\ ~Listed(job[j].new)
StoreInv == Locked /\ Named /\ Numbered /\ Whole /\ Copying

\* What a reader of the store sees is a catalogue of whole snapshots.
Broken == "broken"
CatalogueNow ==
  [i \in {x \in DOMAIN disk.manifests : Listed(x)} |->
     [f \in Files |-> IF disk.manifests[i][f] \in disk.objects \cup {Gone}
                        THEN disk.manifests[i][f] ELSE Broken]]
Promised == INSTANCE BackupCatalogue WITH Contents <- Contents \cup {Gone}, snaps <- CatalogueNow
ImplementsCatalogue == Promised!Spec

\* _backup(): whatever happens to the backup, the server saves again, unless
\* the agent itself died.
SavingComesBack ==
  (saving # "on" /\ ~count.died) ~> (saving = "on" \/ count.died)
=============================================================================
