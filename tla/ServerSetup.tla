----------------------------- MODULE ServerSetup -----------------------------
(***************************************************************************)
(* What is promised of a server while it is set up: its files are fetched  *)
(* (Downloads), its first boots repaired (Repair, BootTest), its jar and   *)
(* its heap set (ServerJar, Heap), and mods added and recorded (AddMod,    *)
(* ModRecords).  The parts share no state, only the server they are about. *)
(***************************************************************************)
CONSTANTS
  FetchedFiles, HandFiles, FetchJobs, AtOnce, CacheLimit, FetchAttempts, MaxFetchFails, MaxSpoilt,
  Suspects, RendererJars, OfferedJars, MaxRounds, MaxToggles, MaxRepairTroubles,
  MaxBootTroubles,
  MaxBuild, MaxJarJobs, MaxJarTroubles,
  Resizers, HeapWorlds, TypedHeaps, ModCounts, Memory, FreeMemory, MaxResizes, MaxHeapTroubles,
  ModProjects, RootProject, ModWorlds, MaxDepth, MaxPlan, MaxAddTroubles, MaxDeletes,
  JarNames, JarContents, KnownTo, MaxVersion, MaxModChanges, MaxRecordTroubles

VARIABLES
  cached, lru, users, lockNo, fetch, trim, landed, hits, fetchCount,
  client, says, content, needs, suspects, repairPhase, round, report, tried, toggles, repairTroubles,
  oldLog, newLog, rotated, bootProc, quiet, logSeen, bootReading, bootPhase, logBase, fatal, outcome,
  bootTroubles,
  published, jarFolder, jarCommand, made, jarManifest, running, jarJob, jarJobs, jarTroubles,
  heapWorld, modCount, heapFile, heapCommand, heapRecord, resizing, wanted, sized, heapExcused,
  heapChanges, heapTroubles,
  requires, facts, sideBySide, visits, visited, plan, warned, depth, addPhase, addQueue, at, oldJar,
  modJars, modManifest, modHeld, listed, installed, failed, deleting, addTroubles, deletes,
  knows, modFolder, jarRecords, identifying, otherJob, newest, updateCheck, touched, recorded,
  crossed, modChanges, recordTroubles

Fetched == INSTANCE Downloads WITH
  Shas <- FetchedFiles, ByHand <- HandFiles, Installs <- FetchJobs, Concurrency <- AtOnce,
  Limit <- CacheLimit, Attempts <- FetchAttempts, MaxFails <- MaxFetchFails, MaxOthers <- MaxSpoilt,
  copy <- cached, count <- fetchCount
Repairing == INSTANCE Repair WITH
  Jars <- Suspects, Renderers <- RendererJars, Catalogue <- OfferedJars,
  MaxTroubles <- MaxRepairTroubles, disk <- suspects, phase <- repairPhase,
  troubles <- repairTroubles
Booting == INSTANCE BootTest WITH
  MaxTroubles <- MaxBootTroubles, proc <- bootProc, seen <- logSeen, reading <- bootReading,
  phase <- bootPhase, base <- logBase, troubles <- bootTroubles
Jar == INSTANCE ServerJar WITH
  MaxJobs <- MaxJarJobs, MaxTroubles <- MaxJarTroubles, folder <- jarFolder, command <- jarCommand,
  manifest <- jarManifest, job <- jarJob, jobs <- jarJobs, troubles <- jarTroubles
Sizing == INSTANCE Heap WITH
  Requests <- Resizers, Worlds <- HeapWorlds, Typed <- TypedHeaps, Total <- Memory, Free <- FreeMemory,
  MaxChanges <- MaxResizes, MaxTroubles <- MaxHeapTroubles, world <- heapWorld, mods <- modCount,
  file <- heapFile, command <- heapCommand, record <- heapRecord, request <- resizing,
  excused <- heapExcused, changes <- heapChanges, troubles <- heapTroubles
Adding == INSTANCE AddMod WITH
  Projects <- ModProjects, Root <- RootProject, Worlds <- ModWorlds,
  MaxTroubles <- MaxAddTroubles, phase <- addPhase, queue <- addQueue, disk <- modJars,
  manifest <- modManifest, held <- modHeld, troubles <- addTroubles
Recording == INSTANCE ModRecords WITH
  Names <- JarNames, Contents <- JarContents, Worlds <- KnownTo, MaxChanges <- MaxModChanges,
  MaxTroubles <- MaxRecordTroubles, folder <- modFolder, manifest <- jarRecords, id <- identifying,
  other <- otherJob, check <- updateCheck, changes <- modChanges, troubles <- recordTroubles

-----------------------------------------------------------------------------
(***************************************************************************)
(* The promises.                                                           *)
(***************************************************************************)
\* Repair: a session never undoes itself, keeps content, and gets on in every round.  BootTest:
\* what it goes by is this boot.  ServerJar: the startup command names a jar that is there.  Heap:
\* the heap in force is the one that was typed, its container holds it, a repair leaves a person's
\* heap alone and takes no more than there is.
LaunchHolds ==
  /\ Repairing!NeverUndoes /\ Repairing!ContentIsKept /\ Repairing!RoundsAreNew
  /\ Booting!ReadyIsThisBoot
  /\ Jar!CommandHasItsJar /\ Jar!CompleteCanStart
  /\ Sizing!ContainerFollows /\ Sizing!HeapIsAsTyped
  /\ Sizing!PersonsHeapStays /\ Sizing!RepairTakesNoMore

\* Downloads: a file in a server folder has the hash that was asked for, is downloaded once
\* for all who want it, and is given up for a reason.
\* AddMod: nothing is added twice, all that was asked for is accounted for and recorded.
\* ModRecords: what is recorded of a jar is what it is, nothing that is recorded gets lost, and
\* no mod is called current that is not.
ModsAreAccounted ==
  /\ Fetched!OnlyVerifiedLands /\ Fetched!OneDownload /\ Fetched!GivesUpForCause
  /\ Adding!NoTwice /\ Adding!Accounted /\ Adding!RecordsTell
  /\ Recording!RecordsAreTrue /\ Recording!AllAreIdentified
  /\ Recording!RecordsStay /\ Recording!NewestIsTold

\* BootTest: a boot is called failed for a reason.  AddMod: the old version goes only when the
\* new one is there.
StepsHaveCause == Booting!FailedForCause /\ Adding!OldOneKept
=============================================================================
