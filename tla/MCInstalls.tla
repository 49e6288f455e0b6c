----------------------------- MODULE MCInstalls -----------------------------
(* What is put into the folder of a server: backups, downloads, modpacks,   *)
(* mods, the server's jar, repairs and the boots that test them              *)
(* (ServerSetup has the downloads, and all from the mods on, with what is    *)
(* promised of them).  The parts share no state, and a behaviour is one of   *)
(* one part: one run explores them all.                                      *)
EXTENDS WorldBackup, ServerSetup, Sequences

VARIABLES part,   \* the part that this behaviour is of
  pack, reviewed, wholePack, step, todo, target, flags, dropped, problems, blocked, onNode,
  installDisk, installServer, loader, manifest, clean, installs, troubles,
  kind, entry, data, filesJob, feed, littered, filesTroubles,
  name, cachePart, cacheContent, order, cacheJob, shared, torn, prunes, cacheTroubles,
  zips, records, store, install, clock, pruned, budget

\* Mods of a pack: the facts of each are one of these sets.
PackKinds ==
  {{"addressed"}, {"unlisted"}, {"excluded"}, {"addressed", "flagged"}, {"clientlike"},
   {"author", "addressed"}, {"fabric", "addressed"}, {"fabric", "off"}, {"connector"},
   {"blocked"}, {"blocked", "off", "held"}, {"blocked", "held"}, {"bundled", "clientlike"},
   {"off", "addressed"}}

\* Four projects: what each requires (a diamond, a loop, a shared requirement), and facts of them.
Four(a, b, c, d) == [p \in 1..4 |-> CASE p = 1 -> a [] p = 2 -> b [] p = 3 -> c [] OTHER -> d]
Required == {Four({2, 3}, {4}, {4}, {}), Four({2}, {3}, {1, 4}, {}), Four({2, 3}, {3}, {}, {})}
FactsOfFour ==
  {Four({}, {}, {}, {}), Four({}, {"recorded", "onDisk"}, {}, {}),
   Four({}, {"onDisk"}, {"renderer"}, {}), Four({"blocked"}, {}, {}, {"nofile"}),
   Four({}, {}, {"blocked"}, {})}
WorldsOfFour == {[requires |-> g, facts |-> f] : g \in Required, f \in FactsOfFour}

\* What is asked of the folder of a server with a file "f" and a folder "d" with a file in it.
Asked(op, path, dest) == [op |-> op, path |-> path, dest |-> dest]
FileRequests ==
  {Asked("read", <<"d", "f">>, <<>>), Asked("upload", <<"d", "f">>, <<>>), Asked("delete", <<"d">>, <<>>),
   Asked("move", <<"d", "f">>, <<"f">>), Asked("create", <<"f">>, <<>>), Asked("copy", <<"d">>, <<>>),
   Asked("extract", <<"f">>, <<>>), Asked("compress", <<"d">>, <<"f">>)}

\* A loader, and whether the command that starts the server reads a file of arguments.
Loaders == {<<"forge", TRUE>>, <<"fabric", FALSE>>}

\* Contents of jars, and who knows them; what each job wants of the cache.
Content(p) == [project |-> p, version |-> 1]
ContentsOfJars == {Content("a"), Content("b")}
KnownContents == [c \in ContentsOfJars |-> IF c = Content("a") THEN {"cf", "mr"} ELSE {"mr", "meta"}]
WhoKnows == {KnownContents}
PackAndJar == [j \in {"j1", "j2"} |-> <<"p", "a">>]

\* Archives that people bring: an export, a server pack that says different things in different
\* files, a torn one that is too big to be tested, and one that is over the limit.
Silent == [form |-> "none", loader |-> "", version |-> "", mc |-> "", mods |-> FALSE, built |-> FALSE]
Says(how, family, game) ==
  [Silent EXCEPT !.form = how, !.loader = family, !.mc = game, !.version = family]
Packed(as, large, chunks, inside) ==
  [zip |-> as, big |-> large, size |-> chunks, names |-> [k \in DOMAIN inside |-> inside[k][1]],
   says |-> [n \in {inside[k][1] : k \in DOMAIN inside} |->
               inside[CHOOSE k \in DOMAIN inside : inside[k][1] = n][2]]]
Brought ==
  {Packed("zip", FALSE, 1, <<
     <<<<"manifest.json">>, [Says("curseforge", "forge", "1.20") EXCEPT !.mods = TRUE]>>,
     <<<<"overrides", "mods", "a.jar">>, Silent>>,
     <<<<"overrides", "screenshots", "x">>, Silent>> >>),
   Packed("zip", FALSE, 1, <<
     <<<<"eula.txt">>, Silent>>, <<<<"variables.txt">>, Says("other", "", "1.20")>>,
     <<<<"mods", "a.jar">>, Silent>>, <<<<"manifest.json">>, Says("curseforge", "quilt", "1.19")>>,
     <<<<"libraries", "neoforge">>, Says("library", "neoforge", "1.21")>>,
     <<<<"..", "x">>, Silent>> >>),
   Packed("torn", TRUE, 1, <<
     <<<<"run.sh">>, Silent>>, <<<<"config", "c">>, Silent>>,
     <<<<"fabric.jar">>, Says("installer", "fabric", "")>> >>),
   Packed("zip", FALSE, 2, <<
     <<<<"manifest.json">>, [Says("curseforge", "quilt", "1.20") EXCEPT !.built = TRUE]>>,
     <<<<"overrides", "options.txt">>, Silent>> >>)}

Install == INSTANCE ModpackInstall WITH
  Mods <- {"m1", "m2"}, Kinds <- PackKinds, MaxInstalls <- 2, MaxTroubles <- 1,
  disk <- installDisk, server <- installServer
Filing == INSTANCE ServerFiles WITH
  Requests <- {"q1", "q2"}, Plain <- {"d", "f"}, Inodes <- 1..12, Offers <- FileRequests,
  QueueMax <- 1, Body <- 2, MaxTroubles <- 1, job <- filesJob, troubles <- filesTroubles
Caching == INSTANCE JarCache WITH
  Packs <- {"p"}, Jars <- {"a"}, Wants <- PackAndJar, Inodes <- 1..5, Chunks <- 3, Limit <- 6,
  Attempts <- 2, MaxPrunes <- 1, MaxTroubles <- 1, part <- cachePart, content <- cacheContent,
  job <- cacheJob, troubles <- cacheTroubles
Importing == INSTANCE Imports WITH
  Uploads <- 1..2, Installs <- {"i1"}, NoUpload <- 0, Archives <- Brought,
  ClientDirs <- {"screenshots"}, ClientFiles <- {"options.txt"},
  Skipped <- {"eula.txt", "run.sh", "manifest.json", "variables.txt"},
  Installable <- {"forge", "neoforge", "fabric"}, Limit <- 1, Keep <- 1, MaxTroubles <- 1

backupVars ==
  <<world, readBy, server, saving, disk, job, srvLock, backupLock, net, count>>
fetchVars ==
  <<cached, lru, users, lockNo, fetch, trim, landed, hits, fetchCount>>
installVars ==
  <<pack, reviewed, wholePack, step, todo, target, flags, dropped, problems, blocked, onNode,
    installDisk, installServer, loader, manifest, clean, installs, troubles>>
repairVars ==
  <<client, says, content, needs, suspects, repairPhase, round, report, tried, toggles,
    repairTroubles>>
bootVars ==
  <<oldLog, newLog, rotated, bootProc, quiet, logSeen, bootReading, bootPhase, logBase, fatal,
    outcome, bootTroubles>>
jarVars ==
  <<published, jarFolder, jarCommand, made, jarManifest, running, jarJob, jarJobs, jarTroubles>>
addVars ==
  <<requires, facts, sideBySide, visits, visited, plan, warned, depth, addPhase, addQueue, at,
    oldJar, modJars, modManifest, modHeld, listed, installed, failed, deleting, addTroubles,
    deletes>>
filesVars ==
  <<kind, entry, data, filesJob, feed, littered, filesTroubles>>
heapVars ==
  <<heapWorld, modCount, heapFile, heapCommand, heapRecord, resizing, wanted, sized, heapExcused,
    heapChanges, heapTroubles>>
recordsVars ==
  <<knows, modFolder, jarRecords, identifying, otherJob, newest, updateCheck, touched, recorded,
    crossed, modChanges, recordTroubles>>
cacheVars ==
  <<name, cachePart, cacheContent, order, cacheJob, shared, torn, prunes, cacheTroubles>>
importsVars ==
  <<zips, records, store, install, clock, pruned, budget>>
allVars == <<part, backupVars, fetchVars, installVars, repairVars, bootVars, jarVars, addVars,
       filesVars, heapVars, recordsVars, cacheVars, importsVars>>

\* The parts that are not of the behaviour stay as they begin.
PartsInit ==
  /\ part \in {"backup", "fetch", "install", "repair", "boot", "jar", "add", "files", "heap",
               "records", "cache", "imports"}
  /\ Init
  /\ Fetched!Init
  /\ Install!Init
  /\ part # "install" => pack = [m \in {"m1", "m2"} |-> {"addressed"}] /\ reviewed = FALSE /\ wholePack = FALSE
  /\ Repairing!Init
  /\ part # "repair" => client = {} /\ says = {} /\ content = {} /\ needs = [j \in {"a", "l"} |-> {}] /\ suspects = [j \in {"a", "l"} |-> "on"]
  /\ Booting!Init
  /\ part # "boot" => oldLog = {} /\ bootProc = "down"
  /\ Jar!Init
  /\ Adding!Init
  /\ part # "add" => requires = Four({2, 3}, {4}, {4}, {}) /\ facts = Four({}, {}, {}, {}) /\ sideBySide = FALSE /\ oldJar = FALSE
  /\ Filing!Init
  /\ Sizing!Init
  /\ part # "heap" => heapWorld = <<"fabric", FALSE>> /\ heapRecord = [mem |-> Sizing!Container(1024, 0), heap |-> 1024, by |-> FALSE]
  /\ Recording!Init
  /\ part # "records" => knows = KnownContents /\ modFolder = [f \in Recording!Entries |-> IF f[2] THEN Content("a") ELSE Recording!NoJar]
  /\ Caching!Init
  /\ Importing!Init

BackupStep ==
  /\ part = "backup" /\ Next
  /\ UNCHANGED <<part, fetchVars, installVars, repairVars, bootVars, jarVars, addVars, filesVars,
                 heapVars, recordsVars, cacheVars, importsVars>>
FetchStep ==
  /\ part = "fetch" /\ Fetched!Next
  /\ UNCHANGED <<part, backupVars, installVars, repairVars, bootVars, jarVars, addVars,
                 filesVars, heapVars, recordsVars, cacheVars, importsVars>>
InstallStep ==
  /\ part = "install" /\ Install!Next
  /\ UNCHANGED <<part, backupVars, fetchVars, repairVars, bootVars, jarVars, addVars, filesVars,
                 heapVars, recordsVars, cacheVars, importsVars>>
RepairStep ==
  /\ part = "repair" /\ Repairing!Next
  /\ UNCHANGED <<part, backupVars, fetchVars, installVars, bootVars, jarVars, addVars, filesVars,
                 heapVars, recordsVars, cacheVars, importsVars>>
BootStep ==
  /\ part = "boot" /\ Booting!Next
  /\ UNCHANGED <<part, backupVars, fetchVars, installVars, repairVars, jarVars, addVars,
                 filesVars, heapVars, recordsVars, cacheVars, importsVars>>
JarStep ==
  /\ part = "jar" /\ Jar!Next
  /\ UNCHANGED <<part, backupVars, fetchVars, installVars, repairVars, bootVars, addVars,
                 filesVars, heapVars, recordsVars, cacheVars, importsVars>>
AddStep ==
  /\ part = "add" /\ Adding!Next
  /\ UNCHANGED <<part, backupVars, fetchVars, installVars, repairVars, bootVars, jarVars,
                 filesVars, heapVars, recordsVars, cacheVars, importsVars>>
FilesStep ==
  /\ part = "files" /\ Filing!Next
  /\ UNCHANGED <<part, backupVars, fetchVars, installVars, repairVars, bootVars, jarVars,
                 addVars, heapVars, recordsVars, cacheVars, importsVars>>
HeapStep ==
  /\ part = "heap" /\ Sizing!Next
  /\ UNCHANGED <<part, backupVars, fetchVars, installVars, repairVars, bootVars, jarVars,
                 addVars, filesVars, recordsVars, cacheVars, importsVars>>
RecordsStep ==
  /\ part = "records" /\ Recording!Next
  /\ UNCHANGED <<part, backupVars, fetchVars, installVars, repairVars, bootVars, jarVars,
                 addVars, filesVars, heapVars, cacheVars, importsVars>>
CacheStep ==
  /\ part = "cache" /\ Caching!Next
  /\ UNCHANGED <<part, backupVars, fetchVars, installVars, repairVars, bootVars, jarVars,
                 addVars, filesVars, heapVars, recordsVars, importsVars>>
ImportsStep ==
  /\ part = "imports" /\ Importing!Next
  /\ UNCHANGED <<part, backupVars, fetchVars, installVars, repairVars, bootVars, jarVars,
                 addVars, filesVars, heapVars, recordsVars, cacheVars>>
PartsNext == BackupStep \/ FetchStep \/ InstallStep \/ RepairStep \/ BootStep \/ JarStep \/
             AddStep \/ FilesStep \/ HeapStep \/ RecordsStep \/ CacheStep \/ ImportsStep

PartsSpec == PartsInit /\ [][PartsNext]_allVars

(* Properties.                                                             *)

\* Every variable keeps its type.
PartsTyped ==
  /\ part = "backup" => TypeOK
  /\ part = "fetch" => Fetched!TypeOK
  /\ part = "install" => Install!TypeOK
  /\ part = "repair" => Repairing!TypeOK
  /\ part = "boot" => Booting!TypeOK
  /\ part = "jar" => Jar!TypeOK
  /\ part = "add" => Adding!TypeOK
  /\ part = "files" => Filing!TypeOK
  /\ part = "heap" => Sizing!TypeOK
  /\ part = "records" => Recording!TypeOK
  /\ part = "cache" => Caching!TypeOK
  /\ part = "imports" => Importing!TypeOK

\* JarCache: what is uploaded from the cache of the panel is whole, and so is what one job at a
\* time has put there; nothing that others left in it makes a job fail that runs alone.
\* ServerFiles: a request stays inside the folder, a file is whole or not there, and no
\* temporary file stays behind.
FilesHold ==
  /\ part = "cache" => Caching!UploadsAreWhole /\ Caching!OneAtATimeIsWhole /\ Caching!AloneSucceeds
  /\ part = "files" => Filing!StaysInside /\ Filing!WholeFiles /\ Filing!NoLitter

\* ModpackInstall: every mod of the pack is accounted for, what was switched off stays off, and
\* the server is not started without the mods somebody is to bring.  Imports: an archive that is
\* listed is whole and the newest stay, and what is installed of it is what it was said to be.
PackIsAccounted ==
  /\ part = "install" =>
       Install!EveryModAccounted /\ Install!OffStaysOff /\ Install!BootHasItsMods
  /\ part = "imports" =>
       /\ Importing!ListedAreWhole /\ Importing!PruneKeepsNewest /\ Importing!InstallsAsShown
       /\ Importing!FolderMakesNoDifference /\ Importing!HandAddedStay
\* JarCache: what an interrupted download leaves behind is never taken for the archive.
\* Does not hold: see README, section 6.
NeverMistaken == part = "cache" => Caching!NeverMistaken
=============================================================================
