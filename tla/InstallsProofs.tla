-------------------------- MODULE InstallsProofs --------------------------
(***************************************************************************)
(* The store of backups implements a catalogue of snapshots; and what      *)
(* ServerSetup promises of a server while it is set up: the files of a mod *)
(* and the record of them, the downloads, and why a set-up may fail.  That *)
(* it launches as it should is proved in JobProofs.                        *)
(***************************************************************************)
EXTENDS WorldBackup, ServerSetup, Integers, FiniteSetTheorems, SequenceTheorems, TLAPS

-----------------------------------------------------------------------------
(* Typing.                                                                 *)

\* A table of manifests is a function from some ids to copies.
LEMMA ManifestsTyped ==
  /\ \A m \in Manifests : DOMAIN m \subseteq Ids /\ \A i \in DOMAIN m : m[i] \in Copies
  /\ \A D \in SUBSET Ids : \A g \in [D -> Copies] : g \in Manifests
BY DEF Manifests

\* What a job may become at each of its steps.
LEMMA JobsTyped ==
  ASSUME TypeOK, NEW j \in Jobs
  PROVE  /\ job[j] \in Job /\ Resting \in Job
         /\ \A r \in Job : [job EXCEPT ![j] = r] \in [Jobs -> Job]
         /\ \A pc \in PCs : [job EXCEPT ![j].pc = pc] \in [Jobs -> Job]
<1>1. Resting \in Job
  BY DEF Resting, Copies, Nothing, Job, PCs
<1>2. \A r \in Job : [job EXCEPT ![j] = r] \in [Jobs -> Job]
  BY DEF TypeOK
<1>3. \A pc \in PCs : [job EXCEPT ![j].pc = pc] \in [Jobs -> Job]
  BY DEF TypeOK, Job
<1>4. job[j] \in Job
  BY DEF TypeOK
<1> QED
  BY <1>1, <1>2, <1>3, <1>4

\* The fields a step may change, each with a value of its type.
LEMMA FieldsTyped ==
  ASSUME NEW r \in Job, NEW pc \in PCs, NEW gone \in SUBSET Ids, NEW left \in SUBSET Files,
         NEW copy \in Copies, NEW asOf \in Copies, NEW off \in BOOLEAN
  PROVE  /\ [r EXCEPT !.calm = off] \in Job
         /\ [r EXCEPT !.pc = pc, !.off = off] \in Job
         /\ [r EXCEPT !.pc = pc, !.was = off] \in Job
         /\ [r EXCEPT !.gone = gone, !.pc = pc] \in Job
         /\ [r EXCEPT !.left = left, !.calm = off] \in Job
         /\ [r EXCEPT !.left = left, !.pc = pc] \in Job
         /\ [r EXCEPT !.pc = pc, !.left = left, !.copy = copy] \in Job
         /\ [r EXCEPT !.gone = gone, !.copy = copy, !.asOf = asOf, !.pc = pc] \in Job
         /\ [r EXCEPT !.left = left, !.copy = copy] \in Job
BY DEF Job

\* What the game does.
LEMMA ServerTyped ==
  ASSUME TypeOK, ServerMoves PROVE TypeOK'
<1>1. CASE ServerStarts
  <2>1. \A k \in Jobs : [job[k] EXCEPT !.calm = FALSE] \in Job
    BY FieldsTyped DEF TypeOK, PCs, Copies
  <2>2. job' \in [Jobs -> Job]
    BY <1>1, <2>1 DEF ServerStarts
  <2>3. count' \in Counts
    BY <1>1, LimitsAssumption DEF ServerStarts, TypeOK, Counts
  <2> QED
    BY <1>1, <2>2, <2>3 DEF ServerStarts, TypeOK, Folder, Locks
<1>2. CASE ServerBoots \/ ServerEnds \/ GameFlushed
  BY <1>2 DEF ServerBoots, ServerEnds, GameFlushed, TypeOK, Folder, Locks
<1>3. CASE \E f \in Files, c \in Contents : GameWrites(f, c)
  <2>1. PICK f \in Files, c \in Contents : GameWrites(f, c)
    BY <1>3
  <2>2. count' \in Counts
    BY <2>1, LimitsAssumption DEF GameWrites, TypeOK, Counts
  <2> QED
    BY <2>1, <2>2 DEF GameWrites, TypeOK, Copies, Game, Locks
<1> QED
  BY <1>1, <1>2, <1>3 DEF ServerMoves

\* Trouble is counted.
LEMMA CountsTyped ==
  ASSUME TypeOK
  PROVE  /\ \A death \in BOOLEAN : Trouble(death) => count' \in Counts
         /\ count.asked < MaxRequests => [count EXCEPT !.asked = @ + 1] \in Counts
         /\ count.taken < MaxRequests => [count EXCEPT !.taken = @ + 1] \in Counts
<1>1. ASSUME NEW death \in BOOLEAN, Trouble(death) PROVE count' \in Counts
  <2>1. PICK d \in BOOLEAN : d = (count.died \/ death)
    OBVIOUS
  <2>2. count' = [count EXCEPT !.troubles = @ + 1, !.died = d]
    BY <1>1, <2>1, Zenon DEF Trouble
  <2>3. count.troubles + 1 \in 0 .. MaxTroubles
    BY <1>1, LimitsAssumption DEF Trouble, TypeOK, Counts
  <2>4. [count EXCEPT !.troubles = @ + 1, !.died = d] \in Counts
    BY <2>3 DEF TypeOK, Counts
  <2> QED
    BY <2>2, <2>4
<1>2. count.asked < MaxRequests => [count EXCEPT !.asked = @ + 1] \in Counts
  BY LimitsAssumption DEF TypeOK, Counts
<1>3. count.taken < MaxRequests => [count EXCEPT !.taken = @ + 1] \in Counts
  BY LimitsAssumption DEF TypeOK, Counts
<1> QED
  BY <1>1, <1>2, <1>3

\* The agent dies.
LEMMA DeathTyped ==
  ASSUME TypeOK, AgentDies PROVE TypeOK'
<1>1. count' \in Counts
  BY CountsTyped DEF AgentDies
<1>2. job' \in [Jobs -> Job]
  BY JobsTyped DEF AgentDies
<1> QED
  BY <1>1, <1>2 DEF AgentDies, TypeOK, Folder, Game

\* What is asked for.
LEMMA RequestTyped ==
  ASSUME TypeOK, NEW j \in Jobs, Requested(j) PROVE TypeOK'
<1>1. ASSUME NEW kind \in {"backup", "restore", "delete"}, NEW id \in Ids \cup {NoId},
             NEW pc \in {"lock", "srvlock"}, Asks(j, kind, id, pc)
      PROVE  TypeOK'
  <2>1. [Resting EXCEPT !.kind = kind, !.id = id, !.pc = pc] \in Job
    BY DEF Job, Resting, PCs, Copies, Nothing
  <2>2. job' \in [Jobs -> Job]
    BY <1>1, <2>1, JobsTyped DEF Asks
  <2>3. count' \in Counts
    BY <1>1, CountsTyped DEF Asks
  <2> QED
    BY <1>1, <2>2, <2>3 DEF Asks, TypeOK, Folder, Game, Locks
<1> QED
  BY <1>1 DEF Requested, AsksBackup, AsksRestore, AsksDelete

\* What the file system refuses.
LEMMA TroubleTyped ==
  ASSUME TypeOK, NEW j \in Jobs, TakeFails(j) \/ \E f \in Files : Skips(j, f)
  PROVE  TypeOK'
<1>1. CASE TakeFails(j)
  <2>1. job' \in [Jobs -> Job] /\ count' \in Counts
    BY <1>1, JobsTyped, CountsTyped DEF TakeFails, Goes, PCs
  <2> QED
    BY <1>1, <2>1 DEF TakeFails, TypeOK, Folder, Game, Locks
<1>2. CASE \E f \in Files : Skips(j, f)
  <2>1. PICK f \in Files : Skips(j, f)
    BY <1>2
  <2> DEFINE r == [job[j] EXCEPT !.left = @ \ {f}, !.calm = FALSE]
  <2>2. r \in Job
    BY JobsTyped DEF Job
  <2>3. job' \in [Jobs -> Job]
    <3>1. job' = [job EXCEPT ![j] = r]
      BY <2>1 DEF Skips, TypeOK
    <3> HIDE DEF r
    <3> QED
      BY <2>2, <3>1, JobsTyped
  <2>4. count' \in Counts
    BY <2>1, CountsTyped DEF Skips
  <2> QED
    BY <2>1, <2>3, <2>4 DEF Skips, TypeOK, Folder, Game, Locks
<1> QED
  BY <1>1, <1>2

\* One job moves: it is enough to look at what it has become.
LEMMA MoverTyped ==
  ASSUME TypeOK, Named, NEW j \in Jobs, NEW r \in Job, job' = [job EXCEPT ![j] = r],
         r.pc \in {"walk", "index"} => r.new \in Ids,
         r.kind = "delete" => r.id \in Ids
  PROVE  job' \in [Jobs -> Job] /\ Named'
<1>1. job' \in [Jobs -> Job]
  BY DEF TypeOK
<1>2. \A k \in Jobs : job'[k] = IF k = j THEN r ELSE job[k]
  BY DEF TypeOK
<1> QED
  BY <1>1, <1>2 DEF Named

\* It goes on to something that is not a copy.
LEMMA JobStepTyped ==
  ASSUME TypeOK, Named, NEW j \in Jobs, NEW r \in Job, job' = [job EXCEPT ![j] = r],
         r.pc \notin {"walk", "index"}, r.kind = job[j].kind, r.id = job[j].id
  PROVE  job' \in [Jobs -> Job] /\ Named'
<1>1. job[j].kind = "delete" => job[j].id \in Ids
  BY DEF Named
<1> QED
  BY <1>1, MoverTyped

\* The jobs that wait, fail or end.
LEMMA WaiterTyped ==
  ASSUME TypeOK, Named, NEW j \in Jobs,
         \/ LocksServer(j) \/ LocksForBackup(j) \/ LocksForRestore(j) \/ LocksForDelete(j)
         \/ Unlists(j) \/ Collects(j) \/ Stops(j) \/ RestoreRefused(j) \/ Finishes(j)
  PROVE  TypeOK' /\ Named'
<1> DEFINE J == job[j]
<1>1. J \in Job /\ Resting \in Job /\ (J.kind = "delete" => J.id \in Ids)
  BY JobsTyped DEF Named
<1>2. ASSUME NEW pc \in PCs \ {"walk", "index"}, Goes(j, pc)
      PROVE  job' \in [Jobs -> Job] /\ Named'
  <2> DEFINE r == [J EXCEPT !.pc = pc]
  <2>1. r \in Job /\ r.pc = pc /\ r.kind = J.kind /\ r.id = J.id
    BY <1>1 DEF Job
  <2>2. job' = [job EXCEPT ![j] = r]
    BY <1>2 DEF Goes
  <2> HIDE DEF r
  <2> QED
    BY <1>2, <2>1, <2>2, JobStepTyped
<1>3. CASE LocksServer(j) \/ RestoreRefused(j)
  <2>1. job' \in [Jobs -> Job] /\ Named'
    BY <1>2, <1>3 DEF LocksServer, RestoreRefused, PCs
  <2> QED
    BY <1>3, <2>1 DEF LocksServer, RestoreRefused, TypeOK, Folder, Game, Locks
<1>4. CASE Unlists(j)
  <2>1. job' \in [Jobs -> Job] /\ Named'
    BY <1>2, <1>4 DEF Unlists, PCs
  <2>2. disk' \in [objects : SUBSET Contents, manifests : Manifests, index : SUBSET Ids]
    BY <1>4 DEF Unlists, TypeOK
  <2> QED
    BY <1>4, <2>1, <2>2 DEF Unlists, TypeOK, Folder, Game, Locks
<1>5. CASE Collects(j)
  <2>1. job' \in [Jobs -> Job] /\ Named'
    BY <1>2, <1>5 DEF Collects, PCs, TypeOK, Named
  <2>2. disk' \in [objects : SUBSET Contents, manifests : Manifests, index : SUBSET Ids]
    BY <1>5 DEF Collects, TypeOK
  <2> QED
    BY <1>5, <2>1, <2>2 DEF Collects, TypeOK, Folder, Game, Locks
<1>6. CASE Stops(j)
  <2>1. job' \in [Jobs -> Job] /\ Named'
    BY <1>2, <1>6 DEF Stops, PCs, TypeOK, Named
  <2> QED
    BY <1>6, <2>1 DEF Stops, TypeOK, Folder, Game, Locks
<1>7. CASE Finishes(j)
  <2>1. job' \in [Jobs -> Job] /\ Named'
    BY <1>1, <1>7, MoverTyped DEF Finishes, Resting
  <2> QED
    BY <1>7, <2>1 DEF Finishes, TypeOK, Folder
<1>8. CASE LocksForBackup(j)
  <2> DEFINE r == [J EXCEPT !.pc = "flush", !.off = (server = "running")]
  <2>1. r \in Job /\ r.pc = "flush" /\ r.kind = J.kind /\ r.id = J.id
    BY <1>1 DEF Job, PCs
  <2>2. job' = [job EXCEPT ![j] = r]
    BY <1>8 DEF LocksForBackup
  <2>3. job' \in [Jobs -> Job] /\ Named'
    <3> HIDE DEF r
    <3> QED
      BY <2>1, <2>2, JobStepTyped
  <2> QED
    BY <1>8, <2>3 DEF LocksForBackup, TypeOK, Folder
<1>9. CASE LocksForRestore(j)
  <2> DEFINE r == [J EXCEPT !.pc = "stop", !.was = (server # "down")]
  <2>1. r \in Job /\ r.pc = "stop" /\ r.kind = J.kind /\ r.id = J.id
    BY <1>1 DEF Job, PCs
  <2>2. job' = [job EXCEPT ![j] = r]
    BY <1>9 DEF LocksForRestore
  <2>3. job' \in [Jobs -> Job] /\ Named'
    <3> HIDE DEF r
    <3> QED
      BY <2>1, <2>2, JobStepTyped
  <2> QED
    BY <1>9, <2>3 DEF LocksForRestore, TypeOK, Folder, Game
<1>10. CASE LocksForDelete(j)
  <2> DEFINE pc == IF HasManifest(J.id) THEN "unlink" ELSE "failed"
             r  == [J EXCEPT !.gone = {J.id}, !.pc = pc]
  <2>1. r \in Job /\ r.pc = pc /\ r.kind = J.kind /\ r.id = J.id
    BY <1>1, <1>10 DEF Job, PCs, LocksForDelete
  <2>2. job' = [job EXCEPT ![j] = r]
    BY <1>10 DEF LocksForDelete
  <2>3. job' \in [Jobs -> Job] /\ Named'
    <3>1. pc \notin {"walk", "index"}
      OBVIOUS
    <3> HIDE DEF r, pc
    <3> QED
      BY <2>1, <2>2, <3>1, JobStepTyped
  <2> QED
    BY <1>10, <2>3 DEF LocksForDelete, TypeOK, Folder, Game
<1> QED
  BY <1>3, <1>4, <1>5, <1>6, <1>7, <1>8, <1>9, <1>10

\* One file is copied: something is read, or carried over, and stored.
LEMMA OneCopied ==
  ASSUME TypeOK, NEW j \in Jobs, NEW f \in Files, CopiesOne(j, f)
  PROVE  \E copied \in Contents \cup {Gone} :
           /\ job' = [job EXCEPT ![j] = [job[j] EXCEPT !.left = job[j].left \ {f}, !.copy[f] = copied]]
           /\ disk' = [disk EXCEPT !.objects = @ \cup ({copied} \ {Gone})]
<1> DEFINE copied == IF world[f] # Gone /\ Reusable(f)
                        THEN disk.manifests[Newest][f] ELSE world[f]
<1>1. copied \in Contents \cup {Gone}
  BY DEF TypeOK, Reusable, Copies
<1>2. /\ job' = [job EXCEPT ![j].left = @ \ {f}, ![j].copy[f] = copied]
      /\ disk' = [disk EXCEPT !.objects = @ \cup ({copied} \ {Gone})]
  BY DEF CopiesOne
<1> HIDE DEF copied
<1>3. [job EXCEPT ![j].left = @ \ {f}, ![j].copy[f] = copied]
        = [job EXCEPT ![j] = [job[j] EXCEPT !.left = job[j].left \ {f}, !.copy[f] = copied]]
  BY ZenonT(40) DEF TypeOK
<1> QED
  BY <1>1, <1>2, <1>3

\* The copy of the files, one after the other.
LEMMA CopierTyped ==
  ASSUME TypeOK, Named, NEW j \in Jobs,
         BeginsCopy(j) \/ WritesManifest(j) \/ \E f \in Files : CopiesOne(j, f) \/ Skips(j, f)
  PROVE  TypeOK' /\ Named'
<1> DEFINE J == job[j]
<1>1. /\ J \in Job /\ disk.objects \subseteq Contents /\ disk.index \subseteq Ids
      /\ disk.manifests \in Manifests /\ world \in Copies
      /\ J.pc \in {"walk", "index"} => J.new \in Ids
      /\ J.kind = "delete" => J.id \in Ids
  BY JobsTyped DEF TypeOK, Named
<1>2. CASE BeginsCopy(j)
  <2> DEFINE calm == (server = "down" \/ saving = "off")
             r == [J EXCEPT !.pc = "walk", !.new = count.taken + 1, !.left = Files,
                            !.copy = Nothing, !.asOf = world, !.calm = calm]
  <2>1. count.taken + 1 \in Ids /\ Nothing \in Copies /\ calm \in BOOLEAN
    BY <1>2, LimitsAssumption DEF BeginsCopy, TypeOK, Counts, Ids, Nothing, Copies
  <2>2. job' = [job EXCEPT ![j] = r]
    BY <1>2 DEF BeginsCopy
  <2>3. r \in Job /\ r.new \in Ids /\ r.kind = J.kind /\ r.id = J.id
    <3> HIDE DEF calm
    <3> QED
      BY <1>1, <2>1 DEF Job, PCs
  <2>4. job' \in [Jobs -> Job] /\ Named'
    <3> HIDE DEF r
    <3> QED
      BY <1>1, <2>2, <2>3, MoverTyped
  <2>5. count' \in Counts
    BY <1>2, CountsTyped DEF BeginsCopy
  <2> QED
    BY <1>2, <2>4, <2>5 DEF BeginsCopy, TypeOK, Folder, Game, Locks
<1>3. CASE WritesManifest(j)
  <2> DEFINE D == DOMAIN disk.manifests \cup {J.new}
             m == [i \in D |-> IF i = J.new THEN J.copy ELSE disk.manifests[i]]
             r == [J EXCEPT !.pc = "index"]
  <2>1. J.new \in Ids /\ disk' = [disk EXCEPT !.manifests = m] /\ job' = [job EXCEPT ![j] = r]
    BY <1>1, <1>3 DEF WritesManifest, At, Goes
  <2>2. m \in Manifests
    <3>1. D \in SUBSET Ids /\ m \in [D -> Copies]
      BY <1>1, <2>1, ManifestsTyped DEF Job
    <3> QED
      BY <3>1, ManifestsTyped
  <2>3. r \in Job /\ r.new = J.new /\ r.kind = J.kind /\ r.id = J.id
    BY <1>1 DEF Job, PCs
  <2>4. job' \in [Jobs -> Job] /\ Named'
    <3> HIDE DEF r
    <3> QED
      BY <1>1, <2>1, <2>3, MoverTyped
  <2> QED
    <3> HIDE DEF m
    <3> QED
      BY <1>3, <2>1, <2>2, <2>4 DEF WritesManifest, TypeOK, Folder, Game, Locks
<1>4. ASSUME NEW f \in Files, CopiesOne(j, f)
      PROVE  TypeOK' /\ Named'
  <2>1. PICK copied \in Contents \cup {Gone} :
          /\ job' = [job EXCEPT ![j] = [job[j] EXCEPT !.left = job[j].left \ {f}, !.copy[f] = copied]]
          /\ disk' = [disk EXCEPT !.objects = @ \cup ({copied} \ {Gone})]
    BY <1>4, OneCopied
  <2> DEFINE r == [J EXCEPT !.left = J.left \ {f}, !.copy[f] = copied]
  <2>2. job' = [job EXCEPT ![j] = r]
    BY <2>1
  <2>3. r \in Job /\ r.new = J.new /\ r.pc = J.pc /\ r.kind = J.kind /\ r.id = J.id
    BY <1>1, <2>1 DEF Job, Copies
  <2>4. job' \in [Jobs -> Job] /\ Named'
    <3> HIDE DEF r
    <3> QED
      BY <1>1, <2>2, <2>3, MoverTyped
  <2>5. readBy' \in [Files -> SUBSET Ids]
    BY <1>1, <1>4 DEF CopiesOne, TypeOK, At
  <2>6. disk' \in [objects : SUBSET Contents, manifests : Manifests, index : SUBSET Ids]
    BY <2>1 DEF TypeOK
  <2> HIDE DEF r
  <2> QED
    BY <1>4, <2>4, <2>5, <2>6 DEF CopiesOne, TypeOK, Game, Locks
<1>5. ASSUME NEW f \in Files, Skips(j, f)
      PROVE  TypeOK' /\ Named'
  <2> DEFINE r == [J EXCEPT !.left = @ \ {f}, !.calm = FALSE]
  <2>1. r \in Job /\ r.new = J.new /\ r.pc = J.pc /\ r.kind = J.kind /\ r.id = J.id
    BY <1>1 DEF Job
  <2>2. job' = [job EXCEPT ![j] = r]
    BY <1>5 DEF Skips
  <2> HIDE DEF r
  <2> QED
    BY <1>1, <1>5, <2>1, <2>2, MoverTyped, TroubleTyped
<1> QED
  BY <1>2, <1>3, <1>4, <1>5

\* What is written at the end of a copy, removed, and written back.
LEMMA WriterTyped ==
  ASSUME TypeOK, Named, NEW j \in Jobs,
         \/ WritesIndex(j) \/ Wipes(j) \/ (\E f \in Files : WritesBack(j, f))
         \/ \E i \in Ids : Unlinks(j, i)
  PROVE  TypeOK' /\ Named'
<1> DEFINE J == job[j]
<1>1. /\ J \in Job /\ disk.objects \subseteq Contents /\ disk.index \subseteq Ids
      /\ disk.manifests \in Manifests /\ world \in Copies
      /\ J.pc \in {"walk", "index"} => J.new \in Ids
      /\ Nothing \in Copies
  BY JobsTyped DEF TypeOK, Named, Nothing, Copies
<1>2. CASE WritesIndex(j)
  <2> DEFINE pc == CASE J.kind = "restore" -> "check"
                     [] J.kind # "restore" /\ Surplus(j) = {} -> "done"
                     [] OTHER -> "unlink"
             r  == [J EXCEPT !.gone = Surplus(j), !.copy = Nothing, !.asOf = Nothing, !.pc = pc]
  <2>1. Surplus(j) \in SUBSET Ids /\ disk.index \cup {J.new} \in SUBSET Ids
    BY <1>1, <1>2 DEF WritesIndex, At, Surplus
  <2>2. pc \in PCs \ {"walk", "index"}
    BY DEF PCs
  <2>3. job' = [job EXCEPT ![j] = r] /\ disk' = [disk EXCEPT !.index = @ \cup {J.new}]
    BY <1>2 DEF WritesIndex
  <2> HIDE DEF pc
  <2>4. r \in Job /\ r.pc = pc /\ r.kind = J.kind /\ r.id = J.id
    BY <1>1, <2>1, <2>2 DEF Job
  <2>5. job' \in [Jobs -> Job] /\ Named'
    <3> HIDE DEF r
    <3> QED
      BY <2>2, <2>3, <2>4, JobStepTyped
  <2> QED
    BY <1>2, <2>1, <2>3, <2>5 DEF WritesIndex, TypeOK, Folder, Game, Locks
<1>3. CASE Wipes(j)
  <2> DEFINE copy == disk.manifests[J.id]
             r == [J EXCEPT !.pc = "write", !.left = Files, !.copy = copy]
  <2>1. copy \in Copies
    BY <1>1, <1>3, ManifestsTyped DEF Wipes, Readable, HasManifest
  <2>2. job' = [job EXCEPT ![j] = r]
    BY <1>3 DEF Wipes
  <2> HIDE DEF copy
  <2>3. r \in Job /\ r.pc = "write" /\ r.kind = J.kind /\ r.id = J.id
    BY <1>1, <2>1 DEF Job, PCs
  <2>4. job' \in [Jobs -> Job] /\ Named'
    <3> HIDE DEF r
    <3> QED
      BY <2>2, <2>3, JobStepTyped
  <2>5. net' \in [id : Ids \cup {NoId}, was : Copies]
    BY <1>1, <1>3 DEF Wipes, NoNet, Job
  <2> QED
    BY <1>1, <1>3, <2>4, <2>5 DEF Wipes, TypeOK, Game, Locks
<1>4. ASSUME NEW f \in Files, WritesBack(j, f)
      PROVE  TypeOK' /\ Named'
  <2> DEFINE pc == IF J.left = {f} THEN "done" ELSE J.pc
             r  == [J EXCEPT !.left = @ \ {f}, !.pc = pc]
  <2>1. pc \in PCs \ {"walk", "index"} /\ J.pc = "write"
    BY <1>4 DEF WritesBack, At, PCs
  <2>2. job' = [job EXCEPT ![j] = r]
    BY <1>4 DEF WritesBack
  <2> HIDE DEF pc
  <2>3. r \in Job /\ r.pc = pc /\ r.kind = J.kind /\ r.id = J.id
    BY <1>1, <2>1 DEF Job
  <2>4. job' \in [Jobs -> Job] /\ Named'
    <3> HIDE DEF r
    <3> QED
      BY <2>1, <2>2, <2>3, JobStepTyped
  <2>5. world' \in Copies
    BY <1>1, <1>4 DEF WritesBack, Copies, Job
  <2> QED
    BY <1>4, <2>4, <2>5 DEF WritesBack, TypeOK, Game, Locks
<1>5. ASSUME NEW i \in Ids, Unlinks(j, i)
      PROVE  TypeOK' /\ Named'
  <2> DEFINE D == DOMAIN disk.manifests \ {i}
             m == [x \in D |-> disk.manifests[x]]
  <2>1. D \in SUBSET Ids /\ m \in [D -> Copies]
    BY <1>1, ManifestsTyped
  <2>2. m \in Manifests
    BY <2>1, ManifestsTyped
  <2>3. disk' = [disk EXCEPT !.manifests = m] /\ UNCHANGED job
    BY <1>5 DEF Unlinks
  <2>4. net' \in [id : Ids \cup {NoId}, was : Copies]
    BY <1>1, <1>5 DEF Unlinks, NoNet, TypeOK
  <2> HIDE DEF m
  <2> QED
    BY <1>5, <2>2, <2>3, <2>4 DEF Unlinks, TypeOK, Named, Folder, Game, Locks
<1> QED
  BY <1>2, <1>3, <1>4, <1>5

TypeInv == TypeOK /\ Named

\* Initially.
LEMMA InitTyped == Init => TypeInv
<1> SUFFICES ASSUME Init PROVE TypeInv
  OBVIOUS
<1>1. Resting \in Job /\ Nothing \in Copies
  BY DEF Resting, Job, PCs, Copies, Nothing
<1>2. disk.manifests \in Manifests
  <2>1. {} \in SUBSET Ids /\ disk.manifests \in [{} -> Copies]
    BY DEF Init
  <2> QED
    BY <2>1, ManifestsTyped
<1>3. world \in Copies
  BY ContentsAssumption DEF Init, Copies
<1>4. count \in Counts
  BY LimitsAssumption DEF Init, Counts
<1> QED
  BY <1>1, <1>2, <1>3, <1>4 DEF Init, TypeInv, TypeOK, Named, NoNet, Resting

\* No step gives a variable a value of another type.
LEMMA StepTyped == TypeInv /\ [Next]_vars => TypeInv'
<1> SUFFICES ASSUME TypeInv, [Next]_vars PROVE TypeInv'
  OBVIOUS
<1> USE DEF TypeInv
<1>1. CASE ServerMoves
  <2>1. \A k \in Jobs : /\ job'[k].pc = job[k].pc /\ job'[k].new = job[k].new
                        /\ job'[k].kind = job[k].kind /\ job'[k].id = job[k].id
    BY <1>1, JobsTyped DEF ServerMoves, ServerStarts, ServerBoots, ServerEnds, GameFlushed,
                           GameWrites, TypeOK, Job
  <2> QED
    BY <1>1, <2>1, ServerTyped DEF Named
<1>2. CASE AgentDies
  BY <1>2, DeathTyped DEF AgentDies, Named, Resting
<1>3. ASSUME NEW j \in Jobs, Requested(j)
      PROVE  TypeInv'
  <2>1. TypeOK'
    BY <1>3, RequestTyped
  <2>2. \E r \in Job : /\ job' = [job EXCEPT ![j] = r] /\ r.pc \notin {"walk", "index"}
                       /\ r.kind = "delete" => r.id \in Ids
    <3>1. ASSUME NEW kind \in {"backup", "restore", "delete"}, NEW id \in Ids \cup {NoId},
                 NEW pc \in {"lock", "srvlock"}, Asks(j, kind, id, pc), kind = "delete" => id \in Ids
          PROVE  \E r \in Job : /\ job' = [job EXCEPT ![j] = r] /\ r.pc \notin {"walk", "index"}
                                /\ r.kind = "delete" => r.id \in Ids
      <4> DEFINE r == [Resting EXCEPT !.kind = kind, !.id = id, !.pc = pc]
      <4>1. r \in Job /\ r.pc = pc /\ r.kind = kind /\ r.id = id
        BY DEF Job, Resting, PCs, Copies, Nothing
      <4>2. job' = [job EXCEPT ![j] = r]
        BY <3>1 DEF Asks
      <4> HIDE DEF r
      <4> QED
        BY <3>1, <4>1, <4>2
    <3> QED
      BY <1>3, <3>1 DEF Requested, AsksBackup, AsksRestore, AsksDelete
  <2> QED
    BY <2>1, <2>2, MoverTyped
<1>4. ASSUME NEW j \in Jobs, TakeFails(j)
      PROVE  TypeInv'
  <2>1. TypeOK'
    BY <1>4, TroubleTyped
  <2>2. PICK r \in Job : job' = [job EXCEPT ![j] = r] /\ r.pc = "failed"
                         /\ r.kind = job[j].kind /\ r.id = job[j].id
    <3> DEFINE r == [job[j] EXCEPT !.pc = "failed"]
    <3>1. job[j] \in Job
      BY JobsTyped
    <3>2. r \in Job /\ r.pc = "failed" /\ r.kind = job[j].kind /\ r.id = job[j].id
      BY <3>1 DEF Job, PCs
    <3>3. job' = [job EXCEPT ![j] = r]
      BY <1>4 DEF TakeFails, Goes
    <3> HIDE DEF r
    <3> QED
      BY <3>2, <3>3
  <2> QED
    BY <2>1, <2>2, JobStepTyped
<1>5. ASSUME NEW j \in Jobs, JobMoves(j) \/ \E f \in Files : Skips(j, f)
      PROVE  TypeInv'
  BY <1>5, WaiterTyped, CopierTyped, WriterTyped DEF JobMoves
<1>6. CASE UNCHANGED vars
  BY <1>6 DEF vars, TypeOK, Named
<1> QED
  BY <1>1, <1>2, <1>3, <1>4, <1>5, <1>6 DEF Next

\* Every variable keeps its type, whatever jobs, games and deaths there are.
THEOREM BackupTypeCorrect == Spec => []TypeOK
<1>1. Spec => []TypeInv
  BY InitTyped, StepTyped, PTL DEF Spec
<1>2. TypeInv => TypeOK
  BY DEF TypeInv
<1> QED
  BY <1>1, <1>2, PTL

-----------------------------------------------------------------------------
(* One job at a time works on the store.                                   *)

\* What the jobs are at, when nobody begins to work.
LEMMA StillLocked ==
  ASSUME Locked, UNCHANGED backupLock,
         \A k \in Jobs : job'[k].pc \in Working => job[k].pc \in Working
  PROVE  Locked'
BY DEF Locked

\* One job moves on.
LEMMA MoverLocked ==
  ASSUME TypeOK, Locked, NEW j \in Jobs, NEW r, job' = [job EXCEPT ![j] = r],
         \/ UNCHANGED backupLock /\ (r.pc \in Working => job[j].pc \in Working)
         \/ backupLock = NoJob /\ backupLock' = j
         \/ r.pc \notin Working /\ backupLock' = IF backupLock = j THEN NoJob ELSE backupLock
  PROVE  Locked'
<1>1. \A k \in Jobs : job'[k] = IF k = j THEN r ELSE job[k]
  BY DEF TypeOK
<1> QED
  BY <1>1, JobsAssumption DEF Locked

\* Whoever works on the store works alone.
LEMMA Alone ==
  ASSUME Locked, NEW j \in Jobs, job[j].pc \in Working
  PROVE  \A k \in Jobs \ {j} : job[k].pc \notin {"walk", "index"}
BY DEF Locked, Working

\* The game and the agent do not begin to work on the store.
LEMMA GameLocked ==
  ASSUME TypeOK, Locked, ServerMoves \/ AgentDies PROVE Locked'
<1>1. CASE ServerMoves
  <2>1. \A k \in Jobs : job'[k].pc = job[k].pc
    BY <1>1, JobsTyped DEF ServerMoves, ServerStarts, ServerBoots, ServerEnds, GameFlushed,
                           GameWrites, TypeOK, Job
  <2>2. UNCHANGED backupLock
    BY <1>1 DEF ServerMoves, ServerStarts, ServerBoots, ServerEnds, GameFlushed, GameWrites, Locks
  <2> QED
    BY <2>1, <2>2, StillLocked
<1>2. CASE AgentDies
  BY <1>2 DEF AgentDies, Locked, Resting, Working
<1> QED
  BY <1>1, <1>2

\* Nor does a job without the lock.
LEMMA JobLocked ==
  ASSUME TypeOK, Locked, NEW j \in Jobs,
         Requested(j) \/ JobMoves(j) \/ TakeFails(j) \/ \E f \in Files : Skips(j, f)
  PROVE  Locked'
<1>1. job[j] \in Job
  BY JobsTyped
<1>2. CASE Requested(j) \/ LocksServer(j) \/ RestoreRefused(j) \/ TakeFails(j)
  <2>1. PICK r : job' = [job EXCEPT ![j] = r] /\ r.pc \notin Working /\ UNCHANGED backupLock
    BY ZenonT(40), <1>1, <1>2 DEF Requested, AsksBackup, AsksRestore, AsksDelete, Asks, LocksServer,
       RestoreRefused, TakeFails, Goes, Working, Resting, Job, Locks
  <2> QED
    BY <2>1, MoverLocked
<1>3. CASE LocksForBackup(j) \/ LocksForRestore(j) \/ LocksForDelete(j)
  <2>1. \E r : job' = [job EXCEPT ![j] = r] /\ backupLock = NoJob /\ backupLock' = j
    BY <1>3 DEF LocksForBackup, LocksForRestore, LocksForDelete
  <2> QED
    BY <2>1, MoverLocked
<1>4. CASE Finishes(j)
  BY <1>4, MoverLocked DEF Finishes, Resting, Working
<1>5. CASE \/ BeginsCopy(j) \/ WritesManifest(j) \/ WritesIndex(j) \/ Unlists(j) \/ Collects(j)
           \/ Stops(j) \/ Wipes(j) \/ (\E i \in Ids : Unlinks(j, i))
           \/ \E f \in Files : CopiesOne(j, f) \/ WritesBack(j, f) \/ Skips(j, f)
  <2>1. job[j].pc \in Working
    BY <1>5 DEF BeginsCopy, WritesManifest, WritesIndex, Unlists, Collects, Stops, Wipes, Unlinks,
       CopiesOne, WritesBack, Skips, At, Working
  <2>2. UNCHANGED backupLock
    BY <1>5 DEF BeginsCopy, WritesManifest, WritesIndex, Unlists, Collects, Stops, Wipes, Unlinks,
       CopiesOne, WritesBack, Skips, Locks
  <2>3. \A k \in Jobs \ {j} : job'[k] = job[k]
    BY <1>5 DEF BeginsCopy, WritesManifest, WritesIndex, Unlists, Collects, Stops, Wipes, Unlinks,
       CopiesOne, WritesBack, Skips, Goes, TypeOK
  <2> QED
    BY <2>1, <2>2, <2>3, StillLocked
<1> QED
  BY <1>2, <1>3, <1>4, <1>5 DEF JobMoves

-----------------------------------------------------------------------------
(* What is listed stays whole.                                             *)

Store == Numbered /\ Whole /\ Copying

\* The store and the copies stay as they are.
LEMMA StoreStays ==
  ASSUME Store, UNCHANGED disk, count'.taken = count.taken,
         \A k \in Jobs : job'[k].pc \in {"walk", "index"} =>
           job'[k].pc = job[k].pc /\ job'[k].new = job[k].new /\ job'[k].copy = job[k].copy
  PROVE  Store'
BY DEF Store, Numbered, Whole, Copying, At, HasManifest, Listed, Readable

\* One job moves, and neither begins nor changes a copy.
LEMMA MoverKeepsStore ==
  ASSUME TypeOK, Store, UNCHANGED disk, count'.taken = count.taken,
         NEW j \in Jobs, NEW r, job' = [job EXCEPT ![j] = r],
         \/ r.pc \notin {"walk", "index"}
         \/ r.pc = job[j].pc /\ r.new = job[j].new /\ r.copy = job[j].copy
  PROVE  Store'
<1>1. \A k \in Jobs : job'[k] = IF k = j THEN r ELSE job[k]
  BY DEF TypeOK
<1> QED
  BY <1>1, StoreStays

\* What the game does, and the death of the agent.
LEMMA GameKeepsStore ==
  ASSUME TypeOK, Store, ServerMoves \/ AgentDies PROVE Store' /\ UNCHANGED disk
<1>1. UNCHANGED disk
  BY DEF ServerMoves, ServerStarts, ServerBoots, ServerEnds, GameFlushed, GameWrites, AgentDies
<1>2. count'.taken = count.taken
  <2>1. CASE ServerMoves
    BY <2>1 DEF ServerMoves, ServerStarts, ServerBoots, ServerEnds, GameFlushed, GameWrites,
                TypeOK, Counts
  <2>2. CASE AgentDies
    BY <2>2 DEF AgentDies, Trouble, TypeOK, Counts
  <2> QED
    BY <2>1, <2>2
<1>3. \A k \in Jobs : job'[k].pc \in {"walk", "index"} =>
        job'[k].pc = job[k].pc /\ job'[k].new = job[k].new /\ job'[k].copy = job[k].copy
  <2>1. CASE ServerMoves
    BY <2>1, JobsTyped DEF ServerMoves, ServerStarts, ServerBoots, ServerEnds, GameFlushed,
                           GameWrites, TypeOK, Job
  <2>2. CASE AgentDies
    BY <2>2 DEF AgentDies, Resting
  <2> QED
    BY <2>1, <2>2
<1> QED
  BY <1>1, <1>2, <1>3, StoreStays

\* What jobs do elsewhere.
LEMMA OthersKeepStore ==
  ASSUME TypeOK, Store, NEW j \in Jobs,
         \/ Requested(j) \/ TakeFails(j) \/ (\E f \in Files : Skips(j, f) \/ WritesBack(j, f))
         \/ LocksServer(j) \/ LocksForBackup(j) \/ LocksForRestore(j) \/ LocksForDelete(j)
         \/ Stops(j) \/ Wipes(j) \/ RestoreRefused(j) \/ Finishes(j)
  PROVE  Store' /\ UNCHANGED disk
<1>1. job[j] \in Job
  BY JobsTyped
<1>2. CASE Requested(j)
  <2>1. PICK kind \in {"backup", "restore", "delete"}, id \in Ids \cup {NoId},
             pc \in {"lock", "srvlock"} : Asks(j, kind, id, pc)
    BY <1>2 DEF Requested, AsksBackup, AsksRestore, AsksDelete
  <2> DEFINE r == [Resting EXCEPT !.kind = kind, !.id = id, !.pc = pc]
  <2>2. r.pc = pc /\ job' = [job EXCEPT ![j] = r] /\ UNCHANGED disk
    BY <2>1 DEF Asks, Resting
  <2>3. count'.taken = count.taken
    BY <2>1 DEF Asks, TypeOK, Counts
  <2> HIDE DEF r
  <2> QED
    BY <2>2, <2>3, MoverKeepsStore
<1>3. CASE TakeFails(j) \/ LocksServer(j) \/ RestoreRefused(j)
  <2>1. PICK pc \in {"failed", "lock"} : Goes(j, pc)
    BY <1>3 DEF TakeFails, LocksServer, RestoreRefused
  <2> DEFINE r == [job[j] EXCEPT !.pc = pc]
  <2>2. r.pc = pc /\ job' = [job EXCEPT ![j] = r] /\ UNCHANGED disk
    BY <1>1, <1>3, <2>1 DEF TakeFails, LocksServer, RestoreRefused, Goes, Job
  <2>3. count'.taken = count.taken
    BY <1>3 DEF TakeFails, LocksServer, RestoreRefused, Trouble, TypeOK, Counts
  <2> HIDE DEF r
  <2> QED
    BY <2>2, <2>3, MoverKeepsStore
<1>4. CASE Stops(j)
  <2>1. PICK r : /\ job' = [job EXCEPT ![j] = r] /\ r.pc \in {"stop", "failed"}
                 /\ UNCHANGED <<disk, count>>
    <3> DEFINE r == [job[j] EXCEPT !.pc = "failed"]
    <3>1. CASE Goes(j, "failed")
      <4>1. r.pc = "failed" /\ job' = [job EXCEPT ![j] = r]
        BY <1>1, <3>1 DEF Goes, Job
      <4> QED
        BY <1>4, <4>1 DEF Stops
    <3>2. CASE UNCHANGED job
      <4>1. job' = [job EXCEPT ![j] = job[j]]
        BY <3>2 DEF TypeOK
      <4> QED
        BY <1>4, <4>1 DEF Stops, At
    <3> QED
      BY <1>4, <3>1, <3>2 DEF Stops
  <2> QED
    BY <2>1, MoverKeepsStore
<1>5. CASE LocksForBackup(j) \/ LocksForRestore(j) \/ Wipes(j)
  <2>1. PICK r : /\ job' = [job EXCEPT ![j] = r] /\ r.pc \in {"flush", "stop", "write"}
                 /\ UNCHANGED <<disk, count.taken>>
    <3>1. CASE LocksForBackup(j)
      <4> DEFINE r == [job[j] EXCEPT !.pc = "flush", !.off = (server = "running")]
      <4>1. r.pc = "flush"
        BY <1>1 DEF Job
      <4> QED
        BY <3>1, <4>1 DEF LocksForBackup
    <3>2. CASE LocksForRestore(j)
      <4> DEFINE r == [job[j] EXCEPT !.pc = "stop", !.was = (server # "down")]
      <4>1. r.pc = "stop"
        BY <1>1 DEF Job
      <4> QED
        BY <3>2, <4>1 DEF LocksForRestore
    <3>3. CASE Wipes(j)
      <4> DEFINE r == [job[j] EXCEPT !.pc = "write", !.left = Files,
                                     !.copy = disk.manifests[job[j].id]]
      <4>1. r.pc = "write"
        BY <1>1 DEF Job
      <4> QED
        BY <3>3, <4>1 DEF Wipes
    <3> QED
      BY <1>5, <3>1, <3>2, <3>3
  <2> QED
    BY <2>1, MoverKeepsStore
<1>6. CASE LocksForDelete(j)
  <2> DEFINE pc == IF HasManifest(job[j].id) THEN "unlink" ELSE "failed"
             r  == [job[j] EXCEPT !.gone = {job[j].id}, !.pc = pc]
  <2>1. r.pc = pc /\ pc \notin {"walk", "index"}
    BY <1>1 DEF Job
  <2>2. job' = [job EXCEPT ![j] = r] /\ UNCHANGED <<disk, count>>
    BY <1>6 DEF LocksForDelete
  <2> HIDE DEF r, pc
  <2> QED
    BY <2>1, <2>2, MoverKeepsStore
<1>7. CASE Finishes(j)
  BY <1>7, MoverKeepsStore DEF Finishes, Resting
<1>8. ASSUME NEW f \in Files, Skips(j, f)
      PROVE  Store' /\ UNCHANGED disk
  <2> DEFINE r == [job[j] EXCEPT !.left = @ \ {f}, !.calm = FALSE]
  <2>1. r.pc = job[j].pc /\ r.new = job[j].new /\ r.copy = job[j].copy
    BY <1>1 DEF Job
  <2>2. job' = [job EXCEPT ![j] = r] /\ UNCHANGED disk
    BY <1>8 DEF Skips
  <2>3. count'.taken = count.taken
    BY <1>8 DEF Skips, Trouble, TypeOK, Counts
  <2> HIDE DEF r
  <2> QED
    BY <2>1, <2>2, <2>3, MoverKeepsStore
<1>9. ASSUME NEW f \in Files, WritesBack(j, f)
      PROVE  Store' /\ UNCHANGED disk
  <2> DEFINE pc == IF job[j].left = {f} THEN "done" ELSE job[j].pc
             r  == [job[j] EXCEPT !.left = @ \ {f}, !.pc = pc]
  <2>1. r.pc = pc /\ pc \notin {"walk", "index"}
    BY <1>1, <1>9 DEF Job, WritesBack, At
  <2>2. job' = [job EXCEPT ![j] = r] /\ UNCHANGED <<disk, count>>
    BY <1>9 DEF WritesBack
  <2> HIDE DEF r, pc
  <2> QED
    BY <2>1, <2>2, MoverKeepsStore
<1> QED
  BY <1>2, <1>3, <1>4, <1>5, <1>6, <1>7, <1>8, <1>9

\* What a reader sees of the store when all of it is whole.
Seen == [i \in {x \in DOMAIN disk.manifests : Listed(x)} |-> disk.manifests[i]]

\* A copy, while it is made, is in nobody's way and not seen.
LEMMA CopyKeepsStore ==
  ASSUME TypeOK, Named, Locked, Store, NEW j \in Jobs,
         BeginsCopy(j) \/ WritesManifest(j) \/ \E f \in Files : CopiesOne(j, f)
  PROVE  Store' /\ Seen' = Seen
<1> DEFINE J == job[j]
<1>1. J \in Job /\ J.pc \in Working /\ disk.index \subseteq Ids /\ disk.manifests \in Manifests
  BY JobsTyped DEF TypeOK, BeginsCopy, WritesManifest, CopiesOne, At, Working
<1>2. \A k \in Jobs \ {j} : job[k].pc \notin {"walk", "index"}
  BY <1>1, Alone
<1>3. count.taken \in Nat
  BY LimitsAssumption DEF TypeOK, Counts
<1>4. CASE BeginsCopy(j)
  <2> DEFINE calm == (server = "down" \/ saving = "off")
             r == [J EXCEPT !.pc = "walk", !.new = count.taken + 1, !.left = Files,
                            !.copy = Nothing, !.asOf = world, !.calm = calm]
  <2>1. r.pc = "walk" /\ r.new = count.taken + 1 /\ r.copy = Nothing
    <3> HIDE DEF calm
    <3> QED
      BY <1>1 DEF Job
  <2>2. job' = [job EXCEPT ![j] = r] /\ UNCHANGED disk
    BY <1>4 DEF BeginsCopy
  <2>3. count'.taken = count.taken + 1
    BY <1>4 DEF BeginsCopy, TypeOK, Counts
  <2> HIDE DEF r
  <2>4. \A k \in Jobs : job'[k] = IF k = j THEN r ELSE job[k]
    BY <2>2 DEF TypeOK
  <2>5. Numbered'
    <3>1. \A i \in DOMAIN disk.manifests \cup disk.index : i \in Nat /\ i <= count.taken
      BY <1>1, ManifestsTyped, LimitsAssumption DEF Store, Numbered, Ids
    <3> QED
      BY <1>2, <1>3, <2>1, <2>2, <2>3, <2>4, <3>1 DEF Numbered
  <2>6. Whole' /\ Seen' = Seen
    BY <2>2 DEF Store, Whole, HasManifest, Readable, Seen, Listed
  <2>7. Copying'
    <3>1. count.taken + 1 \notin DOMAIN disk.manifests \cup disk.index
      BY <1>3 DEF Store, Numbered
    <3> QED
      BY <1>2, <2>1, <2>2, <2>4, <3>1 DEF Copying, At, HasManifest, Listed, Nothing
  <2> QED
    BY <2>5, <2>6, <2>7 DEF Store
<1>5. CASE WritesManifest(j)
  <2> DEFINE D == DOMAIN disk.manifests \cup {J.new}
             m == [i \in D |-> IF i = J.new THEN J.copy ELSE disk.manifests[i]]
             r == [J EXCEPT !.pc = "index"]
  <2>1. r.pc = "index" /\ r.new = J.new
    BY <1>1 DEF Job
  <2>2. J.pc = "walk" /\ disk' = [disk EXCEPT !.manifests = m] /\ job' = [job EXCEPT ![j] = r]
    BY <1>5 DEF WritesManifest, At, Goes
  <2>3. UNCHANGED count
    BY <1>5 DEF WritesManifest
  <2> HIDE DEF r
  <2>4. \A k \in Jobs : job'[k] = IF k = j THEN r ELSE job[k]
    BY <2>2 DEF TypeOK
  <2>5. /\ DOMAIN m = D /\ m[J.new] = J.copy
        /\ \A i \in DOMAIN disk.manifests \ {J.new} : m[i] = disk.manifests[i]
    OBVIOUS
  <2>6. disk'.manifests = m /\ disk'.index = disk.index /\ disk'.objects = disk.objects
    BY <2>2 DEF TypeOK
  <2> HIDE DEF m
  <2>7. /\ J.new \notin DOMAIN disk.manifests /\ J.new \notin disk.index
        /\ \A f \in Files : J.copy[f] \in disk.objects \cup {Gone}
        /\ J.new <= count.taken
    BY <2>2 DEF Store, Copying, Numbered, At, HasManifest, Listed
  <2>8. Numbered'
    BY <1>2, <2>1, <2>3, <2>4, <2>5, <2>6, <2>7 DEF Store, Numbered
  <2>9. Whole'
    BY <2>5, <2>6, <2>7 DEF Store, Whole, HasManifest, Readable
  <2>10. Copying'
    BY <1>2, <2>1, <2>4, <2>5, <2>6, <2>7 DEF Copying, At, HasManifest, Listed, Readable
  <2>11. Seen' = Seen
    BY <2>5, <2>6, <2>7 DEF Seen, Listed
  <2> QED
    BY <2>8, <2>9, <2>10, <2>11 DEF Store
<1>6. ASSUME NEW f \in Files, CopiesOne(j, f)
      PROVE  Store' /\ Seen' = Seen
  <2>0. PICK copied \in Contents \cup {Gone} :
          /\ job' = [job EXCEPT ![j] = [job[j] EXCEPT !.left = job[j].left \ {f}, !.copy[f] = copied]]
          /\ disk' = [disk EXCEPT !.objects = @ \cup ({copied} \ {Gone})]
    BY <1>6, OneCopied
  <2> DEFINE r == [J EXCEPT !.left = J.left \ {f}, !.copy[f] = copied]
  <2>1. J.pc = "walk" /\ UNCHANGED count /\ job' = [job EXCEPT ![j] = r]
    BY <1>6, <2>0 DEF CopiesOne, At
  <2>2. /\ r.pc = "walk" /\ r.new = J.new
        /\ \A g \in Files : r.copy[g] = IF g = f THEN copied ELSE J.copy[g]
    BY <1>1, <2>1 DEF Job, Copies
  <2>3. /\ disk'.manifests = disk.manifests /\ disk'.index = disk.index
        /\ disk'.objects = disk.objects \cup ({copied} \ {Gone})
    BY <2>0 DEF TypeOK
  <2> HIDE DEF r
  <2>4. \A k \in Jobs : job'[k] = IF k = j THEN r ELSE job[k]
    BY <2>1 DEF TypeOK
  <2>5. Numbered'
    BY <2>1, <2>2, <2>3, <2>4 DEF Store, Numbered
  <2>6. Whole' /\ Seen' = Seen
    BY <2>3 DEF Store, Whole, HasManifest, Readable, Seen, Listed
  <2>7. Copying'
    <3>1. \A g \in Files : r.copy[g] \in disk'.objects \cup {Gone}
      BY <2>1, <2>2, <2>3 DEF Store, Copying, At
    <3> QED
      BY <1>2, <2>1, <2>2, <2>3, <2>4, <3>1 DEF Store, Copying, At, HasManifest, Listed
  <2> QED
    BY <2>5, <2>6, <2>7 DEF Store
<1> QED
  BY <1>4, <1>5, <1>6

\* A manifest that is listed is whole, and was not listed before.
LEMMA PublishKeepsStore ==
  ASSUME TypeOK, Named, Locked, Store, NEW j \in Jobs, WritesIndex(j)
  PROVE  /\ Store'
         /\ job[j].new \in Ids /\ job[j].new \notin DOMAIN Seen
         /\ HasManifest(job[j].new)
         /\ Seen' = [i \in DOMAIN Seen \cup {job[j].new} |->
                       IF i = job[j].new THEN disk.manifests[i] ELSE Seen[i]]
<1> DEFINE J == job[j]
           pc == CASE J.kind = "restore" -> "check"
                   [] J.kind # "restore" /\ Surplus(j) = {} -> "done"
                   [] OTHER -> "unlink"
           r  == [J EXCEPT !.gone = Surplus(j), !.copy = Nothing, !.asOf = Nothing, !.pc = pc]
<1>1. J \in Job /\ J.pc = "index"
  BY JobsTyped DEF WritesIndex, At
<1>2. \A k \in Jobs \ {j} : job[k].pc \notin {"walk", "index"}
  BY <1>1, Alone DEF Working
<1>3. pc \notin {"walk", "index"}
  OBVIOUS
<1>4. job' = [job EXCEPT ![j] = r] /\ disk' = [disk EXCEPT !.index = @ \cup {J.new}]
  BY DEF WritesIndex
<1>5. UNCHANGED count
  BY DEF WritesIndex
<1> HIDE DEF pc
<1>6. r.pc = pc
  BY <1>1 DEF Job
<1> HIDE DEF r
<1>7. \A k \in Jobs : job'[k] = IF k = j THEN r ELSE job[k]
  BY <1>4 DEF TypeOK
<1>8. \A k \in Jobs : job'[k].pc \notin {"walk", "index"}
  BY <1>2, <1>3, <1>6, <1>7
<1>9. /\ disk'.manifests = disk.manifests /\ disk'.index = disk.index \cup {J.new}
      /\ disk'.objects = disk.objects
  BY <1>4 DEF TypeOK
<1>10. Readable(J.new) /\ J.new \notin disk.index /\ J.new \in Ids /\ J.new <= count.taken
  BY <1>1 DEF Store, Copying, Named, Numbered, At, Listed
<1>11. Store'
  <2>1. Numbered'
    BY <1>5, <1>8, <1>9, <1>10 DEF Store, Numbered
  <2>2. Whole'
    BY <1>9, <1>10 DEF Store, Whole, Readable, HasManifest
  <2> QED
    BY <1>8, <2>1, <2>2 DEF Store, Copying, At
<1>12. HasManifest(J.new)
  BY <1>10 DEF Readable
<1>13. /\ DOMAIN Seen = {x \in DOMAIN disk.manifests : x \in disk.index}
       /\ DOMAIN Seen' = DOMAIN Seen \cup {J.new}
       /\ \A i \in DOMAIN Seen : Seen[i] = disk.manifests[i]
       /\ Seen' = [i \in DOMAIN Seen' |-> disk.manifests[i]]
  BY <1>9, <1>12 DEF Seen, Listed, HasManifest
<1>14. Seen' = [i \in DOMAIN Seen \cup {J.new} |->
                  IF i = J.new THEN disk.manifests[i] ELSE Seen[i]]
  <2> HIDE DEF J
  <2> QED
    BY <1>13
<1> QED
  BY <1>10, <1>11, <1>12, <1>13, <1>14

\* What is removed is no longer seen, and nothing else changes.
LEMMA RemovalKeepsStore ==
  ASSUME TypeOK, Locked, Store, NEW j \in Jobs, NEW i \in Ids, Unlinks(j, i)
  PROVE  /\ Store'
         /\ i \in DOMAIN Seen => Seen' = [x \in DOMAIN Seen \ {i} |-> Seen[x]]
         /\ i \notin DOMAIN Seen => Seen' = Seen
<1>1. \A k \in Jobs : job[k].pc \notin {"walk", "index"}
  BY Alone DEF Unlinks, At, Working
<1> DEFINE D == DOMAIN disk.manifests \ {i}
           m == [x \in D |-> disk.manifests[x]]
<1>2. UNCHANGED <<job, count>> /\ disk' = [disk EXCEPT !.manifests = m]
  BY DEF Unlinks
<1>3. DOMAIN m = D /\ \A x \in D : m[x] = disk.manifests[x]
  OBVIOUS
<1> HIDE DEF m
<1>4. disk'.manifests = m /\ disk'.index = disk.index /\ disk'.objects = disk.objects
  BY <1>2 DEF TypeOK
<1>5. Store'
  BY <1>1, <1>2, <1>3, <1>4 DEF Store, Numbered, Whole, Copying, At, HasManifest, Readable
<1>6. Seen' = [x \in DOMAIN Seen \ {i} |-> Seen[x]]
  BY <1>3, <1>4 DEF Seen, Listed
<1>7. i \notin DOMAIN Seen => [x \in DOMAIN Seen \ {i} |-> Seen[x]] = Seen
  BY DEF Seen
<1> QED
  BY <1>5, <1>6, <1>7

\* The index forgets what has no manifest, and no object is collected that a
\* listed manifest refers to.
LEMMA CollectKeepsStore ==
  ASSUME TypeOK, Locked, Store, NEW j \in Jobs, Unlists(j) \/ Collects(j)
  PROVE  Store' /\ Seen' = Seen
<1>1. \A k \in Jobs : job[k].pc \notin {"walk", "index"}
  BY Alone DEF Unlists, Collects, At, Working
<1>2. \A k \in Jobs : job'[k].pc \notin {"walk", "index"}
  <2>1. job' = job \/ \E pc \in {"collect", "done"} : job' = [job EXCEPT ![j].pc = pc]
    BY DEF Unlists, Collects, Goes
  <2>2. job[j] \in Job
    BY JobsTyped
  <2> QED
    BY <1>1, <2>1, <2>2 DEF TypeOK, Job
<1>3. UNCHANGED count
  BY DEF Unlists, Collects
<1>4. CASE Unlists(j)
  <2>1. /\ disk'.manifests = disk.manifests /\ disk'.objects = disk.objects
        /\ disk'.index = disk.index \ job[j].gone
        /\ job[j].gone \cap DOMAIN disk.manifests = {}
    BY <1>4 DEF Unlists, TypeOK
  <2>2. Store'
    BY <1>2, <1>3, <2>1 DEF Store, Numbered, Whole, Copying, At, HasManifest, Readable
  <2>3. Seen' = Seen
    <3>1. {x \in DOMAIN disk.manifests : x \in disk'.index}
            = {x \in DOMAIN disk.manifests : x \in disk.index}
      BY <2>1
    <3> QED
      BY <2>1, <3>1 DEF Seen, Listed
  <2> QED
    BY <2>2, <2>3
<1>5. CASE Collects(j)
  <2>1. /\ disk'.manifests = disk.manifests /\ disk'.index = disk.index
        /\ disk.objects \cap Wanted \subseteq disk'.objects
    <3>1. CASE UNCHANGED disk
      BY <3>1
    <3>2. CASE \E o \in disk.objects \ Wanted : disk' = [disk EXCEPT !.objects = @ \ {o}]
      BY <3>2 DEF TypeOK
    <3> QED
      BY <1>5, <3>1, <3>2 DEF Collects
  <2>2. \A i \in disk.index : HasManifest(i) => \A f \in Files : disk.manifests[i][f] \in Wanted
    BY DEF Wanted, Listed, HasManifest
  <2>3. Whole'
    BY <2>1, <2>2 DEF Store, Whole, HasManifest, Readable
  <2>4. Numbered' /\ Copying'
    BY <1>2, <1>3, <2>1 DEF Store, Numbered, Copying, At
  <2>5. Seen' = Seen
    BY <2>1 DEF Seen, Listed
  <2> QED
    BY <2>3, <2>4, <2>5 DEF Store
<1> QED
  BY <1>4, <1>5

-----------------------------------------------------------------------------
(* The invariant, and the refinement.                                      *)

IInv == TypeInv /\ StoreInv

\* What one step of the system does to the store and to what is seen of it.
LEMMA StepKeepsStore ==
  ASSUME IInv, [Next]_vars
  PROVE  /\ Store'
         /\ \/ Seen' = Seen
            \/ \E i \in Ids : /\ i \notin DOMAIN Seen /\ HasManifest(i)
                              /\ Seen' = [x \in DOMAIN Seen \cup {i} |->
                                            IF x = i THEN disk.manifests[x] ELSE Seen[x]]
            \/ \E i \in Ids : /\ i \in DOMAIN Seen
                              /\ Seen' = [x \in DOMAIN Seen \ {i} |-> Seen[x]]
<1>1. TypeOK /\ Named /\ Locked /\ Store
  BY DEF IInv, TypeInv, StoreInv, Store
<1>2. UNCHANGED disk => Seen' = Seen
  BY DEF Seen, Listed
<1>3. CASE ServerMoves \/ AgentDies
  BY <1>1, <1>2, <1>3, GameKeepsStore
<1>4. ASSUME NEW j \in Jobs,
             Requested(j) \/ JobMoves(j) \/ TakeFails(j) \/ \E f \in Files : Skips(j, f)
      PROVE  /\ Store'
             /\ \/ Seen' = Seen
                \/ \E i \in Ids : /\ i \notin DOMAIN Seen /\ HasManifest(i)
                                  /\ Seen' = [x \in DOMAIN Seen \cup {i} |->
                                                IF x = i THEN disk.manifests[x] ELSE Seen[x]]
                \/ \E i \in Ids : /\ i \in DOMAIN Seen
                                  /\ Seen' = [x \in DOMAIN Seen \ {i} |-> Seen[x]]
  <2>1. CASE \/ Requested(j) \/ TakeFails(j) \/ (\E f \in Files : Skips(j, f) \/ WritesBack(j, f))
             \/ LocksServer(j) \/ LocksForBackup(j) \/ LocksForRestore(j) \/ LocksForDelete(j)
             \/ Stops(j) \/ Wipes(j) \/ RestoreRefused(j) \/ Finishes(j)
    BY <1>1, <1>2, <2>1, OthersKeepStore
  <2>2. CASE BeginsCopy(j) \/ WritesManifest(j) \/ \E f \in Files : CopiesOne(j, f)
    BY <1>1, <2>2, CopyKeepsStore
  <2>3. CASE WritesIndex(j)
    BY <1>1, <2>3, PublishKeepsStore
  <2>4. CASE \E i \in Ids : Unlinks(j, i)
    BY <1>1, <2>4, RemovalKeepsStore
  <2>5. CASE Unlists(j) \/ Collects(j)
    BY <1>1, <2>5, CollectKeepsStore
  <2> QED
    BY <1>4, <2>1, <2>2, <2>3, <2>4, <2>5 DEF JobMoves
<1>5. CASE UNCHANGED vars
  BY <1>1, <1>2, <1>5, StoreStays DEF vars
<1> QED
  BY <1>3, <1>4, <1>5 DEF Next

LEMMA InitHolds == Init => IInv
<1>1. Init => StoreInv
  BY DEF Init, StoreInv, Locked, Named, Numbered, Whole, Copying, Working, Resting, At
<1> QED
  BY <1>1, InitTyped DEF IInv

LEMMA StepHolds == IInv /\ [Next]_vars => IInv'
<1> SUFFICES ASSUME IInv, [Next]_vars PROVE IInv'
  OBVIOUS
<1>1. TypeOK /\ Named /\ Locked
  BY DEF IInv, TypeInv, StoreInv
<1>2. TypeInv'
  BY StepTyped DEF IInv
<1>3. Store'
  BY StepKeepsStore
<1>4. Locked'
  <2>1. CASE UNCHANGED vars
    BY <1>1, <2>1 DEF vars, Locked
  <2> QED
    BY <1>1, <2>1, GameLocked, JobLocked DEF Next
<1> QED
  BY <1>2, <1>3, <1>4 DEF IInv, TypeInv, StoreInv, Store

\* Nobody works on the store without the lock, no id is given twice, and what is
\* listed can be read back: the reason why a prune takes nothing from a snapshot.
THEOREM StoreStaysWhole == Spec => []StoreInv
<1>1. Spec => []IInv
  BY InitHolds, StepHolds, PTL DEF Spec
<1>2. IInv => StoreInv
  BY DEF IInv
<1> QED
  BY <1>1, <1>2, PTL

\* Nothing that is seen is broken.
LEMMA NothingBroken == IInv => CatalogueNow = Seen
<1> SUFFICES ASSUME IInv PROVE CatalogueNow = Seen
  OBVIOUS
<1>1. disk.manifests \in Manifests
  BY DEF IInv, TypeInv, TypeOK
<1>2. ASSUME NEW i \in DOMAIN disk.manifests, Listed(i)
      PROVE  [f \in Files |-> IF disk.manifests[i][f] \in disk.objects \cup {Gone}
                                THEN disk.manifests[i][f] ELSE Broken] = disk.manifests[i]
  <2>1. disk.manifests[i] \in Copies
    BY <1>1, ManifestsTyped
  <2>2. \A f \in Files : disk.manifests[i][f] \in disk.objects \cup {Gone}
    BY <1>2 DEF IInv, StoreInv, Whole, Listed, HasManifest, Readable
  <2> QED
    BY <2>1, <2>2 DEF Copies
<1> QED
  BY <1>2 DEF CatalogueNow, Seen

\* The store, with its objects, manifests and index, its prunes and the deaths of
\* the agent, is a catalogue: a snapshot appears as a whole, never changes, and
\* can be read back for as long as it is listed.
THEOREM BackupsAreACatalogue == Spec => ImplementsCatalogue
<1>1. Init => Promised!Init
  <2> SUFFICES ASSUME Init PROVE CatalogueNow = <<>>
    BY DEF Promised!Init
  <2>1. CatalogueNow = Seen
    BY InitHolds, NothingBroken
  <2> QED
    BY <2>1 DEF Init, Seen
<1>2. IInv /\ IInv' /\ [Next]_vars => [Promised!Next]_CatalogueNow
  <2> SUFFICES ASSUME IInv, IInv', [Next]_vars PROVE [Promised!Next]_CatalogueNow
    OBVIOUS
  <2>1. CatalogueNow = Seen
    BY NothingBroken
  <2>2. CatalogueNow' = Seen'
    <3>1. IInv' => (CatalogueNow = Seen)'
      BY NothingBroken, PTL
    <3> QED
      BY <3>1
  <2>3. CASE Seen' = Seen
    BY <2>1, <2>2, <2>3
  <2>4. ASSUME NEW i \in Ids, i \notin DOMAIN Seen, HasManifest(i),
               Seen' = [x \in DOMAIN Seen \cup {i} |-> IF x = i THEN disk.manifests[x] ELSE Seen[x]]
        PROVE  Promised!Publish(i)
    <3> DEFINE copy == disk.manifests[i]
    <3>1. copy \in [Files -> Contents \cup {Gone}]
      BY <2>4, ManifestsTyped DEF IInv, TypeInv, TypeOK, HasManifest, Copies
    <3>2. Seen' = [x \in DOMAIN Seen \cup {i} |-> IF x = i THEN copy ELSE Seen[x]]
      BY <2>4
    <3> HIDE DEF copy
    <3> QED
      BY <2>1, <2>2, <2>4, <3>1, <3>2 DEF Promised!Publish
  <2>5. ASSUME NEW i \in Ids, i \in DOMAIN Seen, Seen' = [x \in DOMAIN Seen \ {i} |-> Seen[x]]
        PROVE  Promised!Forget(i)
    BY <2>1, <2>2, <2>5 DEF Promised!Forget
  <2> QED
    BY <2>3, <2>4, <2>5, StepKeepsStore DEF Promised!Next
<1> QED
  BY <1>1, <1>2, InitHolds, StepHolds, PTL DEF Spec, ImplementsCatalogue, Promised!Spec

-----------------------------------------------------------------------------
(* What a job may count on while it has the lock of the backups.           *)

\* Which requests come to which step.
Suited(r) ==
  /\ r.pc \in {"srvlock", "stop", "check", "write"} => r.kind = "restore"
  /\ r.pc = "flush" => r.kind = "backup"
  /\ r.pc \in {"walk", "index"} => r.kind \in {"backup", "restore"} /\ r.new = count.taken
  /\ r.pc \in {"unlink", "collect"} => r.kind # "restore"

\* A restore works on a folder that no game is in.
Undisturbed(r) ==
  r.kind = "restore" /\ r.pc \in {"walk", "index", "check", "write", "done"} => server = "down"

\* The world of a calm copy stays as it was when the copy began, and what is
\* copied so far is from it.
OneMoment(r) ==
  r.calm /\ r.pc \in {"walk", "index", "check"} =>
    /\ server = "down" \/ saving = "off"
    /\ r.pc # "check" => r.asOf = world
    /\ r.pc = "walk" => \A f \in Files \ r.left : r.copy[f] = world[f]
    /\ r.pc = "index" => r.copy = world
    /\ r.pc = "check" => disk.manifests[r.new] = world

\* The manifest is what was copied, it is listed, and what the job itself removes
\* is something else.
Filed(r) ==
  /\ r.pc = "index" => disk.manifests[r.new] = r.copy
  /\ r.pc = "check" => HasManifest(r.new) /\ Listed(r.new)
  /\ r.kind = "backup" /\ r.pc \in {"unlink", "collect", "done"} =>
       HasManifest(r.new) /\ Listed(r.new) /\ r.new \notin r.gone

\* What it has read it has copied, and what it overwrites counts as unread.
Noted(r) ==
  \A f \in Files :
    /\ r.pc \in {"walk", "index"} /\ r.new \in readBy[f] => r.copy[f] = world[f]
    /\ r.pc = "write" => readBy[f] = {}

\* The files that are back are those of the snapshot.
WrittenBack(r) ==
  /\ r.pc = "write" => \A f \in Files \ r.left : world[f] = r.copy[f]
  /\ r.kind = "restore" /\ r.pc = "done" => world = r.copy

Good(r) ==
  Suited(r) /\ Undisturbed(r) /\ OneMoment(r) /\ Filed(r) /\ Noted(r) /\ WrittenBack(r)

\* Who is beyond the locks has them.
Waiting == {"none", "srvlock", "lock"}
Owned ==
  \A j \in Jobs :
    /\ job[j].pc \notin Waiting => backupLock = j
    /\ job[j].pc \in Waiting => ~job[j].off /\ ~job[j].was
    /\ job[j].kind = "restore" /\ job[j].pc # "srvlock" => srvLock = j

\* A file that counts as read by a snapshot is in the world as it is in there:
\* why a hash may be carried over.
ReadRight ==
  \A f \in Files : \A i \in readBy[f] :
    i <= count.taken /\ (HasManifest(i) => disk.manifests[i][f] = world[f])

NetListed ==
  net.id # NoId => HasManifest(net.id) /\ Listed(net.id) /\ disk.manifests[net.id] = net.was

KeepInv == Owned /\ (\A j \in Jobs : Good(job[j])) /\ ReadRight /\ NetListed

\* A job that waits for a lock need not be anything.
LEMMA WaitersAreGood ==
  ASSUME NEW r \in Job, r.pc \in Waiting, r.pc = "srvlock" => r.kind = "restore"
  PROVE  Good(r)
BY DEF Good, Suited, Undisturbed, OneMoment, Filed, Noted, WrittenBack, Waiting

\* Who has the lock is alone.
LEMMA OthersWait ==
  ASSUME Owned, NEW j \in Jobs, job[j].pc \notin Waiting \/ backupLock = NoJob
  PROVE  \A k \in Jobs \ {j} : job[k].pc \in Waiting
BY JobsAssumption DEF Owned

\* The one who has the lock, or gets it, moves.
LEMMA OneMoves ==
  ASSUME TypeOK, Owned, \A k \in Jobs : Good(job[k]), NEW j \in Jobs, NEW r \in Job,
         job' = [job EXCEPT ![j] = r],
         \A k \in Jobs \ {j} : job[k].pc \in Waiting,
         r.pc \notin Waiting => backupLock' = j,
         r.pc \in Waiting => ~r.off /\ ~r.was,
         r.kind = "restore" /\ r.pc # "srvlock" => srvLock' = j,
         \A k \in Jobs \ {j} : srvLock = k => srvLock' = k,
         Good(r)'
  PROVE  Owned' /\ \A k \in Jobs : Good(job[k])'
<1>1. \A k \in Jobs : job'[k] = IF k = j THEN r ELSE job[k]
  BY DEF TypeOK
<1>2. Owned'
  BY <1>1 DEF Owned
<1>3. ASSUME NEW k \in Jobs \ {j}
      PROVE  Good(job[k])'
  <2>1. job'[k] = job[k] /\ job[k] \in Job
    BY <1>1 DEF TypeOK
  <2>2. job[k].pc \in Waiting /\ (job[k].pc = "srvlock" => job[k].kind = "restore")
    BY DEF Good, Suited
  <2> QED
    BY <2>1, <2>2 DEF Good, Suited, Undisturbed, OneMoment, Filed, Noted, WrittenBack, Waiting
<1>4. Good(job[j])'
  <2>1. job'[j] = r
    BY <1>1
  <2> QED
    BY <2>1 DEF Good, Suited, Undisturbed, OneMoment, Filed, Noted, WrittenBack
<1> QED
  BY <1>2, <1>3, <1>4

\* Jobs stay where they are, and the store as it is.
LEMMA GameKeeps ==
  ASSUME TypeOK, KeepInv, ServerMoves PROVE KeepInv'
<1>1. CASE ServerStarts
  <2>1. \A k \in Jobs : job[k] \in Job /\ job'[k] = [job[k] EXCEPT !.calm = FALSE]
    BY <1>1 DEF ServerStarts, TypeOK
  <2>2. \A k \in Jobs : /\ ~job'[k].calm
                        /\ job'[k].pc = job[k].pc /\ job'[k].kind = job[k].kind
                        /\ job'[k].new = job[k].new /\ job'[k].left = job[k].left
                        /\ job'[k].copy = job[k].copy /\ job'[k].gone = job[k].gone
                        /\ job'[k].off = job[k].off /\ job'[k].was = job[k].was
    BY ZenonT(40), <2>1 DEF Job
  <2>3. /\ UNCHANGED <<world, readBy, disk, srvLock, backupLock, net>>
        /\ count'.taken = count.taken /\ srvLock = NoJob
    BY <1>1 DEF ServerStarts, Folder, Locks, TypeOK, Counts
  <2>4. Owned' /\ ReadRight' /\ NetListed'
    BY <2>2, <2>3 DEF KeepInv, Owned, ReadRight, NetListed, HasManifest, Listed
  <2>5. ASSUME NEW k \in Jobs
        PROVE  Good(job[k])'
    <3>1. Undisturbed(job[k])'
      <4>1. job[k].kind = "restore" => job[k].pc = "srvlock"
        BY <2>3, JobsAssumption DEF KeepInv, Owned
      <4> QED
        BY <2>2, <4>1 DEF Undisturbed
    <3>2. OneMoment(job[k])'
      BY <2>2 DEF OneMoment
    <3> QED
      BY <2>2, <2>3, <3>1, <3>2 DEF KeepInv, Good, Suited, Filed, Noted, WrittenBack, HasManifest, Listed
  <2> QED
    BY <2>4, <2>5 DEF KeepInv
<1>2. CASE ServerBoots \/ ServerEnds \/ GameFlushed
  <2>1. /\ UNCHANGED <<world, readBy, disk, job, srvLock, backupLock, net, count>>
        /\ server = "down" => server' = "down"
        /\ server = "down" \/ saving = "off" => server' = "down" \/ saving' = "off"
    BY <1>2 DEF ServerBoots, ServerEnds, GameFlushed, Folder, Locks
  <2>2. Owned' /\ ReadRight' /\ NetListed'
    BY <2>1 DEF KeepInv, Owned, ReadRight, NetListed, HasManifest, Listed
  <2>3. ASSUME NEW k \in Jobs
        PROVE  Good(job[k])'
    BY <2>1 DEF KeepInv, Good, Suited, Undisturbed, OneMoment, Filed, Noted, WrittenBack,
                HasManifest, Listed
  <2> QED
    BY <2>2, <2>3 DEF KeepInv
<1>3. ASSUME NEW f \in Files, NEW c \in Contents, GameWrites(f, c)
      PROVE  KeepInv'
  <2>1. /\ UNCHANGED <<server, saving, disk, job, srvLock, backupLock, net>>
        /\ count'.taken = count.taken /\ server # "down" /\ saving # "off"
    BY <1>3 DEF GameWrites, Game, Locks, TypeOK, Counts
  <2>2. \A g \in Files : /\ world'[g] = IF g = f THEN c ELSE world[g]
                         /\ readBy'[g] = IF g = f THEN {} ELSE readBy[g]
    BY <1>3 DEF GameWrites, TypeOK, Copies
  <2>3. Owned' /\ NetListed'
    BY <2>1 DEF KeepInv, Owned, NetListed, HasManifest, Listed
  <2>4. ReadRight'
    BY <2>1, <2>2 DEF KeepInv, ReadRight, HasManifest
  <2>5. ASSUME NEW k \in Jobs
        PROVE  Good(job[k])'
    <3>1. Good(job[k])
      BY DEF KeepInv
    <3>2. Suited(job[k])' /\ Undisturbed(job[k])' /\ Filed(job[k])'
      BY <2>1, <3>1 DEF Good, Suited, Undisturbed, Filed, HasManifest, Listed
    <3>3. OneMoment(job[k])' /\ WrittenBack(job[k])'
      BY <2>1, <3>1 DEF Good, Suited, Undisturbed, OneMoment, WrittenBack
    <3>4. Noted(job[k])'
      BY <2>1, <2>2, <3>1 DEF Good, Noted
    <3> QED
      BY <3>2, <3>3, <3>4 DEF Good
  <2> QED
    BY <2>3, <2>4, <2>5 DEF KeepInv
<1> QED
  BY <1>1, <1>2, <1>3 DEF ServerMoves

\* After a death nobody is at work.
LEMMA DeathKeeps ==
  ASSUME TypeOK, KeepInv, AgentDies PROVE KeepInv'
<1>1. /\ UNCHANGED <<world, readBy, disk, server, saving, net>>
      /\ count'.taken = count.taken
      /\ \A k \in Jobs : job'[k] = Resting
  BY DEF AgentDies, Folder, Game, Trouble, TypeOK, Counts
<1>2. Owned' /\ ReadRight' /\ NetListed'
  BY <1>1 DEF KeepInv, Owned, ReadRight, NetListed, HasManifest, Listed, Resting, Waiting
<1>3. \A k \in Jobs : Good(job[k])'
  BY <1>1 DEF Good, Suited, Undisturbed, OneMoment, Filed, Noted, WrittenBack, Resting
<1> QED
  BY <1>2, <1>3 DEF KeepInv

\* What no step of these does: change the store, the folder or what was promised.
LEMMA SameBooks ==
  ASSUME KeepInv, UNCHANGED <<world, readBy, net>>, count'.taken = count.taken,
         disk'.manifests = disk.manifests, disk'.index = disk.index
  PROVE  ReadRight' /\ NetListed'
BY DEF KeepInv, ReadRight, NetListed, HasManifest, Listed

\* A job comes, or gets the lock of the server.
LEMMA WaiterKeeps ==
  ASSUME TypeOK, KeepInv, NEW j \in Jobs, Requested(j) \/ LocksServer(j) PROVE KeepInv'
<1>1. PICK r \in Job : /\ job' = [job EXCEPT ![j] = r]
                       /\ r.pc \in {"srvlock", "lock"} /\ (r.pc = "srvlock" => r.kind = "restore")
                       /\ ~r.off /\ ~r.was
                       /\ r.kind = "restore" /\ r.pc # "srvlock" => srvLock' = j
                       /\ srvLock' = srvLock \/ srvLock = NoJob
  <2>1. CASE Requested(j)
    <3>1. PICK kind \in {"backup", "restore", "delete"}, id \in Ids \cup {NoId},
               pc \in {"lock", "srvlock"} : Asks(j, kind, id, pc) /\ (pc = "srvlock" <=> kind = "restore")
      BY <2>1 DEF Requested, AsksBackup, AsksRestore, AsksDelete
    <3> DEFINE r == [Resting EXCEPT !.kind = kind, !.id = id, !.pc = pc]
    <3>2. r \in Job /\ r.pc = pc /\ r.kind = kind /\ ~r.off /\ ~r.was
      BY DEF Job, Resting, PCs, Copies, Nothing
    <3>3. job' = [job EXCEPT ![j] = r] /\ srvLock' = srvLock
      BY <3>1 DEF Asks, Locks
    <3> HIDE DEF r
    <3> QED
      BY <3>1, <3>2, <3>3
  <2>2. CASE LocksServer(j)
    <3> DEFINE r == [job[j] EXCEPT !.pc = "lock"]
    <3>1. job[j] \in Job
      BY JobsTyped
    <3>2. r \in Job /\ r.pc = "lock" /\ r.off = job[j].off /\ r.was = job[j].was
      BY <3>1 DEF Job, PCs
    <3>3. job' = [job EXCEPT ![j] = r] /\ srvLock' = j /\ srvLock = NoJob /\ job[j].pc = "srvlock"
      BY <2>2 DEF LocksServer, Goes, At
    <3>4. ~job[j].off /\ ~job[j].was
      BY <3>3 DEF KeepInv, Owned, Waiting
    <3> HIDE DEF r
    <3> QED
      BY <3>2, <3>3, <3>4 DEF Waiting
  <2> QED
    BY <2>1, <2>2
<1>2. UNCHANGED <<world, readBy, disk, server, saving, backupLock, net>> /\ count'.taken = count.taken
  BY DEF Requested, AsksBackup, AsksRestore, AsksDelete, Asks, LocksServer, Folder, Game, Locks,
         TypeOK, Counts
<1>3. \A k \in Jobs : job'[k] = IF k = j THEN r ELSE job[k]
  BY <1>1 DEF TypeOK
<1>4. ReadRight' /\ NetListed'
  BY <1>2, SameBooks
<1>5. Owned'
  BY <1>1, <1>2, <1>3, JobsAssumption DEF KeepInv, Owned, Waiting
<1>6. ASSUME NEW k \in Jobs
      PROVE  Good(job[k])'
  <2>1. CASE k = j
    BY <1>1, <1>3, <2>1 DEF Good, Suited, Undisturbed, OneMoment, Filed, Noted, WrittenBack, Waiting
  <2>2. CASE k # j
    BY <1>2, <1>3, <2>2 DEF KeepInv, Good, Suited, Undisturbed, OneMoment, Filed, Noted, WrittenBack,
                            HasManifest, Listed
  <2> QED
    BY <2>1, <2>2
<1> QED
  BY <1>4, <1>5, <1>6 DEF KeepInv

\* A job that has no claim on the store or the folder after its step.
LEMMA FreeOfClaims ==
  ASSUME TypeOK, KeepInv, NEW j \in Jobs, NEW r \in Job, job' = [job EXCEPT ![j] = r],
         UNCHANGED <<world, readBy, net>>, count'.taken = count.taken,
         disk'.manifests = disk.manifests, disk'.index = disk.index,
         job[j].pc \notin Waiting \/ backupLock = NoJob,
         r.pc \in {"none", "flush", "stop", "failed", "unlink", "collect", "done"},
         r.pc = "flush" => r.kind = "backup",
         r.pc = "stop" => r.kind = "restore",
         r.pc \in {"unlink", "collect", "done"} => r.kind = "delete",
         r.pc = "none" => ~r.off /\ ~r.was /\ r.kind = "none",
         r.pc # "none" => backupLock' = j /\ r.kind = job[j].kind,
         srvLock' = IF r.pc = "none" /\ srvLock = j THEN NoJob ELSE srvLock,
         job[j].pc # "srvlock"
  PROVE  KeepInv'
<1>1. \A k \in Jobs \ {j} : job[k].pc \in Waiting
  BY OthersWait DEF KeepInv
<1>2. Good(r)'
  BY DEF Good, Suited, Undisturbed, OneMoment, Filed, Noted, WrittenBack
<1>3. Owned /\ (\A k \in Jobs : Good(job[k])) /\ (r.kind = "restore" => srvLock' = j)
  BY DEF KeepInv, Owned
<1>4. Owned' /\ \A k \in Jobs : Good(job[k])'
  BY <1>1, <1>2, <1>3, OneMoves DEF Waiting
<1>5. ReadRight' /\ NetListed'
  BY SameBooks
<1> QED
  BY <1>4, <1>5 DEF KeepInv

\* The locks are taken, a job fails, ends, or stops the server.
LEMMA LockKeeps ==
  ASSUME TypeOK, Named, KeepInv, NEW j \in Jobs,
         \/ LocksForBackup(j) \/ LocksForRestore(j) \/ LocksForDelete(j)
         \/ RestoreRefused(j) \/ TakeFails(j) \/ Finishes(j)
  PROVE  KeepInv'
<1> DEFINE J == job[j]
<1>1. J \in Job /\ Resting \in Job
  BY JobsTyped
<1>2. /\ UNCHANGED <<world, readBy, disk>> /\ count'.taken = count.taken
      /\ net' = net
  BY DEF LocksForBackup, LocksForRestore, LocksForDelete, RestoreRefused, TakeFails, Finishes,
         Folder, Trouble, TypeOK, Counts
<1>3. CASE LocksForBackup(j)
  <2> DEFINE r == [J EXCEPT !.pc = "flush", !.off = (server = "running")]
  <2>1. r \in Job /\ r.pc = "flush" /\ r.kind = J.kind
    BY <1>1 DEF Job, PCs
  <2>2. job' = [job EXCEPT ![j] = r] /\ J.kind = "backup" /\ J.pc = "lock"
    BY <1>3 DEF LocksForBackup, At
  <2>3. backupLock = NoJob /\ backupLock' = j /\ srvLock' = srvLock
    BY <1>3 DEF LocksForBackup
  <2> HIDE DEF r
  <2> QED
    BY <1>2, <2>1, <2>2, <2>3, FreeOfClaims
<1>4. CASE LocksForRestore(j)
  <2> DEFINE r == [J EXCEPT !.pc = "stop", !.was = (server # "down")]
  <2>1. r \in Job /\ r.pc = "stop" /\ r.kind = J.kind
    BY <1>1 DEF Job, PCs
  <2>2. job' = [job EXCEPT ![j] = r] /\ J.kind = "restore" /\ J.pc = "lock"
    BY <1>4 DEF LocksForRestore, At
  <2>3. backupLock = NoJob /\ backupLock' = j /\ srvLock' = srvLock
    BY <1>4 DEF LocksForRestore
  <2> HIDE DEF r
  <2> QED
    BY <1>2, <2>1, <2>2, <2>3, FreeOfClaims
<1>5. CASE LocksForDelete(j)
  <2>1. PICK pc \in {"unlink", "failed"} : job' = [job EXCEPT ![j] = [J EXCEPT !.gone = {J.id}, !.pc = pc]]
    BY <1>5 DEF LocksForDelete
  <2> DEFINE r == [J EXCEPT !.gone = {J.id}, !.pc = pc]
  <2>2. {J.id} \subseteq Ids => r \in Job
    BY <1>1 DEF Job, PCs
  <2>3. r.pc = pc /\ r.kind = J.kind /\ J.kind = "delete" /\ J.pc = "lock"
    BY <1>1, <1>5 DEF Job, LocksForDelete, At
  <2>4. job' = [job EXCEPT ![j] = r]
    BY <2>1
  <2>5. backupLock = NoJob /\ backupLock' = j /\ srvLock' = srvLock
    BY <1>5 DEF LocksForDelete
  <2>6. {J.id} \subseteq Ids
    BY <2>3 DEF Named
  <2> HIDE DEF r
  <2> QED
    BY <1>2, <2>2, <2>3, <2>4, <2>5, <2>6, FreeOfClaims
<1>6. CASE RestoreRefused(j) \/ TakeFails(j)
  <2> DEFINE r == [J EXCEPT !.pc = "failed"]
  <2>1. r \in Job /\ r.pc = "failed" /\ r.kind = J.kind
    BY <1>1 DEF Job, PCs
  <2>2. job' = [job EXCEPT ![j] = r] /\ J.pc \in {"check", "walk", "index"}
    BY <1>6 DEF RestoreRefused, TakeFails, Goes, At
  <2>3. backupLock' = j /\ srvLock' = srvLock /\ J.pc \notin Waiting
    BY <1>6, <2>2 DEF RestoreRefused, TakeFails, Locks, KeepInv, Owned, Waiting
  <2> HIDE DEF r
  <2> QED
    BY <1>2, <2>1, <2>2, <2>3, FreeOfClaims
<1>7. CASE Finishes(j)
  <2>1. /\ Resting.pc = "none" /\ ~Resting.off /\ ~Resting.was /\ Resting.kind = "none"
        /\ job' = [job EXCEPT ![j] = Resting] /\ J.pc \in {"done", "failed"}
        /\ srvLock' = IF srvLock = j THEN NoJob ELSE srvLock
    BY <1>7 DEF Finishes, Resting
  <2>2. J.pc \notin Waiting /\ J.pc # "srvlock"
    BY <2>1 DEF Waiting
  <2> QED
    BY <1>1, <1>2, <2>1, <2>2, FreeOfClaims
<1> QED
  BY <1>3, <1>4, <1>5, <1>6, <1>7

\* A server that is to be restored is stopped, or would not stop.
LEMMA StopKeeps ==
  ASSUME TypeOK, KeepInv, NEW j \in Jobs, Stops(j) PROVE KeepInv'
<1>1. job[j] \in Job /\ job[j].pc = "stop" /\ job[j].kind = "restore" /\ backupLock = j
  BY JobsTyped DEF Stops, At, KeepInv, Good, Suited, Owned, Waiting
<1>2. UNCHANGED <<world, readBy, disk, net, srvLock, backupLock, count>>
  BY DEF Stops, Folder, Locks
<1>3. PICK r \in Job : job' = [job EXCEPT ![j] = r] /\ r.pc \in {"stop", "failed"} /\ r.kind = job[j].kind
  <2>1. CASE UNCHANGED job
    <3>1. job' = [job EXCEPT ![j] = job[j]]
      BY <2>1 DEF TypeOK
    <3> QED
      BY <1>1, <3>1
  <2>2. CASE Goes(j, "failed")
    <3> DEFINE r == [job[j] EXCEPT !.pc = "failed"]
    <3>1. r \in Job /\ r.pc = "failed" /\ r.kind = job[j].kind /\ job' = [job EXCEPT ![j] = r]
      BY <1>1, <2>2 DEF Job, PCs, Goes
    <3> HIDE DEF r
    <3> QED
      BY <3>1
  <2> QED
    BY <2>1, <2>2 DEF Stops
<1> QED
  BY <1>1, <1>2, <1>3, FreeOfClaims DEF Waiting

\* The one at work makes a step that lets no lock go.
LEMMA MoverKeeps ==
  ASSUME TypeOK, KeepInv, NEW j \in Jobs, NEW r \in Job, job' = [job EXCEPT ![j] = r],
         UNCHANGED Locks, job[j].pc \notin Waiting, r.pc \notin Waiting, r.kind = job[j].kind,
         Good(r)', ReadRight', NetListed'
  PROVE  KeepInv'
<1>1. backupLock' = j /\ (r.kind = "restore" => srvLock' = j)
  BY DEF KeepInv, Owned, Locks, Waiting
<1>2. /\ \A k \in Jobs \ {j} : job[k].pc \in Waiting
      /\ Owned /\ (\A k \in Jobs : Good(job[k])) /\ srvLock' = srvLock
  BY OthersWait DEF KeepInv, Locks
<1>3. Owned' /\ \A k \in Jobs : Good(job[k])'
  BY <1>1, <1>2, OneMoves
<1> QED
  BY <1>3 DEF KeepInv

\* The copy begins: nothing counts as read by the new snapshot.
LEMMA BeginKeeps ==
  ASSUME TypeOK, KeepInv, NEW j \in Jobs, BeginsCopy(j) PROVE KeepInv'
<1> DEFINE J == job[j]
           new == count.taken + 1
           calm == server = "down" \/ saving = "off"
<1>1. J \in Job /\ J.pc \in {"flush", "stop"} /\ (J.pc = "stop" => server = "down") /\ Good(J)
  BY JobsTyped DEF BeginsCopy, At, KeepInv
<1>2. count.taken \in Nat /\ new \in Ids /\ count'.taken = new
  BY LimitsAssumption DEF BeginsCopy, TypeOK, Counts, Ids
<1>3. PICK r \in Job : /\ job' = [job EXCEPT ![j] = r] /\ r.kind = J.kind
                       /\ r.pc = "walk" /\ r.new = new /\ r.left = Files /\ r.asOf = world
                       /\ r.calm = calm
  <2> DEFINE q == [J EXCEPT !.pc = "walk", !.new = new, !.left = Files, !.copy = Nothing,
                            !.asOf = world, !.calm = calm]
  <2>1. /\ q \in Job /\ q.kind = J.kind /\ q.pc = "walk" /\ q.new = new /\ q.left = Files
        /\ q.asOf = world /\ q.calm = calm
    BY <1>1, <1>2 DEF Job, PCs, TypeOK, Copies, Nothing
  <2>2. job' = [job EXCEPT ![j] = q]
    BY DEF BeginsCopy
  <2> HIDE DEF q
  <2> QED
    BY <2>1, <2>2
<1>4. UNCHANGED <<world, readBy, disk, server, saving, net>>
  BY DEF BeginsCopy, Folder, Game
<1>5. J.pc \notin Waiting /\ r.pc \notin Waiting /\ UNCHANGED Locks
  BY <1>1, <1>3 DEF BeginsCopy, Waiting
<1>6. ReadRight' /\ NetListed'
  BY <1>2, <1>4 DEF KeepInv, ReadRight, NetListed, HasManifest, Listed, TypeOK, Ids
<1>7. \A f \in Files : new \notin readBy[f]
  BY <1>2 DEF KeepInv, ReadRight
<1>8. Good(r)'
  BY <1>1, <1>2, <1>3, <1>4, <1>7
  DEF Good, Suited, Undisturbed, OneMoment, Filed, Noted, WrittenBack
<1> QED
  BY <1>1, <1>3, <1>4, <1>5, <1>6, <1>8, MoverKeeps

\* A file is copied as it is, whether it is read or its hash is carried over.
LEMMA CopyKeeps ==
  ASSUME TypeOK, StoreInv, KeepInv, NEW j \in Jobs, NEW f \in Files, CopiesOne(j, f)
  PROVE  KeepInv'
<1> DEFINE J == job[j]
<1>1. J \in Job /\ J.pc = "walk" /\ Good(J) /\ world \in Copies
  BY JobsTyped DEF CopiesOne, At, KeepInv, TypeOK
<1>2. Reusable(f) => disk.manifests[Newest][f] = world[f]
  <2>1. PICK i : i = Newest
    OBVIOUS
  <2> QED
    BY <2>1 DEF Reusable, KeepInv, ReadRight
<1>3. PICK r \in Job :
        /\ job' = [job EXCEPT ![j] = r] /\ r.kind = J.kind /\ r.pc = J.pc /\ r.new = J.new
        /\ r.calm = J.calm /\ r.asOf = J.asOf /\ r.left = J.left \ {f}
        /\ \A g \in Files : r.copy[g] = IF g = f THEN world[f] ELSE J.copy[g]
  <2> DEFINE q == [J EXCEPT !.left = @ \ {f}, !.copy[f] = world[f]]
  <2>1. /\ q \in Job /\ q.kind = J.kind /\ q.pc = J.pc /\ q.new = J.new /\ q.calm = J.calm
        /\ q.asOf = J.asOf /\ q.left = J.left \ {f}
        /\ \A g \in Files : q.copy[g] = IF g = f THEN world[f] ELSE J.copy[g]
    BY <1>1 DEF Job, PCs, Copies
  <2>2. job' = [job EXCEPT ![j].left = @ \ {f}, ![j].copy[f] = world[f]]
    BY <1>2 DEF CopiesOne
  <2>3. job' = [job EXCEPT ![j] = q]
    BY ZenonT(40), <2>2 DEF TypeOK
  <2> HIDE DEF q
  <2> QED
    BY <2>1, <2>3
<1>5. /\ UNCHANGED <<world, server, saving, net, count>> /\ UNCHANGED Locks
      /\ disk'.manifests = disk.manifests /\ disk'.index = disk.index
  BY DEF CopiesOne, Game, Locks, TypeOK
<1>6. \A g \in Files : readBy'[g] = readBy[g] \/ (g = f /\ readBy'[f] = readBy[f] \cup {J.new})
  BY DEF CopiesOne, TypeOK
<1>7. ~HasManifest(J.new) /\ J.new = count.taken /\ count.taken \in Nat
  BY <1>1 DEF StoreInv, Copying, At, Good, Suited, TypeOK, Counts
<1>8. ReadRight'
  BY <1>5, <1>6, <1>7 DEF KeepInv, ReadRight, HasManifest
<1>9. NetListed'
  BY <1>5 DEF KeepInv, NetListed, HasManifest, Listed
<1>10. Good(r)'
  <2>1. OneMoment(r)' /\ Noted(r)'
    BY <1>1, <1>3, <1>5, <1>6 DEF Good, OneMoment, Noted
  <2>2. Suited(r)' /\ Undisturbed(r)' /\ Filed(r)' /\ WrittenBack(r)'
    BY <1>1, <1>3, <1>5 DEF Good, Suited, Undisturbed, Filed, WrittenBack
  <2> QED
    BY <2>1, <2>2 DEF Good
<1> QED
  BY <1>1, <1>3, <1>5, <1>8, <1>9, <1>10, MoverKeeps DEF Waiting

\* A copy without all files is not calm.
LEMMA SkipKeeps ==
  ASSUME TypeOK, KeepInv, NEW j \in Jobs, NEW f \in Files, Skips(j, f)
  PROVE  KeepInv'
<1> DEFINE J == job[j]
<1>1. J \in Job /\ J.pc = "walk" /\ Good(J)
  BY JobsTyped DEF Skips, At, KeepInv
<1>2. PICK r \in Job : /\ job' = [job EXCEPT ![j] = r] /\ r.kind = J.kind /\ r.pc = J.pc
                       /\ r.new = J.new /\ r.copy = J.copy /\ ~r.calm
  <2> DEFINE q == [J EXCEPT !.left = @ \ {f}, !.calm = FALSE]
  <2>1. /\ q \in Job /\ q.kind = J.kind /\ q.pc = J.pc /\ q.new = J.new /\ q.copy = J.copy
        /\ ~q.calm
    BY <1>1 DEF Job, PCs
  <2>2. job' = [job EXCEPT ![j] = q]
    BY DEF Skips, TypeOK
  <2> HIDE DEF q
  <2> QED
    BY <2>1, <2>2
<1>4. /\ UNCHANGED <<world, readBy, disk, server, saving, net>> /\ UNCHANGED Locks
      /\ count'.taken = count.taken
  BY DEF Skips, Folder, Game, Trouble, TypeOK, Counts
<1>5. ReadRight' /\ NetListed'
  BY <1>4, SameBooks
<1>6. Good(r)'
  BY <1>1, <1>2, <1>4 DEF Good, Suited, Undisturbed, OneMoment, Filed, Noted, WrittenBack
<1> QED
  BY <1>1, <1>2, <1>4, <1>5, <1>6, MoverKeeps DEF Waiting

\* What was copied becomes the manifest.
LEMMA ManifestKeeps ==
  ASSUME TypeOK, StoreInv, KeepInv, NEW j \in Jobs, WritesManifest(j)
  PROVE  KeepInv'
<1> DEFINE J == job[j]
<1>1. J \in Job /\ J.pc = "walk" /\ J.left = {} /\ Good(J) /\ world \in Copies
  BY JobsTyped DEF WritesManifest, At, KeepInv, TypeOK
<1>2. PICK r \in Job : /\ job' = [job EXCEPT ![j] = r] /\ r.kind = J.kind /\ r.pc = "index"
                       /\ r.new = J.new /\ r.calm = J.calm /\ r.copy = J.copy
                       /\ r.copy \in Copies /\ r.asOf = J.asOf
  <2> DEFINE q == [J EXCEPT !.pc = "index"]
  <2>1. /\ q \in Job /\ q.kind = J.kind /\ q.pc = "index" /\ q.new = J.new /\ q.calm = J.calm
        /\ q.copy = J.copy /\ q.copy \in Copies /\ q.asOf = J.asOf
    BY <1>1 DEF Job, PCs
  <2>2. job' = [job EXCEPT ![j] = q]
    BY DEF WritesManifest, Goes
  <2> HIDE DEF q
  <2> QED
    BY <2>1, <2>2
<1>4. UNCHANGED <<world, readBy, server, saving, net, count>> /\ UNCHANGED Locks
  BY DEF WritesManifest, Folder, Game, Locks
<1>5. /\ disk'.index = disk.index
      /\ disk'.manifests = [i \in DOMAIN disk.manifests \cup {J.new} |->
                              IF i = J.new THEN J.copy ELSE disk.manifests[i]]
  BY DEF WritesManifest, TypeOK
<1>6. /\ \A i : HasManifest(i)' <=> HasManifest(i) \/ i = J.new
      /\ disk'.manifests[J.new] = J.copy
      /\ \A i : HasManifest(i) /\ i # J.new => disk'.manifests[i] = disk.manifests[i]
  BY <1>5 DEF HasManifest
<1>7. ~HasManifest(J.new)
  BY <1>1 DEF StoreInv, Copying, At
<1>8. NetListed'
  BY <1>4, <1>5, <1>6, <1>7 DEF KeepInv, NetListed, Listed
<1>9. ReadRight'
  BY <1>1, <1>4, <1>6 DEF KeepInv, ReadRight, Good, Noted
<1>10. Good(r)'
  <2>1. J.calm => J.copy = world
    BY <1>1, <1>2 DEF Good, OneMoment, Copies
  <2>2. OneMoment(r)'
    BY <1>1, <1>2, <1>4, <2>1 DEF Good, OneMoment
  <2>3. Filed(r)'
    BY <1>2, <1>6 DEF Filed
  <2>4. Suited(r)' /\ Undisturbed(r)' /\ Noted(r)' /\ WrittenBack(r)'
    BY <1>1, <1>2, <1>4 DEF Good, Suited, Undisturbed, Noted, WrittenBack
  <2> QED
    BY <2>2, <2>3, <2>4 DEF Good
<1> QED
  BY <1>1, <1>2, <1>4, <1>8, <1>9, <1>10, MoverKeeps DEF Waiting

\* The snapshot just taken is not beyond what is kept.
LEMMA NewestStays ==
  ASSUME TypeOK, StoreInv, NEW j \in Jobs, At(j, "index"), job[j].new = count.taken
  PROVE  Surplus(j) \subseteq Ids /\ job[j].new \notin Surplus(j)
<1> DEFINE index == disk.index \cup {job[j].new}
<1>1. job[j].new \in Ids /\ index \subseteq Ids
  BY DEF StoreInv, Named, At, TypeOK
<1>2. \A k \in index : k <= job[j].new
  BY <1>1 DEF StoreInv, Numbered, Ids
<1>3. {k \in index : k > job[j].new} = {}
  BY <1>1, <1>2 DEF Ids
<1>4. Cardinality({}) = 0
  BY FS_EmptySet
<1>5. Surplus(j) = IF job[j].kind = "backup" /\ Keep > 0
                     THEN {i \in index : Cardinality({k \in index : k > i}) >= Keep} ELSE {}
  BY DEF Surplus
<1> HIDE DEF index
<1>6. ASSUME job[j].new \in Surplus(j) PROVE FALSE
  <2>1. Keep > 0 /\ Cardinality({k \in index : k > job[j].new}) >= Keep
    BY <1>5, <1>6
  <2> QED
    BY <2>1, <1>3, <1>4, KeepAssumption
<1> QED
  BY <1>1, <1>5, <1>6

\* A snapshot is listed.
LEMMA IndexKeeps ==
  ASSUME TypeOK, StoreInv, KeepInv, NEW j \in Jobs, WritesIndex(j)
  PROVE  KeepInv'
<1> DEFINE J == job[j]
<1>1. J \in Job /\ J.pc = "index" /\ Good(J)
  BY JobsTyped DEF WritesIndex, At, KeepInv
<1>2. HasManifest(J.new) /\ J.new \notin Surplus(j) /\ Surplus(j) \subseteq Ids
  BY <1>1, NewestStays DEF StoreInv, Copying, At, Readable, Good, Suited
<1>3. PICK r \in Job : /\ job' = [job EXCEPT ![j] = r] /\ r.kind = J.kind /\ r.new = J.new
                       /\ r.calm = J.calm /\ r.gone = Surplus(j)
                       /\ r.pc \in {"check", "unlink", "done"} /\ (r.pc = "check" <=> r.kind = "restore")
  <2>1. PICK pc \in {"check", "unlink", "done"} :
          /\ pc = CASE J.kind = "restore" -> "check"
                    [] J.kind # "restore" /\ Surplus(j) = {} -> "done"
                    [] OTHER -> "unlink"
          /\ pc = "check" <=> J.kind = "restore"
    OBVIOUS
  <2> DEFINE q == [J EXCEPT !.gone = Surplus(j), !.copy = Nothing, !.asOf = Nothing, !.pc = pc]
  <2>2. job' = [job EXCEPT ![j] = q]
    BY <2>1 DEF WritesIndex
  <2>3. Nothing \in Copies
    BY DEF Nothing, Copies
  <2>4. /\ q \in Job /\ q.kind = J.kind /\ q.new = J.new /\ q.calm = J.calm
        /\ q.gone = Surplus(j) /\ q.pc = pc
    BY <1>1, <1>2, <2>3 DEF Job, PCs
  <2> HIDE DEF q
  <2> QED
    BY <2>1, <2>2, <2>4
<1>4. /\ UNCHANGED <<world, readBy, server, saving, net, count>> /\ UNCHANGED Locks
      /\ disk'.manifests = disk.manifests /\ disk'.index = disk.index \cup {J.new}
  BY DEF WritesIndex, Folder, Game, Locks, TypeOK
<1>5. ReadRight' /\ NetListed'
  BY <1>4 DEF KeepInv, ReadRight, NetListed, HasManifest, Listed
<1>6. Good(r)'
  <2>1. Suited(r)' /\ Undisturbed(r)' /\ Noted(r)' /\ WrittenBack(r)'
    BY <1>1, <1>3, <1>4 DEF Good, Suited, Undisturbed, Noted, WrittenBack
  <2>2. OneMoment(r)'
    BY <1>1, <1>3, <1>4 DEF Good, OneMoment, Filed
  <2>3. Filed(r)'
    BY <1>2, <1>3, <1>4 DEF Filed, HasManifest, Listed
  <2> QED
    BY <2>1, <2>2, <2>3 DEF Good
<1> QED
  BY <1>1, <1>3, <1>4, <1>5, <1>6, MoverKeeps DEF Waiting

\* A manifest is removed, and whoever counted on it told.
LEMMA UnlinkKeeps ==
  ASSUME TypeOK, KeepInv, NEW j \in Jobs, NEW i \in Ids, Unlinks(j, i)
  PROVE  KeepInv'
<1>1. PICK r \in Job : r = job[j]
  BY JobsTyped
<1>2. job' = [job EXCEPT ![j] = r] /\ r.pc = "unlink" /\ i \in r.gone /\ Good(r)
  BY <1>1 DEF Unlinks, At, KeepInv, TypeOK
<1>3. /\ UNCHANGED <<world, readBy, server, saving, count>> /\ UNCHANGED Locks
      /\ net' = IF net.id = i THEN NoNet ELSE net
      /\ disk'.manifests = [x \in DOMAIN disk.manifests \ {i} |-> disk.manifests[x]]
      /\ disk'.index = disk.index
  BY DEF Unlinks, Folder, Game, Locks, TypeOK
<1>4. /\ \A x : HasManifest(x)' <=> HasManifest(x) /\ x # i
      /\ \A x : HasManifest(x) /\ x # i => disk'.manifests[x] = disk.manifests[x]
  BY <1>3 DEF HasManifest
<1>5. ReadRight'
  BY <1>3, <1>4 DEF KeepInv, ReadRight
<1>6. NetListed'
  BY <1>3, <1>4 DEF KeepInv, NetListed, Listed, NoNet
<1>7. Good(r)'
  BY <1>2, <1>3, <1>4 DEF Good, Suited, Undisturbed, OneMoment, Filed, Noted, WrittenBack, Listed
<1> QED
  BY <1>1, <1>2, <1>3, <1>5, <1>6, <1>7, MoverKeeps DEF Waiting

\* What has no manifest any more leaves the index.
LEMMA UnlistKeeps ==
  ASSUME TypeOK, KeepInv, NEW j \in Jobs, Unlists(j)
  PROVE  KeepInv'
<1> DEFINE J == job[j]
<1>1. J \in Job /\ J.pc = "unlink" /\ Good(J)
  BY JobsTyped DEF Unlists, At, KeepInv
<1>2. PICK r \in Job : /\ job' = [job EXCEPT ![j] = r] /\ r.kind = J.kind /\ r.pc = "collect"
                       /\ r.new = J.new /\ r.gone = J.gone
  <2> DEFINE q == [J EXCEPT !.pc = "collect"]
  <2>1. q \in Job /\ q.kind = J.kind /\ q.pc = "collect" /\ q.new = J.new /\ q.gone = J.gone
    BY <1>1 DEF Job, PCs
  <2>2. job' = [job EXCEPT ![j] = q]
    BY DEF Unlists, Goes
  <2> HIDE DEF q
  <2> QED
    BY <2>1, <2>2
<1>3. /\ UNCHANGED <<world, readBy, server, saving, net, count>> /\ UNCHANGED Locks
      /\ disk'.manifests = disk.manifests /\ disk'.index = disk.index \ J.gone
      /\ J.gone \cap DOMAIN disk.manifests = {}
  BY DEF Unlists, Folder, Game, Locks, TypeOK
<1>4. ReadRight' /\ NetListed'
  BY <1>3 DEF KeepInv, ReadRight, NetListed, HasManifest, Listed
<1>5. Good(r)'
  BY <1>1, <1>2, <1>3 DEF Good, Suited, Undisturbed, OneMoment, Filed, Noted, WrittenBack,
                          HasManifest, Listed
<1> QED
  BY <1>1, <1>2, <1>3, <1>4, <1>5, MoverKeeps DEF Waiting

\* Only objects are collected.
LEMMA CollectKeeps ==
  ASSUME TypeOK, KeepInv, NEW j \in Jobs, Collects(j)
  PROVE  KeepInv'
<1> DEFINE J == job[j]
<1>1. J \in Job /\ J.pc = "collect" /\ Good(J)
  BY JobsTyped DEF Collects, At, KeepInv
<1>2. PICK r \in Job : /\ job' = [job EXCEPT ![j] = r] /\ r.kind = J.kind
                       /\ r.pc \in {"collect", "done"} /\ r.new = J.new /\ r.gone = J.gone
  <2>1. CASE UNCHANGED job
    <3>1. job' = [job EXCEPT ![j] = J]
      BY <2>1 DEF TypeOK
    <3> QED
      BY <1>1, <3>1
  <2>2. CASE Goes(j, "done")
    <3> DEFINE q == [J EXCEPT !.pc = "done"]
    <3>1. q \in Job /\ q.kind = J.kind /\ q.pc = "done" /\ q.new = J.new /\ q.gone = J.gone
      BY <1>1 DEF Job, PCs
    <3>2. job' = [job EXCEPT ![j] = q]
      BY <2>2 DEF Goes
    <3> HIDE DEF q
    <3> QED
      BY <3>1, <3>2
  <2> QED
    BY <2>1, <2>2 DEF Collects
<1>3. /\ UNCHANGED <<world, readBy, server, saving, net, count>> /\ UNCHANGED Locks
      /\ disk'.manifests = disk.manifests /\ disk'.index = disk.index
  BY DEF Collects, Folder, Game, Locks, TypeOK
<1>4. ReadRight' /\ NetListed'
  BY <1>3, SameBooks
<1>5. Good(r)'
  BY <1>1, <1>2, <1>3 DEF Good, Suited, Undisturbed, OneMoment, Filed, Noted, WrittenBack,
                          HasManifest, Listed
<1> QED
  BY <1>1, <1>2, <1>3, <1>4, <1>5, MoverKeeps DEF Waiting

\* The folder is emptied; what was in it has just been stored.
LEMMA WipeKeeps ==
  ASSUME TypeOK, KeepInv, NEW j \in Jobs, Wipes(j)
  PROVE  KeepInv'
<1> DEFINE J == job[j]
<1>1. J \in Job /\ J.pc = "check" /\ Good(J)
  BY JobsTyped DEF Wipes, At, KeepInv
<1>2. disk.manifests[J.id] \in Copies
  BY ManifestsTyped DEF Wipes, Readable, HasManifest, TypeOK
<1>3. PICK r \in Job : /\ job' = [job EXCEPT ![j] = r] /\ r.kind = J.kind /\ r.pc = "write"
                       /\ r.left = Files
  <2> DEFINE q == [J EXCEPT !.pc = "write", !.left = Files, !.copy = disk.manifests[J.id]]
  <2>1. q \in Job /\ q.kind = J.kind /\ q.pc = "write" /\ q.left = Files
    BY <1>1, <1>2 DEF Job, PCs
  <2>2. job' = [job EXCEPT ![j] = q]
    BY DEF Wipes
  <2> HIDE DEF q
  <2> QED
    BY <2>1, <2>2
<1>4. /\ UNCHANGED <<disk, server, saving, count>> /\ UNCHANGED Locks
      /\ net' = IF J.calm THEN [id |-> J.new, was |-> world] ELSE NoNet
      /\ \A f \in Files : readBy'[f] = {}
  BY DEF Wipes, Game, Locks
<1>5. ReadRight'
  BY <1>4 DEF ReadRight
<1>6. NetListed'
  BY <1>1, <1>4 DEF NetListed, NoNet, Good, OneMoment, Filed, HasManifest, Listed
<1>7. Good(r)'
  BY <1>1, <1>3, <1>4 DEF Good, Suited, Undisturbed, OneMoment, Filed, Noted, WrittenBack
<1> QED
  BY <1>1, <1>3, <1>4, <1>5, <1>6, <1>7, MoverKeeps DEF Waiting

\* One file comes back.
LEMMA WriteKeeps ==
  ASSUME TypeOK, KeepInv, NEW j \in Jobs, NEW f \in Files, WritesBack(j, f)
  PROVE  KeepInv'
<1> DEFINE J == job[j]
<1>1. J \in Job /\ J.pc = "write" /\ Good(J)
  BY JobsTyped DEF WritesBack, At, KeepInv
<1>2. PICK r \in Job : /\ job' = [job EXCEPT ![j] = r] /\ r.kind = J.kind /\ r.copy = J.copy
                       /\ r.left = J.left \ {f} /\ r.pc \in {"write", "done"}
                       /\ r.pc = "done" => r.left = {}
  <2>1. PICK pc \in {"write", "done"} : pc = IF J.left = {f} THEN "done" ELSE J.pc
    BY <1>1
  <2> DEFINE q == [J EXCEPT !.left = @ \ {f}, !.pc = pc]
  <2>2. /\ q \in Job /\ q.kind = J.kind /\ q.copy = J.copy /\ q.left = J.left \ {f} /\ q.pc = pc
    BY <1>1 DEF Job, PCs
  <2>3. job' = [job EXCEPT ![j] = q]
    BY <2>1 DEF WritesBack, TypeOK
  <2> HIDE DEF q
  <2> QED
    BY <1>1, <2>1, <2>2, <2>3
<1>3. /\ UNCHANGED <<readBy, disk, server, saving, net, count>> /\ UNCHANGED Locks
      /\ world' = [world EXCEPT ![f] = J.copy[f]]
  BY DEF WritesBack, Game, Locks
<1>4. J.copy \in Copies /\ world \in Copies
  BY <1>1 DEF Job, TypeOK
<1>5. \A g \in Files : readBy[g] = {}
  BY <1>1 DEF Good, Noted
<1>6. ReadRight' /\ NetListed'
  BY <1>3, <1>5 DEF KeepInv, ReadRight, NetListed, HasManifest, Listed
<1>7. \A g \in Files \ r.left : world'[g] = r.copy[g]
  BY <1>1, <1>2, <1>3, <1>4 DEF Good, WrittenBack, Copies
<1>8. r.pc = "done" => world' = r.copy
  <2>1. world' \in Copies
    BY <1>3, <1>4 DEF Copies
  <2> QED
    BY <1>2, <1>4, <1>7, <2>1 DEF Copies
<1>9. Good(r)'
  BY <1>1, <1>2, <1>3, <1>5, <1>7, <1>8
  DEF Good, Suited, Undisturbed, OneMoment, Filed, Noted, WrittenBack
<1> QED
  BY <1>1, <1>2, <1>3, <1>6, <1>9, MoverKeeps DEF Waiting

\* What copies, restores and removals may count on, whoever else is at work.
LEMMA MomentStep ==
  IInv /\ KeepInv /\ [Next]_vars => KeepInv'
<1> SUFFICES ASSUME IInv, KeepInv, [Next]_vars PROVE KeepInv'
  OBVIOUS
<1>1. TypeOK /\ Named /\ StoreInv
  BY DEF IInv, TypeInv
<1>2. CASE UNCHANGED vars
  <2>1. UNCHANGED <<world, readBy, server, saving, disk, job, srvLock, backupLock, net, count>>
    BY <1>2 DEF vars
  <2>2. Owned' /\ ReadRight' /\ NetListed'
    BY <2>1 DEF KeepInv, Owned, ReadRight, NetListed, HasManifest, Listed
  <2>3. ASSUME NEW k \in Jobs PROVE Good(job[k])'
    BY <2>1 DEF KeepInv, Good, Suited, Undisturbed, OneMoment, Filed, Noted, WrittenBack,
                HasManifest, Listed
  <2> QED
    BY <2>2, <2>3 DEF KeepInv
<1>3. CASE ServerMoves \/ AgentDies
  BY <1>1, <1>3, GameKeeps, DeathKeeps
<1>4. ASSUME NEW j \in Jobs, Requested(j) \/ JobMoves(j) \/ TakeFails(j) \/ \E f \in Files : Skips(j, f)
      PROVE  KeepInv'
  <2>1. CASE Requested(j) \/ LocksServer(j)
    BY <1>1, <2>1, WaiterKeeps
  <2>2. CASE \/ LocksForBackup(j) \/ LocksForRestore(j) \/ LocksForDelete(j)
             \/ RestoreRefused(j) \/ TakeFails(j) \/ Finishes(j)
    BY <1>1, <2>2, LockKeeps
  <2>3. CASE Stops(j) \/ BeginsCopy(j)
    BY <1>1, <2>3, StopKeeps, BeginKeeps
  <2>4. CASE \E f \in Files : CopiesOne(j, f) \/ Skips(j, f) \/ WritesBack(j, f)
    BY <1>1, <2>4, CopyKeeps, SkipKeeps, WriteKeeps
  <2>5. CASE WritesManifest(j) \/ WritesIndex(j)
    BY <1>1, <2>5, ManifestKeeps, IndexKeeps
  <2>6. CASE Unlists(j) \/ Collects(j) \/ Wipes(j) \/ \E i \in Ids : Unlinks(j, i)
    BY <1>1, <2>6, UnlistKeeps, CollectKeeps, WipeKeeps, UnlinkKeeps
  <2> QED
    BY <1>4, <2>1, <2>2, <2>3, <2>4, <2>5, <2>6 DEF JobMoves
<1> QED
  BY <1>2, <1>3, <1>4 DEF Next

LEMMA MomentHolds == Spec => [](IInv /\ KeepInv)
<1>1. Init => KeepInv
  BY DEF Init, KeepInv, Owned, Waiting, Good, Suited, Undisturbed, OneMoment, Filed, Noted,
         WrittenBack, ReadRight, NetListed, NoNet, Resting
<1> QED
  BY <1>1, InitHolds, StepHolds, MomentStep, PTL DEF Spec

\* A backup of a server that was down, or that confirmed its save and was not
\* started meanwhile, is the world at one moment.  The copy goes file by file and
\* takes the hashes of files that seem unchanged from an earlier snapshot, while
\* the game, other backups and removals go on.
THEOREM SnapshotsAreMoments == Spec => []SnapshotIsMoment
<1>1. KeepInv => SnapshotIsMoment
  BY DEF KeepInv, SnapshotIsMoment, Good, OneMoment, At
<1> QED
  BY <1>1, MomentHolds, PTL

\* The world a restore replaced is in the store as a whole, through deaths of the
\* agent, later backups and what they remove, until its own backup is removed.
THEOREM NetIsKept == Spec => []NetHolds
<1>1. IInv /\ KeepInv => NetHolds
  BY DEF IInv, StoreInv, Whole, Listed, KeepInv, NetListed, NetHolds
<1> QED
  BY <1>1, MomentHolds, PTL

\* What is reported done is: a backup is listed and can be read back, although it
\* has gone on to remove others; a restore has made the folder the snapshot.
THEOREM DoneIsDone == Spec => []DoneMeansDone
<1>1. IInv /\ KeepInv => DoneMeansDone
  BY DEF IInv, StoreInv, Whole, Listed, KeepInv, Good, Filed, WrittenBack, DoneMeansDone, At
<1> QED
  BY <1>1, MomentHolds, PTL

-----------------------------------------------------------------------------
(***************************************************************************)
(* ModRecords: what is recorded of a jar is what it is.                    *)
(***************************************************************************)
\* It is CurseForge, Modrinth or the jar itself that knows a content; no jar is not a content.
RecordSizes ==
  /\ KnownTo \subseteq [JarContents -> SUBSET {"cf", "mr", "meta"}]
  /\ Recording!NoJar \notin JarContents
  /\ MaxVersion \in Nat

Blobs == UNION {[D -> JarContents] : D \in SUBSET Recording!Entries}
Founds == UNION {[D -> Recording!Records] : D \in SUBSET Recording!Entries}
Readings == {<<>>} \cup [JarNames -> Recording!Records]
Identifications ==
  [pc : {"idle", "read", "cf", "mr", "names", "save", "write", "done"},
   want : SUBSET Recording!Entries, tried : SUBSET Recording!Entries,
   blobs : Blobs, found : Founds, failed : SUBSET {"cf", "mr"}, seen : Readings]
OtherJobs ==
  [pc : {"idle", "read", "write"}, op : {"none", "add", "delete", "icons"},
   name : JarNames \cup {""}, jar : JarContents \cup {Recording!NoJar}, seen : Readings]

RecordTypes ==
  /\ knows \in [JarContents -> SUBSET {"cf", "mr", "meta"}]
  /\ modFolder \in [Recording!Entries -> JarContents \cup {Recording!NoJar}]
  /\ jarRecords \in [JarNames -> Recording!Records]
  /\ identifying \in Identifications
  /\ otherJob \in OtherJobs
  /\ touched \subseteq JarNames /\ recorded \subseteq JarNames /\ crossed \in BOOLEAN

\* There is a jar of that content under the name, switched on or off.
Lies(n, c) == \E on \in BOOLEAN : modFolder[<<n, on>>] = c

\* What was read of a jar that nobody has touched since is still there under its name.
ReadIsThere == \A f \in DOMAIN identifying.blobs :
  f[1] \notin touched => Lies(f[1], identifying.blobs[f])
\* A match is of a file that was read, by one who knows its content.
MatchesHold ==
  /\ DOMAIN identifying.found \subseteq DOMAIN identifying.blobs
  /\ \A f \in DOMAIN identifying.found :
       /\ identifying.found[f].by \in {"cf", "mr"}
       /\ identifying.found[f].jar = identifying.blobs[f]
  /\ identifying.pc = "read" => DOMAIN identifying.found = {}
\* One of the files with a content has a match, when somebody who answered knows it.
HasMatch(f) == \E g \in DOMAIN identifying.found : identifying.blobs[g] = identifying.blobs[f]
AllAsked == \A f \in DOMAIN identifying.blobs :
  /\ identifying.pc \in {"mr", "names", "save", "write", "done"} =>
       ("cf" \in knows[identifying.blobs[f]] \ identifying.failed => HasMatch(f))
  /\ identifying.pc \in {"names", "save", "write", "done"} =>
       ("mr" \in knows[identifying.blobs[f]] \ identifying.failed => HasMatch(f))
\* Whoever adds or deletes a mod has touched its jar, and a deleted one is not on record.
OtherIsMarked ==
  /\ otherJob.pc # "idle" => otherJob.op # "none"
  /\ otherJob.op \in {"add", "delete"} => otherJob.name \in touched /\ otherJob.name \in JarNames
  /\ otherJob.op = "add" => otherJob.jar \in JarContents
  /\ otherJob.op = "delete" => otherJob.name \notin recorded
  /\ otherJob.pc = "write" => otherJob.seen \in [JarNames -> Recording!Records]
  /\ identifying.pc = "write" => identifying.seen \in [JarNames -> Recording!Records]
\* Unless two writers met, each has what the manifest says.
BothAreFresh ==
  /\ otherJob.pc = "write" => otherJob.seen = jarRecords
  /\ identifying.pc = "write" => identifying.seen = jarRecords
\* What the manifest says of a jar: what it says of itself is what it is; a file that is being
\* identified has no match on record, and then the one that was found.
LocalsAreTrue == \A n \in JarNames \ touched :
  jarRecords[n].by = "local" => Lies(n, jarRecords[n].jar)
StillUnknown == identifying.pc \in {"read", "cf", "mr", "names", "save", "write"} =>
  \A n \in Recording!NamesOf(identifying.want) \ touched : jarRecords[n].by \notin {"cf", "mr"}
NowRecorded == identifying.pc = "done" =>
  /\ \A n \in Recording!NamesOf(identifying.want) \ touched :
       jarRecords[n] # Recording!None => Lies(n, jarRecords[n].jar)
  /\ \A f \in DOMAIN identifying.found :
       f[1] \notin touched => jarRecords[f[1]].by \in {"cf", "mr"}
NoneIsLost == \A n \in recorded : jarRecords[n] # Recording!None

IdentifyInv ==
  /\ RecordTypes /\ ReadIsThere /\ MatchesHold /\ AllAsked /\ OtherIsMarked
  /\ ~crossed => BothAreFresh /\ LocalsAreTrue /\ StillUnknown /\ NowRecorded /\ NoneIsLost

-----------------------------------------------------------------------------
(* Functions and names.                                                    *)

\* The function of nothing.
LEMMA EmptyFunction ==
  /\ \A S, X : <<>> \in UNION {[D -> X] : D \in SUBSET S}
  /\ DOMAIN <<>> = {}
PROOF
<1>1. ASSUME NEW S, NEW X PROVE <<>> \in UNION {[D -> X] : D \in SUBSET S}
  <2>1. <<>> \in [{} -> X]
    OBVIOUS
  <2> QED
    BY <2>1
<1> QED
  BY <1>1

\* A function updated with another.
LEMMA Overwritten ==
  ASSUME NEW new, NEW old
  PROVE  /\ DOMAIN Recording!Over(new, old) = DOMAIN new \cup DOMAIN old
         /\ \A x \in DOMAIN new : Recording!Over(new, old)[x] = new[x]
         /\ \A x \in DOMAIN old \ DOMAIN new : Recording!Over(new, old)[x] = old[x]
BY DEF Recording!Over

LEMMA OverwrittenType ==
  ASSUME NEW S, NEW X, NEW new \in UNION {[D -> X] : D \in SUBSET S},
         NEW old \in UNION {[D -> X] : D \in SUBSET S}
  PROVE  Recording!Over(new, old) \in UNION {[D -> X] : D \in SUBSET S}
PROOF
<1> DEFINE o == Recording!Over(new, old)
           E == DOMAIN new \cup DOMAIN old
<1>1. PICK A \in SUBSET S : new \in [A -> X]
  OBVIOUS
<1>2. PICK B \in SUBSET S : old \in [B -> X]
  OBVIOUS
<1>3. o = [x \in A \cup B |-> IF x \in A THEN new[x] ELSE old[x]]
  BY <1>1, <1>2 DEF Recording!Over
<1>4. o \in [A \cup B -> X] /\ A \cup B \in SUBSET S
  BY <1>1, <1>2, <1>3
<1> QED
  BY <1>4

\* Files are names with a switch.
LEMMA EntriesArePairs ==
  /\ \A f \in Recording!Entries :
       f[1] \in JarNames /\ f[2] \in BOOLEAN /\ f = <<f[1], f[2]>> /\ <<f[1], ~f[2]>> \in Recording!Entries
  /\ \A n \in JarNames, on \in BOOLEAN :
       <<n, on>> \in Recording!Entries /\ <<n, on>>[1] = n /\ <<n, on>>[2] = on
PROOF
<1>1. ASSUME NEW f \in Recording!Entries
      PROVE  /\ f[1] \in JarNames /\ f[2] \in BOOLEAN /\ f = <<f[1], f[2]>>
             /\ <<f[1], ~f[2]>> \in Recording!Entries
  <2>1. f[1] \in JarNames /\ f[2] \in BOOLEAN /\ f = <<f[1], f[2]>>
    BY DEF Recording!Entries
  <2>2. \A b \in BOOLEAN : (~b) \in BOOLEAN
    OBVIOUS
  <2> QED
    BY <2>1, <2>2 DEF Recording!Entries
<1>2. ASSUME NEW n \in JarNames, NEW on \in BOOLEAN
      PROVE  <<n, on>> \in Recording!Entries /\ <<n, on>>[1] = n /\ <<n, on>>[2] = on
  <2>1. <<n, on>> \in JarNames \X BOOLEAN
    BY ZenonT(30)
  <2> QED
    BY <2>1 DEF Recording!Entries
<1> QED
  BY <1>1, <1>2

LEMMA NamesAreFirst ==
  ASSUME NEW files \in SUBSET Recording!Entries
  PROVE  /\ Recording!NamesOf(files) \subseteq JarNames
         /\ \A f \in files : f[1] \in Recording!NamesOf(files)
         /\ \A n \in Recording!NamesOf(files) : \E f \in files : f[1] = n
PROOF
<1>1. \A n : n \in Recording!NamesOf(files) <=> \E f \in files : n = f[1]
  BY DEF Recording!NamesOf
<1>2. \A f \in files : f[1] \in JarNames
  BY EntriesArePairs
<1> QED
  BY <1>1, <1>2

\* What is of its type.
LEMMA RecordsTyped ==
  ASSUME RecordTypes
  PROVE  /\ DOMAIN identifying.blobs \subseteq Recording!Entries
         /\ \A f \in DOMAIN identifying.blobs : identifying.blobs[f] \in JarContents
         /\ DOMAIN identifying.found \subseteq Recording!Entries
         /\ \A f \in DOMAIN identifying.found : identifying.found[f] \in Recording!Records
         /\ identifying.want \subseteq Recording!Entries
         /\ identifying.failed \subseteq {"cf", "mr"}
PROOF
<1>1. identifying.blobs \in Blobs /\ identifying.found \in Founds
  BY DEF RecordTypes, Identifications
<1>2. PICK D \in SUBSET Recording!Entries : identifying.blobs \in [D -> JarContents]
  BY <1>1 DEF Blobs
<1>3. PICK E \in SUBSET Recording!Entries : identifying.found \in [E -> Recording!Records]
  BY <1>1 DEF Founds
<1> QED
  BY <1>2, <1>3 DEF RecordTypes, Identifications

LEMMA RecordsAre ==
  /\ Recording!None \in Recording!Records /\ Recording!None.by = "none"
  /\ \A r \in Recording!Records :
       \/ r = Recording!None
       \/ r.by \in {"cf", "mr", "local"} /\ r.jar \in JarContents /\ r # Recording!None
  /\ \A by \in {"cf", "mr", "local"}, c \in JarContents :
       [by |-> by, jar |-> c] \in Recording!Records /\ [by |-> by, jar |-> c] # Recording!None
BY DEF Recording!Records, Recording!None

-----------------------------------------------------------------------------
(* The identification.                                                     *)

LEMMA NoIdTyped ==
  /\ Recording!NoId \in Identifications /\ Recording!NoId.pc = "idle"
  /\ DOMAIN Recording!NoId.blobs = {} /\ DOMAIN Recording!NoId.found = {}
PROOF
<1>1. <<>> \in Blobs /\ <<>> \in Founds /\ <<>> \in Readings /\ DOMAIN <<>> = {}
  BY EmptyFunction DEF Blobs, Founds, Readings
<1> QED
  BY <1>1 DEF Identifications, Recording!NoId

LEMMA NothingIdentified ==
  ASSUME RecordSizes, Recording!Init
  PROVE  IdentifyInv
PROOF
<1>1. identifying = Recording!NoId /\ otherJob = Recording!NoOther
  BY DEF Recording!Init
<1>2. otherJob \in OtherJobs /\ otherJob.pc = "idle" /\ otherJob.op = "none"
  BY <1>1 DEF Recording!NoOther, OtherJobs, Readings
<1>3. modFolder \in [Recording!Entries -> JarContents \cup {Recording!NoJar}]
  <2>1. PICK jars \in [JarNames -> JarContents] :
          modFolder = [f \in Recording!Entries |-> IF f[2] THEN jars[f[1]] ELSE Recording!NoJar]
    BY DEF Recording!Init
  <2>2. \A f \in Recording!Entries : jars[f[1]] \in JarContents
    BY <2>1, EntriesArePairs
  <2> QED
    BY <2>1, <2>2
<1>4. jarRecords \in [JarNames -> Recording!Records] /\ \A n \in JarNames : jarRecords[n].by = "none"
  BY RecordsAre DEF Recording!Init
<1>5. RecordTypes
  BY <1>1, <1>2, <1>3, <1>4, NoIdTyped DEF Recording!Init, RecordTypes, RecordSizes
<1>6. ReadIsThere /\ MatchesHold /\ AllAsked
  BY <1>1, NoIdTyped DEF ReadIsThere, MatchesHold, AllAsked
<1>7. OtherIsMarked /\ BothAreFresh /\ StillUnknown /\ NowRecorded
  BY <1>1, <1>2, NoIdTyped DEF OtherIsMarked, BothAreFresh, StillUnknown, NowRecorded
<1>8. LocalsAreTrue /\ NoneIsLost
  BY <1>4 DEF LocalsAreTrue, NoneIsLost, Recording!Init
<1> QED
  BY <1>5, <1>6, <1>7, <1>8 DEF IdentifyInv

\* Whatever changes neither a jar nor a record leaves what is said of them.
LEMMA IdentifyStays ==
  ASSUME IdentifyInv,
         UNCHANGED <<knows, modFolder, jarRecords, identifying, otherJob, touched, recorded, crossed>>
  PROVE  IdentifyInv'
PROOF
<1>1. RecordTypes' /\ ReadIsThere' /\ MatchesHold' /\ AllAsked' /\ OtherIsMarked'
  BY DEF IdentifyInv, RecordTypes, ReadIsThere, MatchesHold, AllAsked, OtherIsMarked, HasMatch, Lies
<1>2. ~crossed => BothAreFresh' /\ LocalsAreTrue' /\ StillUnknown' /\ NowRecorded' /\ NoneIsLost'
  BY DEF IdentifyInv, BothAreFresh, LocalsAreTrue, StillUnknown, NowRecorded, NoneIsLost, Lies
<1> QED
  BY <1>1, <1>2 DEF IdentifyInv

\* A step of the identification that neither reads nor writes the manifest.
LEMMA GoingOn ==
  ASSUME IdentifyInv, identifying' \in Identifications,
         UNCHANGED <<knows, modFolder, jarRecords, otherJob, touched, recorded, crossed>>,
         identifying.pc \in {"read", "cf", "mr", "names", "save", "write"},
         \/ identifying'.pc = "idle"
         \/ identifying'.pc \in {"read", "cf", "mr", "names", "save"} /\ identifying'.want = identifying.want,
         ReadIsThere', MatchesHold', AllAsked'
  PROVE  IdentifyInv'
PROOF
<1>1. RecordTypes'
  BY DEF IdentifyInv, RecordTypes
<1>2. OtherIsMarked'
  BY DEF IdentifyInv, OtherIsMarked
<1>3. ~crossed => BothAreFresh' /\ NowRecorded'
  BY DEF IdentifyInv, BothAreFresh, NowRecorded
<1>4. ~crossed => LocalsAreTrue' /\ NoneIsLost'
  BY DEF IdentifyInv, LocalsAreTrue, NoneIsLost, Lies
<1>5. ~crossed => StillUnknown'
  BY DEF IdentifyInv, StillUnknown
<1> QED
  BY <1>1, <1>2, <1>3, <1>4, <1>5 DEF IdentifyInv

LEMMA GivingUp ==
  ASSUME IdentifyInv, identifying' = Recording!NoId,
         UNCHANGED <<knows, modFolder, jarRecords, otherJob, touched, recorded, crossed>>,
         identifying.pc \in {"read", "cf", "mr", "names", "save", "write"}
  PROVE  IdentifyInv'
PROOF
<1>1. ReadIsThere' /\ MatchesHold' /\ AllAsked'
  BY NoIdTyped DEF ReadIsThere, MatchesHold, AllAsked
<1> QED
  BY <1>1, NoIdTyped, GoingOn

LEMMA Listing ==
  ASSUME IdentifyInv, Recording!Begins
  PROVE  IdentifyInv'
PROOF
<1> DEFINE unknown == {f \in Recording!Entries :
                         modFolder[f] # Recording!NoJar /\ ~Recording!Known(jarRecords[f[1]])}
           begun == [Recording!NoId EXCEPT !.pc = "read", !.want = unknown]
<1>1. /\ identifying' = begun
      /\ UNCHANGED <<knows, modFolder, otherJob, recorded, jarRecords, crossed>>
      /\ touched' = {n \in touched : jarRecords[n].by = "local"}
                       \cup {n \in {otherJob.name} : otherJob.op \in {"add", "delete"}}
  BY DEF Recording!Begins
<1>2. /\ begun \in Identifications /\ begun.pc = "read" /\ begun.want = unknown
      /\ DOMAIN begun.blobs = {} /\ DOMAIN begun.found = {}
  BY NoIdTyped DEF Identifications, Recording!NoId
<1> HIDE DEF begun
<1>3. touched' \subseteq JarNames
  BY <1>1 DEF IdentifyInv, RecordTypes, OtherIsMarked
<1>4. RecordTypes'
  BY <1>1, <1>2, <1>3 DEF IdentifyInv, RecordTypes
<1>5. ReadIsThere' /\ MatchesHold' /\ AllAsked'
  BY <1>1, <1>2 DEF ReadIsThere, MatchesHold, AllAsked
<1>6. OtherIsMarked'
  BY <1>1, <1>2 DEF IdentifyInv, OtherIsMarked
<1>7. ~crossed => BothAreFresh' /\ NowRecorded' /\ NoneIsLost'
  BY <1>1, <1>2 DEF IdentifyInv, BothAreFresh, NowRecorded, NoneIsLost
<1>8. ~crossed => LocalsAreTrue'
  BY <1>1 DEF IdentifyInv, LocalsAreTrue, Lies
<1>9. \A n \in Recording!NamesOf(unknown) : jarRecords[n].by \notin {"cf", "mr"}
  BY DEF Recording!NamesOf, Recording!Known
<1>10. StillUnknown'
  BY <1>1, <1>2, <1>9 DEF StillUnknown
<1> QED
  BY <1>1, <1>4, <1>5, <1>6, <1>7, <1>8, <1>10 DEF IdentifyInv

LEMMA Fetching ==
  ASSUME IdentifyInv, NEW f \in Recording!Entries, Recording!Fetches(f)
  PROVE  IdentifyInv'
PROOF
<1>1. /\ identifying.pc = "read" /\ f \in identifying.want
      /\ UNCHANGED <<knows, modFolder, jarRecords, otherJob, touched, recorded, crossed>>
  BY DEF Recording!Fetches, Recording!idOnly
<1>2. identifying \in Identifications /\ DOMAIN identifying.found = {} /\ identifying.blobs \in Blobs
  BY <1>1 DEF IdentifyInv, RecordTypes, MatchesHold, Identifications
<1>3. CASE /\ modFolder[f] # Recording!NoJar
           /\ identifying' = [identifying EXCEPT !.tried = @ \cup {f},
                                !.blobs = Recording!Over([g \in {f} |-> modFolder[f]], @)]
  <2> DEFINE new == [g \in {f} |-> modFolder[f]]
             b == Recording!Over(new, identifying.blobs)
  <2>1. modFolder[f] \in JarContents
    BY <1>3 DEF IdentifyInv, RecordTypes
  <2>2. new \in Blobs
    <3>1. new \in [{f} -> JarContents] /\ {f} \in SUBSET Recording!Entries
      BY <2>1
    <3> QED
      BY <3>1 DEF Blobs
  <2>3. b \in Blobs
    BY ZenonT(40), <1>2, <2>2, OverwrittenType DEF Blobs
  <2>4. /\ DOMAIN b = {f} \cup DOMAIN identifying.blobs /\ b[f] = modFolder[f]
        /\ \A x \in DOMAIN identifying.blobs \ {f} : b[x] = identifying.blobs[x]
    BY DEF Recording!Over
  <2> HIDE DEF b
  <2>5. /\ identifying' \in Identifications /\ identifying'.pc = "read"
        /\ identifying'.want = identifying.want /\ identifying'.blobs = b
        /\ identifying'.found = identifying.found
    BY <1>1, <1>2, <1>3, <2>3 DEF Identifications, b
  <2>6. ReadIsThere'
    <3> SUFFICES ASSUME NEW x \in DOMAIN b, x[1] \notin touched
                 PROVE  \E on \in BOOLEAN : modFolder[<<x[1], on>>] = b[x]
      BY <1>1, <2>5 DEF ReadIsThere, Lies
    <3>1. CASE x = f
      <4>1. f[2] \in BOOLEAN /\ f = <<f[1], f[2]>>
        BY EntriesArePairs
      <4>2. modFolder[<<x[1], f[2]>>] = b[x]
        BY <2>4, <3>1, <4>1
      <4> QED
        BY <4>1, <4>2
    <3>2. CASE x # f
      <4>1. x \in DOMAIN identifying.blobs /\ b[x] = identifying.blobs[x]
        BY <2>4, <3>2
      <4> QED
        BY <4>1 DEF IdentifyInv, ReadIsThere, Lies
    <3> QED
      BY <3>1, <3>2
  <2>7. MatchesHold' /\ AllAsked'
    BY <1>2, <2>5 DEF MatchesHold, AllAsked
  <2> QED
    BY <1>1, <2>5, <2>6, <2>7, GoingOn
<1>4. CASE identifying' = [identifying EXCEPT !.tried = @ \cup {f}]
  <2>1. /\ identifying' \in Identifications /\ identifying'.pc = "read"
        /\ identifying'.want = identifying.want /\ identifying'.blobs = identifying.blobs
        /\ identifying'.found = identifying.found
    BY <1>1, <1>2, <1>4 DEF Identifications
  <2>2. ReadIsThere'
    BY <1>1, <2>1 DEF IdentifyInv, ReadIsThere, Lies
  <2>3. MatchesHold' /\ AllAsked'
    BY <1>2, <2>1 DEF MatchesHold, AllAsked
  <2> QED
    BY <1>1, <2>1, <2>2, <2>3, GoingOn
<1> QED
  BY <1>3, <1>4 DEF Recording!Fetches

\* Of the files with one content, one is asked for.
LEMMA OneIsAskedFor ==
  ASSUME NEW files, NEW S \in Recording!OneOfEach(files), NEW f \in files
  PROVE  S \subseteq files /\ \E g \in S : identifying.blobs[g] = identifying.blobs[f]
PROOF
<1> DEFINE same == {g \in S : identifying.blobs[g] = identifying.blobs[f]}
<1>1. S \subseteq files /\ Recording!Cardinality(same) = 1
  BY DEF Recording!OneOfEach
<1>2. Recording!Cardinality({}) = 0
  <2>1. Cardinality({}) = 0
    BY FS_EmptySet
  <2> QED
    BY <2>1 DEF Cardinality, Recording!Cardinality, IsFiniteSet, Recording!IsFiniteSet
<1>3. same # {}
  BY <1>1, <1>2
<1> QED
  BY <1>1, <1>3

\* An answer names those whose content is known there.
LEMMA KnowersAnswer ==
  ASSUME IdentifyInv, NEW src \in {"cf", "mr"},
         NEW S \in Recording!OneOfEach(DOMAIN identifying.blobs \ DOMAIN identifying.found),
         NEW o, o = Recording!Over(identifying.found, Recording!Matched(S, src))
  PROVE  /\ o \in Founds
         /\ DOMAIN identifying.found \subseteq DOMAIN o /\ DOMAIN o \subseteq DOMAIN identifying.blobs
         /\ \A f \in DOMAIN o : o[f].by \in {"cf", "mr"} /\ o[f].jar = identifying.blobs[f]
         /\ \A f \in DOMAIN identifying.blobs :
              src \in knows[identifying.blobs[f]] =>
                \E g \in DOMAIN o : identifying.blobs[g] = identifying.blobs[f]
PROOF
<1> DEFINE new == Recording!Matched(S, src)
           files == DOMAIN identifying.blobs \ DOMAIN identifying.found
           G == {g \in S : src \in knows[identifying.blobs[g]]}
<1>0. RecordTypes /\ MatchesHold
  BY DEF IdentifyInv
<1>1. S \subseteq files
  BY DEF Recording!OneOfEach
<1>2. /\ DOMAIN new = G
      /\ \A g \in G : new[g] = [by |-> src, jar |-> identifying.blobs[g]]
  BY DEF Recording!Matched
<1>3. \A g \in G : g \in files /\ identifying.blobs[g] \in JarContents /\ g \in Recording!Entries
  BY <1>0, <1>1, RecordsTyped
<1>4. new \in Founds
  <2>1. \A g \in G : [by |-> src, jar |-> identifying.blobs[g]] \in Recording!Records
    BY <1>3, RecordsAre
  <2>2. new = [g \in G |-> [by |-> src, jar |-> identifying.blobs[g]]]
    BY DEF Recording!Matched
  <2>3. new \in [G -> Recording!Records] /\ G \in SUBSET Recording!Entries
    BY <1>3, <2>1, <2>2
  <2> QED
    BY <2>3 DEF Founds
<1> HIDE DEF new
<1>5. o \in Founds
  <2>1. identifying.found \in Founds
    BY <1>0 DEF RecordTypes, Identifications
  <2> QED
    BY <1>4, <2>1, OverwrittenType DEF Founds, new
<1>6. /\ DOMAIN o = G \cup DOMAIN identifying.found
      /\ \A g \in G : o[g] = new[g]
      /\ \A g \in DOMAIN identifying.found \ G : o[g] = identifying.found[g]
  <2>1. /\ DOMAIN o = DOMAIN identifying.found \cup G
        /\ \A g \in DOMAIN identifying.found : o[g] = identifying.found[g]
        /\ \A g \in G \ DOMAIN identifying.found : o[g] = new[g]
    <3> DEFINE E == DOMAIN identifying.found
    <3>1. o = [g \in E \cup G |-> IF g \in E THEN identifying.found[g] ELSE new[g]]
      BY <1>2 DEF Recording!Over, new
    <3> HIDE DEF E, G
    <3>2. /\ DOMAIN o = E \cup G
          /\ \A g \in E : o[g] = identifying.found[g]
          /\ \A g \in G \ E : o[g] = new[g]
      BY <3>1
    <3> QED
      BY <3>2 DEF E
  <2>2. \A g \in G : g \notin DOMAIN identifying.found
    BY <1>3
  <2> QED
    BY <2>1, <2>2
<1>7. \A f \in DOMAIN o : o[f].by \in {"cf", "mr"} /\ o[f].jar = identifying.blobs[f]
  <2>1. ASSUME NEW f \in G PROVE o[f].by \in {"cf", "mr"} /\ o[f].jar = identifying.blobs[f]
    <3>1. o[f] = [by |-> src, jar |-> identifying.blobs[f]]
      BY <1>2, <1>6, <2>1
    <3>2. o[f].by = src /\ o[f].jar = identifying.blobs[f]
      BY <3>1
    <3> QED
      BY <3>2
  <2>2. ASSUME NEW f \in DOMAIN identifying.found \ G
        PROVE  o[f].by \in {"cf", "mr"} /\ o[f].jar = identifying.blobs[f]
    BY <1>0, <1>6, <2>2 DEF MatchesHold
  <2> QED
    BY <1>6, <2>1, <2>2
<1>8. ASSUME NEW f \in DOMAIN identifying.blobs, src \in knows[identifying.blobs[f]]
      PROVE  \E g \in DOMAIN o : identifying.blobs[g] = identifying.blobs[f]
  <2>1. CASE f \in DOMAIN identifying.found
    BY <1>6, <2>1
  <2>2. CASE f \notin DOMAIN identifying.found
    <3>1. f \in files
      BY <2>2, <1>8
    <3>2. PICK g \in S : identifying.blobs[g] = identifying.blobs[f]
      BY <3>1, OneIsAskedFor
    <3>3. g \in G
      BY <1>8, <3>2
    <3> QED
      BY <1>6, <3>2, <3>3
  <2> QED
    BY <2>1, <2>2
<1> QED
  BY <1>0, <1>3, <1>5, <1>6, <1>7, <1>8 DEF MatchesHold

LEMMA AskingAKnower ==
  ASSUME IdentifyInv, NEW src, NEW next, Recording!Asks(src, next),
         \/ src = "cf" /\ next = "mr"
         \/ src = "mr" /\ next = "names"
  PROVE  IdentifyInv'
PROOF
<1>1. /\ identifying.pc = src \/ (src = "cf" /\ identifying.pc = "read")
      /\ UNCHANGED <<knows, modFolder, jarRecords, otherJob, touched, recorded, crossed>>
  BY DEF Recording!Asks, Recording!idOnly
<1>2. RecordTypes /\ identifying \in Identifications /\ MatchesHold /\ AllAsked /\ ReadIsThere
  BY DEF IdentifyInv, RecordTypes
<1>3. ASSUME NEW S \in Recording!OneOfEach(DOMAIN identifying.blobs \ DOMAIN identifying.found),
             identifying' = [identifying EXCEPT !.pc = next,
                               !.found = Recording!Over(@, Recording!Matched(S, src))]
      PROVE  IdentifyInv'
  <2> DEFINE o == Recording!Over(identifying.found, Recording!Matched(S, src))
  <2>1. /\ o \in Founds
        /\ DOMAIN identifying.found \subseteq DOMAIN o /\ DOMAIN o \subseteq DOMAIN identifying.blobs
        /\ \A f \in DOMAIN o : o[f].by \in {"cf", "mr"} /\ o[f].jar = identifying.blobs[f]
        /\ \A f \in DOMAIN identifying.blobs :
             src \in knows[identifying.blobs[f]] =>
               \E g \in DOMAIN o : identifying.blobs[g] = identifying.blobs[f]
    <3> DEFINE D == DOMAIN identifying.blobs \ DOMAIN identifying.found
               Answers(m, by) ==
                 /\ m \in Founds
                 /\ DOMAIN identifying.found \subseteq DOMAIN m /\ DOMAIN m \subseteq DOMAIN identifying.blobs
                 /\ \A f \in DOMAIN m : m[f].by \in {"cf", "mr"} /\ m[f].jar = identifying.blobs[f]
                 /\ \A f \in DOMAIN identifying.blobs :
                      by \in knows[identifying.blobs[f]] =>
                        \E g \in DOMAIN m : identifying.blobs[g] = identifying.blobs[f]
    <3>1. \A by \in {"cf", "mr"} : \A T \in Recording!OneOfEach(D) : \A m :
            m = Recording!Over(identifying.found, Recording!Matched(T, by)) => Answers(m, by)
      BY KnowersAnswer
    <3>2. src \in {"cf", "mr"} /\ S \in Recording!OneOfEach(D)
      BY <1>3
    <3> HIDE DEF D, Answers
    <3>3. Answers(o, src)
      BY <3>1, <3>2
    <3> QED
      BY <3>3 DEF Answers
  <2> HIDE DEF o
  <2>2. /\ identifying' \in Identifications /\ identifying'.pc = next
        /\ identifying'.want = identifying.want /\ identifying'.blobs = identifying.blobs
        /\ identifying'.found = o /\ identifying'.failed = identifying.failed
    BY <1>2, <1>3, <2>1 DEF Identifications, o
  <2>3. ReadIsThere'
    BY <1>1, <1>2, <2>2 DEF ReadIsThere, Lies
  <2>4. MatchesHold'
    BY <2>1, <2>2 DEF MatchesHold
  <2>5. AllAsked'
    <3> SUFFICES ASSUME NEW f \in DOMAIN identifying.blobs
                 PROVE  /\ "cf" \in knows[identifying.blobs[f]] \ identifying.failed =>
                             \E g \in DOMAIN o : identifying.blobs[g] = identifying.blobs[f]
                        /\ next = "names" =>
                             ("mr" \in knows[identifying.blobs[f]] \ identifying.failed =>
                                \E g \in DOMAIN o : identifying.blobs[g] = identifying.blobs[f])
      BY <1>1, <2>2 DEF AllAsked, HasMatch
    <3>1. CASE src = "cf"
      BY <2>1, <3>1
    <3>2. CASE src = "mr"
      <4>1. "cf" \in knows[identifying.blobs[f]] \ identifying.failed => HasMatch(f)
        BY <1>1, <1>2, <3>2 DEF AllAsked
      <4> QED
        BY <2>1, <3>2, <4>1 DEF HasMatch
    <3> QED
      BY <3>1, <3>2
  <2> QED
    BY <1>1, <2>2, <2>3, <2>4, <2>5, GoingOn
<1>4. ASSUME identifying' = [identifying EXCEPT !.pc = next, !.failed = @ \cup {src}]
      PROVE  IdentifyInv'
  <2>1. /\ identifying' \in Identifications /\ identifying'.pc = next
        /\ identifying'.want = identifying.want /\ identifying'.blobs = identifying.blobs
        /\ identifying'.found = identifying.found /\ identifying'.failed = identifying.failed \cup {src}
    BY <1>2, <1>4 DEF Identifications
  <2>2. ReadIsThere' /\ MatchesHold'
    BY <1>1, <1>2, <2>1 DEF ReadIsThere, MatchesHold, Lies
  <2>3. AllAsked'
    <3> SUFFICES ASSUME NEW f \in DOMAIN identifying.blobs
                 PROVE  /\ "cf" \in knows[identifying.blobs[f]] \ identifying'.failed => HasMatch(f)
                        /\ next = "names" =>
                             ("mr" \in knows[identifying.blobs[f]] \ identifying'.failed => HasMatch(f))
      BY <1>1, <2>1 DEF AllAsked, HasMatch
    <3>1. CASE src = "cf"
      BY <2>1, <3>1
    <3>2. CASE src = "mr"
      <4>1. "cf" \in knows[identifying.blobs[f]] \ identifying.failed => HasMatch(f)
        BY <1>1, <1>2, <3>2 DEF AllAsked
      <4> QED
        BY <2>1, <3>2, <4>1
    <3> QED
      BY <3>1, <3>2
  <2> QED
    BY <1>1, <2>1, <2>2, <2>3, GoingOn
<1> QED
  BY <1>3, <1>4 DEF Recording!Asks

LEMMA NamingProjects ==
  ASSUME IdentifyInv, NEW ok \in BOOLEAN, Recording!NamesCome(ok)
  PROVE  IdentifyInv'
PROOF
<1>1. /\ identifying.pc = "names"
      /\ UNCHANGED <<knows, modFolder, jarRecords, otherJob, touched, recorded, crossed>>
      /\ identifying' = Recording!NoId \/ identifying' = [identifying EXCEPT !.pc = "save"]
  BY DEF Recording!NamesCome, Recording!idOnly
<1>2. CASE identifying' = Recording!NoId
  BY <1>1, <1>2, GivingUp
<1>3. CASE identifying' = [identifying EXCEPT !.pc = "save"]
  <2>1. identifying \in Identifications /\ MatchesHold /\ AllAsked /\ ReadIsThere
    BY DEF IdentifyInv, RecordTypes
  <2>2. /\ identifying' \in Identifications /\ identifying'.pc = "save"
        /\ identifying'.want = identifying.want /\ identifying'.blobs = identifying.blobs
        /\ identifying'.found = identifying.found /\ identifying'.failed = identifying.failed
    BY <1>3, <2>1 DEF Identifications
  <2>3. ReadIsThere' /\ MatchesHold'
    BY <1>1, <2>1, <2>2 DEF ReadIsThere, MatchesHold, Lies
  <2>4. AllAsked'
    BY <1>1, <2>1, <2>2 DEF AllAsked, HasMatch
  <2> QED
    BY <1>1, <2>2, <2>3, <2>4, GoingOn
<1> QED
  BY <1>1, <1>2, <1>3

LEMMA RereadingRecords ==
  ASSUME IdentifyInv, Recording!Rereads
  PROVE  IdentifyInv'
PROOF
<1>1. /\ identifying.pc = "save" /\ identifying' = [identifying EXCEPT !.pc = "write", !.seen = jarRecords]
      /\ UNCHANGED <<knows, modFolder, jarRecords, otherJob, touched, recorded, crossed>>
  BY DEF Recording!Rereads, Recording!idOnly
<1>2. identifying \in Identifications /\ jarRecords \in [JarNames -> Recording!Records]
  BY DEF IdentifyInv, RecordTypes
<1>3. /\ identifying' \in Identifications /\ identifying'.pc = "write"
      /\ identifying'.want = identifying.want /\ identifying'.blobs = identifying.blobs
      /\ identifying'.found = identifying.found /\ identifying'.failed = identifying.failed
      /\ identifying'.seen = jarRecords
  BY <1>1, <1>2 DEF Identifications, Readings
<1>4. RecordTypes'
  BY <1>1, <1>3 DEF IdentifyInv, RecordTypes
<1>5. ReadIsThere' /\ MatchesHold'
  BY <1>1, <1>3 DEF IdentifyInv, ReadIsThere, MatchesHold, Lies
<1>6. AllAsked'
  BY <1>1, <1>3 DEF IdentifyInv, AllAsked, HasMatch
<1>7. OtherIsMarked'
  BY <1>1, <1>2, <1>3 DEF IdentifyInv, OtherIsMarked
<1>8. ~crossed => BothAreFresh' /\ NowRecorded' /\ NoneIsLost'
  BY <1>1, <1>3 DEF IdentifyInv, BothAreFresh, NowRecorded, NoneIsLost
<1>9. ~crossed => LocalsAreTrue' /\ StillUnknown'
  BY <1>1, <1>3 DEF IdentifyInv, LocalsAreTrue, StillUnknown, Lies
<1> QED
  BY <1>1, <1>4, <1>5, <1>6, <1>7, <1>8, <1>9 DEF IdentifyInv

\* A name gets a match of a file of that name, or what its jar says of itself, or stays.
LEMMA WhatIsMerged ==
  ASSUME IdentifyInv, NEW n \in JarNames, NEW r, Recording!Merges(n, r)
  PROVE  \/ \E f \in DOMAIN identifying.found : f[1] = n /\ r = identifying.found[f]
         \/ /\ \A f \in DOMAIN identifying.found : f[1] # n
            /\ identifying.seen[n] = Recording!None
            /\ \E f \in DOMAIN identifying.blobs :
                 f[1] = n /\ r = [by |-> "local", jar |-> identifying.blobs[f]]
         \/ /\ \A f \in DOMAIN identifying.found : f[1] # n
            /\ r = identifying.seen[n]
BY DEF Recording!Merges

LEMMA SavingRecords ==
  ASSUME IdentifyInv, Recording!Saves
  PROVE  IdentifyInv'
PROOF
<1>1. /\ identifying.pc = "write"
      /\ UNCHANGED <<knows, modFolder, otherJob, touched, recorded>>
  BY DEF Recording!Saves, Recording!idOnly
<1>2. CASE identifying' = Recording!NoId /\ UNCHANGED <<jarRecords, crossed>>
  BY <1>1, <1>2, GivingUp
<1>3. ASSUME NEW m \in [JarNames -> Recording!Records],
             \A n \in JarNames : Recording!Merges(n, m[n]), jarRecords' = m,
             identifying' = [identifying EXCEPT !.pc = "done"],
             crossed' = (crossed \/ otherJob.pc = "write")
      PROVE  IdentifyInv'
  <2>1. /\ RecordTypes /\ identifying \in Identifications /\ MatchesHold /\ ReadIsThere /\ AllAsked
        /\ OtherIsMarked
    BY DEF IdentifyInv, RecordTypes
  <2>2. /\ identifying' \in Identifications /\ identifying'.pc = "done"
        /\ identifying'.want = identifying.want /\ identifying'.blobs = identifying.blobs
        /\ identifying'.found = identifying.found /\ identifying'.failed = identifying.failed
    BY <1>3, <2>1 DEF Identifications
  <2>3. RecordTypes'
    BY <1>1, <1>3, <2>1, <2>2 DEF RecordTypes
  <2>4. ReadIsThere' /\ MatchesHold'
    BY <1>1, <2>1, <2>2 DEF ReadIsThere, MatchesHold, Lies
  <2>5. AllAsked'
    BY <1>1, <2>1, <2>2 DEF AllAsked, HasMatch
  <2>6. OtherIsMarked'
    BY <1>1, <2>1, <2>2 DEF OtherIsMarked
  <2>7. ASSUME ~crossed' PROVE BothAreFresh' /\ LocalsAreTrue' /\ StillUnknown' /\ NowRecorded' /\ NoneIsLost'
    <3>1. /\ ~crossed /\ otherJob.pc # "write" /\ identifying.seen = jarRecords
          /\ LocalsAreTrue /\ StillUnknown /\ NoneIsLost
      BY <1>1, <1>3, <2>7 DEF IdentifyInv, BothAreFresh
    <3>2. \A n \in JarNames :
            \/ \E f \in DOMAIN identifying.found : f[1] = n /\ m[n] = identifying.found[f]
            \/ /\ \A f \in DOMAIN identifying.found : f[1] # n
               /\ \E f \in DOMAIN identifying.blobs :
                    f[1] = n /\ m[n] = [by |-> "local", jar |-> identifying.blobs[f]]
            \/ /\ \A f \in DOMAIN identifying.found : f[1] # n
               /\ m[n] = jarRecords[n]
      <4> TAKE n \in JarNames
      <4>1. Recording!Merges(n, m[n])
        BY <1>3
      <4> QED
        BY <3>1, <4>1, WhatIsMerged
    <3>3. \A f \in DOMAIN identifying.found :
            /\ identifying.found[f].by \in {"cf", "mr"} /\ f \in DOMAIN identifying.blobs
            /\ identifying.found[f].jar = identifying.blobs[f]
      BY <2>1 DEF MatchesHold
    <3>4. \A f \in DOMAIN identifying.blobs : f[1] \notin touched =>
            \E on \in BOOLEAN : modFolder[<<f[1], on>>] = identifying.blobs[f]
      BY <2>1 DEF ReadIsThere, Lies
    <3>5. BothAreFresh' /\ StillUnknown'
      BY <1>1, <2>2, <3>1 DEF BothAreFresh, StillUnknown
    <3>6. LocalsAreTrue'
      <4> SUFFICES ASSUME NEW n \in JarNames, n \notin touched, m[n].by = "local"
                   PROVE  \E on \in BOOLEAN : modFolder[<<n, on>>] = m[n].jar
        BY <1>1, <1>3 DEF LocalsAreTrue, Lies
      <4>1. m[n] = jarRecords[n] => \E on \in BOOLEAN : modFolder[<<n, on>>] = m[n].jar
        BY <3>1 DEF LocalsAreTrue, Lies
      <4> QED
        BY <3>2, <3>3, <3>4, <4>1
    <3>7. NowRecorded'
      <4>1. ASSUME NEW n \in Recording!NamesOf(identifying.want), n \notin touched, m[n] # Recording!None
            PROVE  \E on \in BOOLEAN : modFolder[<<n, on>>] = m[n].jar
        <5>1. n \in JarNames
          BY <2>1, <4>1, NamesAreFirst, RecordsTyped
        <5>2. ASSUME m[n] = jarRecords[n] PROVE \E on \in BOOLEAN : modFolder[<<n, on>>] = m[n].jar
          <6>1. jarRecords[n].by \notin {"cf", "mr"}
            BY <1>1, <3>1, <4>1 DEF StillUnknown
          <6>2. jarRecords[n].by = "local"
            BY <2>1, <4>1, <5>1, <5>2, <6>1, RecordsAre DEF RecordTypes
          <6> QED
            BY <3>1, <4>1, <5>1, <5>2, <6>2 DEF LocalsAreTrue, Lies
        <5> QED
          BY <3>2, <3>3, <3>4, <4>1, <5>1, <5>2
      <4>2. ASSUME NEW f \in DOMAIN identifying.found, f[1] \notin touched
            PROVE  m[f[1]].by \in {"cf", "mr"}
        <5>1. f[1] \in JarNames
          BY <2>1, <4>2, RecordsTyped, EntriesArePairs
        <5> QED
          BY <3>2, <3>3, <4>2, <5>1
      <4> QED
        BY <1>1, <1>3, <2>2, <4>1, <4>2 DEF NowRecorded, Lies
    <3>8. NoneIsLost'
      <4> SUFFICES ASSUME NEW n \in recorded PROVE m[n] # Recording!None
        BY <1>1, <1>3 DEF NoneIsLost
      <4>1. n \in JarNames /\ jarRecords[n] # Recording!None
        BY <2>1, <3>1 DEF RecordTypes, NoneIsLost
      <4> QED
        BY <3>2, <3>3, <4>1, RecordsAre
    <3> QED
      BY <3>5, <3>6, <3>7, <3>8
  <2> QED
    BY <2>3, <2>4, <2>5, <2>6, <2>7 DEF IdentifyInv
<1> QED
  BY <1>2, <1>3 DEF Recording!Saves

-----------------------------------------------------------------------------
(* What people do meanwhile.                                               *)

\* Jars move, and those whose content changes are touched.
LEMMA JarsMove ==
  ASSUME IdentifyInv, RecordTypes', OtherIsMarked',
         UNCHANGED <<knows, jarRecords, identifying, crossed>>,
         touched \subseteq touched', recorded' \subseteq recorded,
         otherJob'.pc = "write" => otherJob' = otherJob,
         \A n \in JarNames \ touched', c \in JarContents :
           (\E on \in BOOLEAN : modFolder[<<n, on>>] = c) => \E on \in BOOLEAN : modFolder'[<<n, on>>] = c
  PROVE  IdentifyInv'
PROOF
<1>1. RecordTypes
  BY DEF IdentifyInv
<1>2. ReadIsThere'
  <2> SUFFICES ASSUME NEW f \in DOMAIN identifying.blobs, f[1] \notin touched'
               PROVE  \E on \in BOOLEAN : modFolder'[<<f[1], on>>] = identifying.blobs[f]
    BY DEF ReadIsThere, Lies
  <2>1. f[1] \in JarNames /\ identifying.blobs[f] \in JarContents
    BY <1>1, RecordsTyped, EntriesArePairs
  <2>2. \E on \in BOOLEAN : modFolder[<<f[1], on>>] = identifying.blobs[f]
    BY DEF IdentifyInv, ReadIsThere, Lies
  <2> QED
    BY <2>1, <2>2
<1>3. MatchesHold' /\ AllAsked'
  BY DEF IdentifyInv, MatchesHold, AllAsked, HasMatch
<1>4. ~crossed => BothAreFresh' /\ StillUnknown' /\ NoneIsLost'
  BY DEF IdentifyInv, BothAreFresh, StillUnknown, NoneIsLost
<1>5. ASSUME ~crossed PROVE LocalsAreTrue'
  <2> SUFFICES ASSUME NEW n \in JarNames, n \notin touched', jarRecords[n].by = "local"
               PROVE  \E on \in BOOLEAN : modFolder'[<<n, on>>] = jarRecords[n].jar
    BY DEF LocalsAreTrue, Lies
  <2>1. jarRecords[n].jar \in JarContents
    BY <1>1, RecordsAre DEF RecordTypes
  <2>2. \E on \in BOOLEAN : modFolder[<<n, on>>] = jarRecords[n].jar
    BY <1>5 DEF IdentifyInv, LocalsAreTrue, Lies
  <2> QED
    BY <2>1, <2>2
<1>6. ASSUME ~crossed PROVE NowRecorded'
  <2> SUFFICES ASSUME identifying.pc = "done"
               PROVE  /\ \A n \in Recording!NamesOf(identifying.want) \ touched' :
                           jarRecords[n] # Recording!None =>
                             \E on \in BOOLEAN : modFolder'[<<n, on>>] = jarRecords[n].jar
                      /\ \A f \in DOMAIN identifying.found :
                           f[1] \notin touched' => jarRecords[f[1]].by \in {"cf", "mr"}
    BY DEF NowRecorded, Lies
  <2>1. ASSUME NEW n \in Recording!NamesOf(identifying.want), n \notin touched', jarRecords[n] # Recording!None
        PROVE  \E on \in BOOLEAN : modFolder'[<<n, on>>] = jarRecords[n].jar
    <3>1. n \in JarNames
      BY <1>1, RecordsTyped, NamesAreFirst
    <3>2. jarRecords[n].jar \in JarContents
      BY <1>1, <2>1, <3>1, RecordsAre DEF RecordTypes
    <3>3. \E on \in BOOLEAN : modFolder[<<n, on>>] = jarRecords[n].jar
      BY <1>6, <2>1 DEF IdentifyInv, NowRecorded, Lies
    <3> QED
      BY <2>1, <3>1, <3>2, <3>3
  <2>2. \A f \in DOMAIN identifying.found :
          f[1] \notin touched' => jarRecords[f[1]].by \in {"cf", "mr"}
    BY <1>6 DEF IdentifyInv, NowRecorded
  <2> QED
    BY <2>1, <2>2
<1> QED
  BY <1>2, <1>3, <1>4, <1>5, <1>6 DEF IdentifyInv

LEMMA Toggling ==
  ASSUME RecordSizes, IdentifyInv, NEW f \in Recording!Entries, Recording!Toggles(f)
  PROVE  IdentifyInv'
PROOF
<1> DEFINE g == <<f[1], ~f[2]>>
<1>1. /\ modFolder[f] # Recording!NoJar /\ modFolder[g] = Recording!NoJar
      /\ modFolder' = [modFolder EXCEPT ![f] = Recording!NoJar, ![g] = modFolder[f]]
      /\ UNCHANGED <<knows, jarRecords, identifying, otherJob, touched, recorded, crossed>>
  BY DEF Recording!Toggles, Recording!rest
<1>2. g \in Recording!Entries /\ f \in Recording!Entries /\ f[2] \in BOOLEAN /\ f = <<f[1], f[2]>>
      /\ modFolder \in [Recording!Entries -> JarContents \cup {Recording!NoJar}]
  BY EntriesArePairs DEF IdentifyInv, RecordTypes
<1>3. f # g
  BY <1>1
<1>4. /\ modFolder' \in [Recording!Entries -> JarContents \cup {Recording!NoJar}]
      /\ modFolder'[g] = modFolder[f]
      /\ \A h \in Recording!Entries : h # f /\ h # g => modFolder'[h] = modFolder[h]
  BY <1>1, <1>2, <1>3
<1>5. ASSUME NEW n \in JarNames, NEW c \in JarContents, NEW on \in BOOLEAN, modFolder[<<n, on>>] = c
      PROVE  \E o \in BOOLEAN : modFolder'[<<n, o>>] = c
  <2>1. <<n, on>> # g
    BY <1>1, <1>5 DEF RecordSizes
  <2>2. CASE <<n, on>> = f
    <3>1. modFolder'[<<n, ~on>>] = c
      BY <1>2, <1>4, <1>5, <2>2
    <3> QED
      BY <3>1
  <2>3. CASE <<n, on>> # f
    BY <1>4, <1>5, <2>1, <2>3, EntriesArePairs
  <2> QED
    BY <2>2, <2>3
<1>6. RecordTypes' /\ OtherIsMarked'
  BY <1>1, <1>4 DEF IdentifyInv, RecordTypes, OtherIsMarked
<1>7. UNCHANGED <<knows, jarRecords, identifying, crossed>> /\ touched' = touched /\ recorded' = recorded
      /\ otherJob' = otherJob
  BY <1>1
<1>8. \A n \in JarNames, c \in JarContents :
        (\E on \in BOOLEAN : modFolder[<<n, on>>] = c) => \E on \in BOOLEAN : modFolder'[<<n, on>>] = c
  BY <1>5
<1> HIDE DEF g
<1> QED
  BY <1>6, <1>7, <1>8, JarsMove

LEMMA PuttingAJar ==
  ASSUME RecordSizes, IdentifyInv, NEW op, NEW f \in Recording!Entries,
         NEW c \in JarContents \cup {Recording!NoJar}, Recording!Puts(op, f, c)
  PROVE  IdentifyInv'
PROOF
<1> DEFINE o == [Recording!NoOther EXCEPT !.pc = "read", !.op = op, !.name = f[1], !.jar = c]
<1>1. /\ modFolder' = [modFolder EXCEPT ![f] = c] /\ otherJob' = o
      /\ touched' = touched \cup {f[1]} /\ recorded' = recorded \ {f[1]}
      /\ op \in {"add", "delete"} /\ (op = "add" => c \in JarContents)
      /\ UNCHANGED <<knows, jarRecords, identifying, crossed>>
  BY DEF Recording!Puts, Recording!rest
<1>2. f[1] \in JarNames /\ f = <<f[1], f[2]>>
  BY EntriesArePairs
<1>3. o \in OtherJobs /\ o.pc = "read" /\ o.op = op /\ o.name = f[1] /\ o.jar = c
  BY <1>1, <1>2 DEF OtherJobs, Readings, Recording!NoOther
<1> HIDE DEF o
<1>4. RecordTypes'
  BY <1>1, <1>2, <1>3 DEF IdentifyInv, RecordTypes
<1>5. OtherIsMarked'
  BY <1>1, <1>2, <1>3 DEF IdentifyInv, OtherIsMarked
<1>6. ASSUME NEW n \in JarNames, n \notin touched', NEW d \in JarContents, NEW on \in BOOLEAN,
             modFolder[<<n, on>>] = d
      PROVE  modFolder'[<<n, on>>] = d
  <2>1. <<n, on>> # f /\ <<n, on>> \in Recording!Entries
    BY <1>1, <1>2, <1>6, EntriesArePairs
  <2> QED
    BY <1>1, <1>6, <2>1 DEF IdentifyInv, RecordTypes
<1> QED
  BY <1>1, <1>3, <1>4, <1>5, <1>6, JarsMove

LEMMA ReadingTheManifest ==
  ASSUME IdentifyInv, Recording!ReadsManifest \/ Recording!FetchesIcons
  PROVE  IdentifyInv'
PROOF
<1>1. /\ UNCHANGED <<knows, modFolder, jarRecords, identifying, touched, recorded, crossed>>
      /\ \/ otherJob.pc = "read" /\ otherJob' = [otherJob EXCEPT !.pc = "write", !.seen = jarRecords]
         \/ otherJob' = [Recording!NoOther EXCEPT !.pc = "write", !.op = "icons", !.seen = jarRecords]
  BY DEF Recording!ReadsManifest, Recording!FetchesIcons, Recording!rest
<1>2. otherJob \in OtherJobs /\ jarRecords \in [JarNames -> Recording!Records] /\ jarRecords \in Readings
  BY DEF IdentifyInv, RecordTypes, Readings
<1>3. /\ otherJob' \in OtherJobs /\ otherJob'.pc = "write" /\ otherJob'.seen = jarRecords
      /\ \/ otherJob.pc = "read" /\ otherJob'.op = otherJob.op /\ otherJob'.name = otherJob.name
            /\ otherJob'.jar = otherJob.jar
         \/ otherJob'.op = "icons"
  BY <1>1, <1>2 DEF OtherJobs, Recording!NoOther
<1>4. RecordTypes'
  BY <1>1, <1>3 DEF IdentifyInv, RecordTypes
<1>5. ReadIsThere' /\ MatchesHold' /\ AllAsked'
  BY <1>1 DEF IdentifyInv, ReadIsThere, MatchesHold, AllAsked, HasMatch, Lies
<1>6. OtherIsMarked'
  BY <1>1, <1>2, <1>3 DEF IdentifyInv, OtherIsMarked
<1>7. ~crossed => BothAreFresh'
  BY <1>1, <1>3 DEF IdentifyInv, BothAreFresh
<1>8. ~crossed => LocalsAreTrue' /\ StillUnknown' /\ NowRecorded' /\ NoneIsLost'
  BY <1>1 DEF IdentifyInv, LocalsAreTrue, StillUnknown, NowRecorded, NoneIsLost, Lies
<1> QED
  BY <1>1, <1>4, <1>5, <1>6, <1>7, <1>8 DEF IdentifyInv

\* What is written is what was read but for a name that was touched.
LEMMA WritingTheManifest ==
  ASSUME IdentifyInv, Recording!WritesManifest
  PROVE  IdentifyInv'
PROOF
<1>1. /\ otherJob.pc = "write" /\ otherJob' = Recording!NoOther
      /\ crossed' = (crossed \/ identifying.pc = "write")
      /\ recorded' = IF otherJob.op = "add" THEN recorded \cup {otherJob.name} ELSE recorded
      /\ UNCHANGED <<knows, modFolder, identifying, touched>>
  BY DEF Recording!WritesManifest, Recording!rest
<1>2. /\ otherJob.op \in {"add", "delete", "icons"} /\ otherJob.seen \in [JarNames -> Recording!Records]
      /\ otherJob.op # "icons" => otherJob.name \in touched /\ otherJob.name \in JarNames
      /\ otherJob.op = "add" => otherJob.jar \in JarContents
      /\ otherJob.op = "delete" => otherJob.name \notin recorded
      /\ otherJob \in OtherJobs /\ RecordTypes
  BY <1>1 DEF IdentifyInv, OtherIsMarked, RecordTypes, OtherJobs
<1>3. /\ jarRecords' \in [JarNames -> Recording!Records]
      /\ \A n \in JarNames \ touched : jarRecords'[n] = otherJob.seen[n]
      /\ \A n \in JarNames : otherJob.op = "icons" \/ n # otherJob.name => jarRecords'[n] = otherJob.seen[n]
      /\ otherJob.op = "add" => jarRecords'[otherJob.name] # Recording!None
  <2>1. CASE otherJob.op = "add"
    <3>1. jarRecords' = [otherJob.seen EXCEPT ![otherJob.name] = [by |-> "cf", jar |-> otherJob.jar]]
      BY <2>1 DEF Recording!WritesManifest
    <3>2. [by |-> "cf", jar |-> otherJob.jar] \in Recording!Records
          /\ [by |-> "cf", jar |-> otherJob.jar] # Recording!None
      BY <1>2, <2>1, RecordsAre
    <3> QED
      BY <1>2, <2>1, <3>1, <3>2
  <2>2. CASE otherJob.op = "delete"
    <3>1. jarRecords' = [otherJob.seen EXCEPT ![otherJob.name] = Recording!None]
      BY <2>2 DEF Recording!WritesManifest
    <3> QED
      BY <1>2, <2>2, <3>1, RecordsAre
  <2>3. CASE otherJob.op = "icons"
    <3>1. jarRecords' = otherJob.seen
      BY <2>3 DEF Recording!WritesManifest
    <3> QED
      BY <1>2, <2>3, <3>1
  <2> QED
    BY <1>2, <2>1, <2>2, <2>3
<1>4. Recording!NoOther \in OtherJobs /\ Recording!NoOther.pc = "idle" /\ Recording!NoOther.op = "none"
  BY DEF OtherJobs, Readings, Recording!NoOther
<1>5. RecordTypes'
  BY <1>1, <1>2, <1>3, <1>4 DEF RecordTypes
<1>6. ReadIsThere' /\ MatchesHold' /\ AllAsked'
  BY <1>1 DEF IdentifyInv, ReadIsThere, MatchesHold, AllAsked, HasMatch, Lies
<1>7. OtherIsMarked'
  BY <1>1, <1>4 DEF IdentifyInv, OtherIsMarked
<1>8. ASSUME ~crossed' PROVE BothAreFresh' /\ LocalsAreTrue' /\ StillUnknown' /\ NowRecorded' /\ NoneIsLost'
  <2>1. /\ ~crossed /\ identifying.pc # "write" /\ otherJob.seen = jarRecords
        /\ LocalsAreTrue /\ StillUnknown /\ NowRecorded /\ NoneIsLost
    BY <1>1, <1>8 DEF IdentifyInv, BothAreFresh
  <2>2. \A n \in JarNames \ touched : jarRecords'[n] = jarRecords[n]
    BY <1>3, <2>1
  <2>3. Recording!NamesOf(identifying.want) \subseteq JarNames
    BY <1>2, RecordsTyped, NamesAreFirst
  <2>4. \A f \in DOMAIN identifying.found : f[1] \in JarNames
    BY <1>2, RecordsTyped, EntriesArePairs
  <2>5. BothAreFresh'
    BY <1>1, <1>4, <2>1 DEF BothAreFresh
  <2>6. LocalsAreTrue'
    BY <1>1, <2>1, <2>2 DEF LocalsAreTrue, Lies
  <2>7. StillUnknown'
    BY <1>1, <2>1, <2>2, <2>3 DEF StillUnknown
  <2>8. NowRecorded'
    BY <1>1, <2>1, <2>2, <2>3, <2>4 DEF NowRecorded, Lies
  <2>9. NoneIsLost'
    <3> SUFFICES ASSUME NEW n \in recorded' PROVE jarRecords'[n] # Recording!None
      BY DEF NoneIsLost
    <3>1. CASE otherJob.op = "add" /\ n = otherJob.name
      BY <1>3, <3>1
    <3>2. CASE ~(otherJob.op = "add" /\ n = otherJob.name)
      <4>1. n \in recorded /\ n \in JarNames
        BY <1>1, <1>2, <3>2 DEF RecordTypes
      <4>2. otherJob.op = "icons" \/ n # otherJob.name
        BY <1>2, <3>2, <4>1
      <4> QED
        BY <1>3, <2>1, <4>1, <4>2 DEF NoneIsLost
    <3> QED
      BY <3>1, <3>2
  <2> QED
    BY <2>5, <2>6, <2>7, <2>8, <2>9
<1> QED
  BY <1>5, <1>6, <1>7, <1>8 DEF IdentifyInv

-----------------------------------------------------------------------------
(* The check for newer versions.                                           *)

CheckedRecords == UNION {[D -> Recording!Records \ {Recording!None}] : D \in SUBSET JarNames}
Updates == UNION {[D -> Int] : D \in SUBSET JarNames}
Checks ==
  [pc : {"idle", "bulk", "slow", "done"}, recs : CheckedRecords, ups : Updates,
   left : SUBSET JarNames, missed : SUBSET JarNames, start : {<<>>} \cup [Recording!Projects -> Int]]

\* An update that is told of is another version; whatever has been looked up and has none is of a
\* version that was the newest since the check began.
CheckInv ==
  /\ newest \in [Recording!Projects -> Int] /\ updateCheck \in Checks
  /\ updateCheck.left \subseteq DOMAIN updateCheck.recs
  /\ DOMAIN updateCheck.ups \subseteq DOMAIN updateCheck.recs
  /\ DOMAIN updateCheck.recs # {} =>
       /\ updateCheck.start \in [Recording!Projects -> Int]
       /\ \A p \in Recording!Projects : updateCheck.start[p] <= newest[p]
  /\ \A n \in DOMAIN updateCheck.ups : updateCheck.ups[n] # updateCheck.recs[n].jar.version
  /\ \A n \in DOMAIN updateCheck.recs \ updateCheck.left :
       \/ n \in DOMAIN updateCheck.ups
       \/ n \in updateCheck.missed
       \/ LET j == updateCheck.recs[n].jar
          IN  j.version \in updateCheck.start[j.project] .. newest[j.project]
  /\ updateCheck.pc = "done" => updateCheck.left = {}

LEMMA NoCheckTyped ==
  /\ Recording!NoCheck \in Checks /\ Recording!NoCheck.pc = "idle" /\ Recording!NoCheck.left = {}
  /\ DOMAIN Recording!NoCheck.recs = {} /\ DOMAIN Recording!NoCheck.ups = {}
  /\ Recording!NoCheck.missed = {}
PROOF
<1>1. <<>> \in CheckedRecords /\ <<>> \in Updates /\ DOMAIN <<>> = {}
  BY EmptyFunction DEF CheckedRecords, Updates
<1> QED
  BY <1>1 DEF Checks, Recording!NoCheck

LEMMA CheckedTyped ==
  ASSUME CheckInv
  PROVE  /\ DOMAIN updateCheck.recs \subseteq JarNames
         /\ \A n \in DOMAIN updateCheck.recs :
              /\ updateCheck.recs[n] \in Recording!Records
              /\ updateCheck.recs[n].jar \in JarContents
              /\ updateCheck.recs[n].jar.project \in Recording!Projects
PROOF
<1>1. updateCheck.recs \in CheckedRecords
  BY DEF CheckInv, Checks
<1>2. PICK D \in SUBSET JarNames : updateCheck.recs \in [D -> Recording!Records \ {Recording!None}]
  BY <1>1 DEF CheckedRecords
<1>3. \A c \in JarContents : c.project \in Recording!Projects
  BY DEF Recording!Projects
<1>4. \A n \in D : updateCheck.recs[n].jar \in JarContents
  BY <1>2, RecordsAre
<1> QED
  BY <1>2, <1>3, <1>4

LEMMA NothingChecked ==
  ASSUME RecordSizes, Recording!Init
  PROVE  CheckInv
PROOF
<1>1. updateCheck = Recording!NoCheck /\ newest = [p \in Recording!Projects |-> MaxVersion - 1]
  BY DEF Recording!Init
<1>2. MaxVersion - 1 \in Int
  BY DEF RecordSizes
<1>3. newest \in [Recording!Projects -> Int]
  BY <1>1, <1>2
<1> QED
  BY <1>1, <1>3, NoCheckTyped DEF CheckInv

LEMMA CheckStays ==
  ASSUME CheckInv, UNCHANGED <<newest, updateCheck>>
  PROVE  CheckInv'
BY DEF CheckInv

LEMMA Publishing ==
  ASSUME CheckInv, NEW p \in Recording!Projects, Recording!Publishes(p)
  PROVE  CheckInv'
PROOF
<1>1. newest' = [newest EXCEPT ![p] = @ + 1] /\ updateCheck' = updateCheck
  BY DEF Recording!Publishes
<1>2. newest \in [Recording!Projects -> Int]
  BY DEF CheckInv
<1>3. newest' \in [Recording!Projects -> Int] /\ \A q \in Recording!Projects : newest[q] <= newest'[q]
  BY <1>1, <1>2
<1>4. \A n \in DOMAIN updateCheck.recs : updateCheck.recs[n].jar.project \in Recording!Projects
  BY CheckedTyped
<1>5. DOMAIN updateCheck.recs # {} =>
        /\ updateCheck.start \in [Recording!Projects -> Int]
        /\ \A q \in Recording!Projects : updateCheck.start[q] <= newest'[q]
  <2>1. ASSUME NEW q \in Recording!Projects, updateCheck.start \in [Recording!Projects -> Int],
               updateCheck.start[q] <= newest[q]
        PROVE  updateCheck.start[q] <= newest'[q]
    BY <1>2, <1>3, <2>1
  <2> QED
    BY <2>1 DEF CheckInv
<1>6. ASSUME NEW n \in DOMAIN updateCheck.recs, n \notin updateCheck.left
      PROVE  \/ n \in DOMAIN updateCheck.ups
             \/ n \in updateCheck.missed
             \/ updateCheck.recs[n].jar.version
                  \in updateCheck.start[updateCheck.recs[n].jar.project]
                      .. newest'[updateCheck.recs[n].jar.project]
  <2> DEFINE q == updateCheck.recs[n].jar.project
             v == updateCheck.recs[n].jar.version
  <2>1. n \in DOMAIN updateCheck.ups \/ n \in updateCheck.missed
        \/ v \in updateCheck.start[q] .. newest[q]
    BY <1>6 DEF CheckInv
  <2>2. /\ q \in Recording!Projects /\ updateCheck.start[q] \in Int /\ newest[q] \in Int
        /\ newest'[q] \in Int /\ newest[q] <= newest'[q]
    BY <1>2, <1>3, <1>4, <1>5, <1>6
  <2> QED
    BY <2>1, <2>2
<1>7. /\ updateCheck \in Checks /\ updateCheck.left \subseteq DOMAIN updateCheck.recs
      /\ DOMAIN updateCheck.ups \subseteq DOMAIN updateCheck.recs
      /\ \A n \in DOMAIN updateCheck.ups : updateCheck.ups[n] # updateCheck.recs[n].jar.version
      /\ updateCheck.pc = "done" => updateCheck.left = {}
  BY DEF CheckInv
<1> QED
  BY <1>1, <1>3, <1>5, <1>6, <1>7 DEF CheckInv

LEMMA CheckIsBegun ==
  ASSUME IdentifyInv, CheckInv, Recording!CheckBegins
  PROVE  CheckInv'
PROOF
<1> DEFINE names == {n \in JarNames : Recording!Known(jarRecords[n])}
           recs == [n \in names |-> jarRecords[n]]
           begun == [Recording!NoCheck EXCEPT !.pc = "bulk", !.left = names, !.start = newest,
                                              !.recs = recs]
<1>1. updateCheck' = begun /\ newest' = newest
  BY DEF Recording!CheckBegins
<1>2. newest \in [Recording!Projects -> Int]
  BY DEF CheckInv
<1>3. recs \in CheckedRecords
  <2>1. \A n \in names : jarRecords[n] \in Recording!Records /\ jarRecords[n] # Recording!None
    BY RecordsAre DEF IdentifyInv, RecordTypes, Recording!Known
  <2>2. recs \in [names -> Recording!Records \ {Recording!None}]
    BY <2>1
  <2> QED
    BY <2>2 DEF CheckedRecords
<1>4. DOMAIN recs = names
  OBVIOUS
<1> HIDE DEF recs
<1>5. /\ begun \in Checks /\ begun.pc = "bulk" /\ begun.left = names /\ begun.start = newest
      /\ begun.recs = recs /\ DOMAIN begun.ups = {}
  BY <1>2, <1>3, NoCheckTyped DEF Checks, Recording!NoCheck
<1> HIDE DEF begun
<1>6. \A p \in Recording!Projects : newest[p] <= newest[p]
  BY <1>2
<1> QED
  BY <1>1, <1>2, <1>4, <1>5, <1>6 DEF CheckInv

\* What a look-up notes.
LEMMA Noting ==
  ASSUME CheckInv, NEW S \in SUBSET updateCheck.left,
         NEW o, o = Recording!Noted(updateCheck.ups, S)
  PROVE  /\ o \in Updates /\ DOMAIN o \subseteq DOMAIN updateCheck.recs
         /\ DOMAIN updateCheck.ups \subseteq DOMAIN o
         /\ \A n \in DOMAIN o : o[n] # updateCheck.recs[n].jar.version
         /\ \A n \in S : \/ n \in DOMAIN o
                         \/ updateCheck.recs[n].jar.version = newest[updateCheck.recs[n].jar.project]
PROOF
<1> DEFINE Late == {n \in S : newest[updateCheck.recs[n].jar.project] # updateCheck.recs[n].jar.version}
           new == [n \in Late |-> newest[updateCheck.recs[n].jar.project]]
<1>1. S \subseteq DOMAIN updateCheck.recs /\ S \subseteq JarNames
  BY CheckedTyped DEF CheckInv
<1>2. \A n \in Late : newest[updateCheck.recs[n].jar.project] \in Int
  BY <1>1, CheckedTyped DEF CheckInv
<1>3. new \in Updates
  <2>1. new \in [Late -> Int] /\ Late \in SUBSET JarNames
    BY <1>1, <1>2
  <2> QED
    BY <2>1 DEF Updates
<1>4. o = Recording!Over(new, updateCheck.ups)
  BY DEF Recording!Noted, Recording!Newer, Recording!Has
<1>5. DOMAIN new = Late /\ \A n \in Late : new[n] = newest[updateCheck.recs[n].jar.project]
  OBVIOUS
<1> HIDE DEF new
<1>6. o \in Updates
  <2>1. updateCheck.ups \in Updates
    BY DEF CheckInv, Checks
  <2>2. PICK A \in SUBSET JarNames : new \in [A -> Int]
    BY <1>3 DEF Updates
  <2>3. PICK B \in SUBSET JarNames : updateCheck.ups \in [B -> Int]
    BY <2>1 DEF Updates
  <2>4. o = [x \in A \cup B |-> IF x \in A THEN new[x] ELSE updateCheck.ups[x]]
    BY <1>4, <2>2, <2>3 DEF Recording!Over
  <2>5. o \in [A \cup B -> Int] /\ A \cup B \in SUBSET JarNames
    BY <2>2, <2>3, <2>4
  <2> QED
    BY <2>5 DEF Updates
<1>7. /\ DOMAIN o = Late \cup DOMAIN updateCheck.ups
      /\ \A n \in Late : o[n] = new[n]
      /\ \A n \in DOMAIN updateCheck.ups \ Late : o[n] = updateCheck.ups[n]
  BY <1>4, <1>5 DEF Recording!Over
<1> QED
  BY ZenonT(40), <1>1, <1>5, <1>6, <1>7 DEF CheckInv

\* Some have been looked up.
LEMMA LookedUp ==
  ASSUME CheckInv, newest' = newest, updateCheck' \in Checks, updateCheck'.pc # "done",
         updateCheck'.recs = updateCheck.recs, updateCheck'.start = updateCheck.start,
         NEW S \in SUBSET updateCheck.left, updateCheck'.left = updateCheck.left \ S,
         \/ updateCheck'.ups = Recording!Noted(updateCheck.ups, S) /\ updateCheck'.missed = updateCheck.missed
         \/ updateCheck'.ups = updateCheck.ups /\ updateCheck'.missed = updateCheck.missed \cup S
  PROVE  CheckInv'
PROOF
<1>1. CASE updateCheck'.ups = Recording!Noted(updateCheck.ups, S) /\ updateCheck'.missed = updateCheck.missed
  <2> DEFINE o == Recording!Noted(updateCheck.ups, S)
  <2>1. /\ o \in Updates /\ DOMAIN o \subseteq DOMAIN updateCheck.recs
        /\ DOMAIN updateCheck.ups \subseteq DOMAIN o
        /\ \A n \in DOMAIN o : o[n] # updateCheck.recs[n].jar.version
        /\ \A n \in S : \/ n \in DOMAIN o
                        \/ updateCheck.recs[n].jar.version = newest[updateCheck.recs[n].jar.project]
    BY Noting
  <2> HIDE DEF o
  <2>2. updateCheck'.ups = o
    BY <1>1 DEF o
  <2>3. ASSUME NEW n \in S, n \notin DOMAIN o
        PROVE  updateCheck.recs[n].jar.version
                 \in updateCheck.start[updateCheck.recs[n].jar.project]
                     .. newest[updateCheck.recs[n].jar.project]
    <3> DEFINE q == updateCheck.recs[n].jar.project
               v == updateCheck.recs[n].jar.version
    <3>1. n \in DOMAIN updateCheck.recs
      BY <2>3 DEF CheckInv
    <3>2. q \in Recording!Projects
      BY <3>1, CheckedTyped
    <3>3. newest[q] \in Int /\ updateCheck.start[q] \in Int /\ updateCheck.start[q] <= newest[q]
      BY <3>1, <3>2 DEF CheckInv
    <3>4. v = newest[q]
      BY <2>1, <2>3
    <3> QED
      BY <3>3, <3>4
  <2> QED
    BY <1>1, <2>1, <2>2, <2>3 DEF CheckInv
<1>2. CASE updateCheck'.ups = updateCheck.ups /\ updateCheck'.missed = updateCheck.missed \cup S
  BY <1>2 DEF CheckInv
<1> QED
  BY <1>1, <1>2

LEMMA LookingUp ==
  ASSUME CheckInv,
         \/ Recording!InBulk
         \/ Recording!CheckEnds
         \/ \E n \in JarNames : Recording!Looks(n)
  PROVE  CheckInv'
PROOF
<1>0. newest' = newest
  BY DEF Recording!InBulk, Recording!CheckEnds, Recording!Looks, Recording!ckOnly
<1>1. updateCheck \in Checks /\ \A S \in SUBSET updateCheck.left :
        Recording!Noted(updateCheck.ups, S) \in Updates
  BY Noting DEF CheckInv
<1>2. CASE Recording!CheckEnds
  <2>1. updateCheck.left = {} /\ updateCheck' = [updateCheck EXCEPT !.pc = "done"]
    BY <1>2 DEF Recording!CheckEnds
  <2>2. /\ updateCheck' \in Checks /\ updateCheck'.left = {}
        /\ updateCheck'.recs = updateCheck.recs /\ updateCheck'.ups = updateCheck.ups
        /\ updateCheck'.missed = updateCheck.missed /\ updateCheck'.start = updateCheck.start
    BY <1>1, <2>1 DEF Checks
  <2> QED
    BY <1>0, <2>1, <2>2 DEF CheckInv
<1>3. CASE Recording!InBulk
  <2>1. PICK S \in SUBSET {n \in updateCheck.left : updateCheck.recs[n].by = "cf"} :
          updateCheck' = [updateCheck EXCEPT !.pc = "slow", !.left = @ \ S,
                                             !.ups = Recording!Noted(@, S)]
    BY <1>3 DEF Recording!InBulk, Recording!OfBulk
  <2>2. S \in SUBSET updateCheck.left
    OBVIOUS
  <2>3. Recording!Noted(updateCheck.ups, S) \in Updates
    BY <1>1, <2>2
  <2>4. /\ updateCheck' \in Checks /\ updateCheck'.pc = "slow"
        /\ updateCheck'.left = updateCheck.left \ S
        /\ updateCheck'.recs = updateCheck.recs /\ updateCheck'.start = updateCheck.start
        /\ updateCheck'.ups = Recording!Noted(updateCheck.ups, S)
        /\ updateCheck'.missed = updateCheck.missed
    BY <1>1, <2>1, <2>3 DEF Checks
  <2> QED
    BY <1>0, <2>2, <2>4, LookedUp
<1>4. ASSUME NEW n \in JarNames, Recording!Looks(n) PROVE CheckInv'
  <2>1. /\ n \in updateCheck.left /\ updateCheck.pc = "slow"
        /\ \/ updateCheck' = [updateCheck EXCEPT !.left = @ \ {n}, !.ups = Recording!Noted(@, {n})]
           \/ updateCheck' = [updateCheck EXCEPT !.left = @ \ {n}, !.missed = @ \cup {n}]
    BY <1>4 DEF Recording!Looks
  <2>2. {n} \in SUBSET updateCheck.left
    BY <2>1
  <2>3. Recording!Noted(updateCheck.ups, {n}) \in Updates
    BY <1>1, <2>2
  <2>4. CASE updateCheck' = [updateCheck EXCEPT !.left = @ \ {n}, !.ups = Recording!Noted(@, {n})]
    <3>1. /\ updateCheck' \in Checks /\ updateCheck'.pc = "slow"
          /\ updateCheck'.left = updateCheck.left \ {n}
          /\ updateCheck'.recs = updateCheck.recs /\ updateCheck'.start = updateCheck.start
          /\ updateCheck'.ups = Recording!Noted(updateCheck.ups, {n})
          /\ updateCheck'.missed = updateCheck.missed
      BY <1>1, <2>1, <2>3, <2>4 DEF Checks
    <3> QED
      BY <1>0, <2>2, <3>1, LookedUp
  <2>5. CASE updateCheck' = [updateCheck EXCEPT !.left = @ \ {n}, !.missed = @ \cup {n}]
    <3>1. updateCheck.left \ {n} \in SUBSET JarNames /\ updateCheck.missed \cup {n} \in SUBSET JarNames
      BY <1>1, <1>4 DEF Checks
    <3>2. /\ updateCheck' \in Checks /\ updateCheck'.pc = "slow"
          /\ updateCheck'.left = updateCheck.left \ {n}
          /\ updateCheck'.recs = updateCheck.recs /\ updateCheck'.start = updateCheck.start
          /\ updateCheck'.ups = updateCheck.ups
          /\ updateCheck'.missed = updateCheck.missed \cup {n}
      BY <1>1, <2>1, <2>5, <3>1 DEF Checks
    <3> QED
      BY <1>0, <2>2, <3>2, LookedUp
  <2> QED
    BY <2>1, <2>4, <2>5
<1> QED
  BY <1>2, <1>3, <1>4

-----------------------------------------------------------------------------
LEMMA RecordsGoOn ==
  ASSUME RecordSizes, IdentifyInv /\ CheckInv, [Recording!Next]_(Recording!vars)
  PROVE  (IdentifyInv /\ CheckInv)'
PROOF
<1>1. CASE UNCHANGED Recording!vars
  BY <1>1, IdentifyStays, CheckStays DEF Recording!vars
<1>2. CASE Recording!Identifying
  <2>1. UNCHANGED <<newest, updateCheck>>
    BY <1>2 DEF Recording!Identifying, Recording!Begins, Recording!Rereads, Recording!Saves,
                Recording!NamesCome, Recording!Fetches, Recording!Asks, Recording!idOnly
  <2>2. IdentifyInv'
    BY <1>2, Listing, RereadingRecords, SavingRecords, NamingProjects, Fetching, AskingAKnower
       DEF Recording!Identifying
  <2> QED
    BY <2>1, <2>2, CheckStays
<1>3. ASSUME NEW f \in Recording!Entries,
             \/ Recording!Toggles(f)
             \/ \E c \in JarContents \cup {Recording!NoJar}, op \in {"add", "delete"} : Recording!Puts(op, f, c)
      PROVE  IdentifyInv' /\ CheckInv'
  <2>1. UNCHANGED <<newest, updateCheck>>
    BY <1>3 DEF Recording!Toggles, Recording!Puts, Recording!rest
  <2>2. IdentifyInv'
    BY <1>3, Toggling, PuttingAJar
  <2> QED
    BY <2>1, <2>2, CheckStays
<1>4. CASE Recording!ReadsManifest \/ Recording!FetchesIcons \/ Recording!WritesManifest
  <2>1. UNCHANGED <<newest, updateCheck>>
    BY <1>4 DEF Recording!ReadsManifest, Recording!FetchesIcons, Recording!WritesManifest, Recording!rest
  <2> QED
    BY <1>4, <2>1, CheckStays, ReadingTheManifest, WritingTheManifest
<1>5. ASSUME NEW p \in Recording!Projects, Recording!Publishes(p) PROVE IdentifyInv' /\ CheckInv'
  <2>1. UNCHANGED <<knows, modFolder, jarRecords, identifying, otherJob, touched, recorded, crossed>>
    BY <1>5 DEF Recording!Publishes
  <2> QED
    BY <1>5, <2>1, IdentifyStays, Publishing
<1>6. CASE Recording!CheckBegins \/ Recording!InBulk \/ Recording!CheckEnds
           \/ \E n \in JarNames : Recording!Looks(n)
  <2>1. UNCHANGED <<knows, modFolder, jarRecords, identifying, otherJob, touched, recorded, crossed>>
    BY <1>6 DEF Recording!CheckBegins, Recording!InBulk, Recording!CheckEnds, Recording!Looks,
                Recording!ckOnly
  <2>2. CheckInv'
    BY <1>6, CheckIsBegun, LookingUp
  <2> QED
    BY <2>1, <2>2, IdentifyStays
<1> QED
  BY <1>1, <1>2, <1>3, <1>4, <1>5, <1>6 DEF Recording!Next

LEMMA RecordsShown ==
  ASSUME IdentifyInv, CheckInv
  PROVE  /\ Recording!RecordsAreTrue /\ Recording!AllAreIdentified
         /\ Recording!RecordsStay /\ Recording!NewestIsTold
PROOF
<1>1. Recording!RecordsAreTrue
  BY DEF IdentifyInv, NowRecorded, Lies, Recording!RecordsAreTrue
<1>2. Recording!RecordsStay
  BY DEF IdentifyInv, NoneIsLost, Recording!RecordsStay
<1>3. Recording!AllAreIdentified
  <2> SUFFICES ASSUME identifying.pc = "done", ~crossed, NEW f \in DOMAIN identifying.blobs,
                      (knows[identifying.blobs[f]] \cap {"cf", "mr"}) \ identifying.failed # {}
               PROVE  \E g \in DOMAIN identifying.blobs :
                        /\ identifying.blobs[g] = identifying.blobs[f]
                        /\ g[1] \notin touched => Recording!Known(jarRecords[g[1]])
    BY DEF Recording!AllAreIdentified
  <2>1. HasMatch(f)
    BY DEF IdentifyInv, AllAsked
  <2>2. PICK g \in DOMAIN identifying.found : identifying.blobs[g] = identifying.blobs[f]
    BY <2>1 DEF HasMatch
  <2>3. g \in DOMAIN identifying.blobs
    BY <2>2 DEF IdentifyInv, MatchesHold
  <2>4. g[1] \notin touched => jarRecords[g[1]].by \in {"cf", "mr"}
    BY <2>2 DEF IdentifyInv, NowRecorded
  <2> QED
    BY <2>2, <2>3, <2>4 DEF Recording!Known
<1>4. Recording!NewestIsTold
  BY DEF CheckInv, Recording!NewestIsTold, Recording!Has, Recording!Newer
<1> QED
  BY <1>1, <1>2, <1>3, <1>4

\* ModRecords: what an identification leaves on record of a jar that nobody touched is what the
\* jar is, every jar that somebody knows is identified, no record of an installed mod gets lost,
\* and no mod is called current that is not; for any number of jars, whatever people do meanwhile.
THEOREM RecordsHold ==
  ASSUME RecordSizes
  PROVE  Recording!Spec =>
           [](/\ Recording!RecordsAreTrue /\ Recording!AllAreIdentified
              /\ Recording!RecordsStay /\ Recording!NewestIsTold)
PROOF
<1>1. Recording!Init => IdentifyInv /\ CheckInv
  BY NothingIdentified, NothingChecked
<1>2. IdentifyInv /\ CheckInv /\ [Recording!Next]_(Recording!vars) => (IdentifyInv /\ CheckInv)'
  BY RecordsGoOn
<1>3. IdentifyInv /\ CheckInv => /\ Recording!RecordsAreTrue /\ Recording!AllAreIdentified
                                 /\ Recording!RecordsStay /\ Recording!NewestIsTold
  BY RecordsShown
<1> QED
  BY <1>1, <1>2, <1>3, PTL DEF Recording!Spec

-----------------------------------------------------------------------------
(***************************************************************************)
(* AddMod: everything a planned mod requires is accounted for.             *)
(***************************************************************************)
\* What a project requires are projects; there are finitely many of them.
AddSizes ==
  /\ IsFiniteSet(ModProjects) /\ RootProject \in ModProjects
  /\ \A w \in ModWorlds : w.requires \in [ModProjects -> SUBSET ModProjects]
  /\ MaxDepth \in Nat /\ MaxPlan \in Nat

Sights == [project : ModProjects, depth : 0..MaxDepth, asked : BOOLEAN]

WalkTypes ==
  /\ requires \in [ModProjects -> SUBSET ModProjects]
  /\ visits \in Seq(Sights) /\ plan \in Seq(ModProjects)
  /\ depth \in [ModProjects -> 0..MaxDepth]

Planned(p) == \E k \in DOMAIN plan : plan[k] = p
\* The walk need not come to a project any more.
Told(p) == Planned(p) \/ p \in warned \/ Adding!Has(p, "recorded")
\* Of the visits that wait for an answer each is of a project of its own, that has been seen and
\* is not planned yet.
AskedIsApart ==
  /\ \A i, j \in DOMAIN visits :
       visits[i].asked /\ visits[j].asked /\ visits[i].project = visits[j].project => i = j
  /\ \A i \in DOMAIN visits :
       visits[i].asked => visits[i].project \in visited /\ ~Planned(visits[i].project)
PlannedOnce ==
  /\ \A i, j \in DOMAIN plan : plan[i] = plan[j] => i = j
  /\ \A i \in DOMAIN plan : plan[i] \in visited
\* A project that has been seen is told of, or its answer is awaited.
SeenIsTold == \A p \in visited :
  Told(p) \/ \E k \in DOMAIN visits : visits[k].asked /\ visits[k].project = p
\* What a planned project requires is told of, or it is still to be visited, until there are too many.
RequiredIsTold == \A i \in DOMAIN plan : depth[plan[i]] < MaxDepth =>
  \/ Len(plan) >= MaxPlan
  \/ \A q \in requires[plan[i]] : Told(q) \/ \E k \in DOMAIN visits : visits[k].project = q
RootIsFirst ==
  /\ plan # <<>> => plan[1] = RootProject
  /\ plan = <<>> => Len(visits) = 0 \/ (Len(visits) = 1 /\ visits[1].project = RootProject)
WalkIsOver == addPhase # "visit" => Len(visits) = 0

WalkInv ==
  /\ WalkTypes /\ AskedIsApart /\ PlannedOnce /\ SeenIsTold /\ RequiredIsTold
  /\ RootIsFirst /\ WalkIsOver

-----------------------------------------------------------------------------
(* Sequences.                                                              *)

\* The places of a sequence r that has m where s has its i-th.
IsSpliced(r, s, i, m) ==
  /\ Len(s) \in Nat /\ Len(m) \in Nat /\ i \in Nat /\ 1 <= i /\ i <= Len(s)
  /\ DOMAIN s = 1..Len(s) /\ DOMAIN m = 1..Len(m) /\ DOMAIN r = 1..(Len(s) - 1 + Len(m))
  /\ \A k \in 1..(Len(s) - 1 + Len(m)) :
       r[k] = IF k <= i - 1 THEN s[k]
              ELSE IF k <= i - 1 + Len(m) THEN m[k - (i - 1)] ELSE s[k - (i - 1 + Len(m)) + i]

\* Then all others of s are in r, at a place of their own, and all of m.
KeepsTheRest(r, s, i, m) ==
  /\ Len(r) = Len(s) - 1 + Len(m)
  /\ \A k \in DOMAIN r : \/ \E l \in DOMAIN m : r[k] = m[l]
                         \/ \E l \in DOMAIN s : l # i /\ r[k] = s[l]
  /\ \A l \in DOMAIN s : l # i => \E k \in DOMAIN r : r[k] = s[l]
  /\ \A l \in DOMAIN m : \E k \in DOMAIN r : r[k] = m[l]
  /\ \A k, l \in DOMAIN r : k # l =>
       \/ \E x \in DOMAIN m : r[k] = m[x] \/ r[l] = m[x]
       \/ \E a, b \in DOMAIN s : a # i /\ b # i /\ a # b /\ r[k] = s[a] /\ r[l] = s[b]

LEMMA KeptInPlace ==
  ASSUME NEW s, NEW m, NEW r, NEW i, IsSpliced(r, s, i, m), Len(r) = Len(s) - 1 + Len(m)
  PROVE  KeepsTheRest(r, s, i, m)
PROOF
<1> USE DEF IsSpliced
<1>9. \A k \in 1..(Len(s) - 1 + Len(m)) :
        \/ k - (i - 1) \in 1..Len(m) /\ r[k] = m[k - (i - 1)]
        \/ k \in 1..(i - 1) /\ r[k] = s[k]
        \/ k - Len(m) + 1 \in (i + 1)..Len(s) /\ r[k] = s[k - Len(m) + 1]
  <2> TAKE k \in 1..(Len(s) - 1 + Len(m))
  <2>1. CASE k <= i - 1
    BY <2>1
  <2>2. CASE ~(k <= i - 1) /\ k <= i - 1 + Len(m)
    <3>1. k - (i - 1) \in 1..Len(m)
      BY <2>2
    <3> QED
      BY <2>2, <3>1
  <2>3. CASE ~(k <= i - 1) /\ ~(k <= i - 1 + Len(m))
    <3>1. k - Len(m) + 1 \in (i + 1)..Len(s) /\ k - (i - 1 + Len(m)) + i = k - Len(m) + 1
      BY <2>3
    <3> QED
      BY <2>3, <3>1
  <2> QED
    BY <2>1, <2>2, <2>3
<1>10. \A k \in DOMAIN r : \/ \E l \in DOMAIN m : r[k] = m[l]
                           \/ \E l \in DOMAIN s : l # i /\ r[k] = s[l]
  <2> SUFFICES ASSUME NEW k \in 1..(Len(s) - 1 + Len(m))
               PROVE  \/ \E l \in 1..Len(m) : r[k] = m[l]
                      \/ \E l \in 1..Len(s) : l # i /\ r[k] = s[l]
    OBVIOUS
  <2>1. k \in 1..(i - 1) => k \in 1..Len(s) /\ k # i
    OBVIOUS
  <2>2. k - Len(m) + 1 \in (i + 1)..Len(s) => k - Len(m) + 1 \in 1..Len(s) /\ k - Len(m) + 1 # i
    OBVIOUS
  <2> QED
    BY <1>9, <2>1, <2>2
<1>11. \A l \in DOMAIN s : l # i => \E k \in DOMAIN r : r[k] = s[l]
  <2> SUFFICES ASSUME NEW l \in 1..Len(s), l # i PROVE \E k \in 1..(Len(s) - 1 + Len(m)) : r[k] = s[l]
    OBVIOUS
  <2>1. CASE l < i
    <3>1. l \in 1..(Len(s) - 1 + Len(m)) /\ l <= i - 1
      BY <2>1
    <3> QED
      BY <3>1
  <2>2. CASE l > i
    <3>1. /\ l - 1 + Len(m) \in 1..(Len(s) - 1 + Len(m)) /\ ~(l - 1 + Len(m) <= i - 1) /\ ~(l - 1 + Len(m) <= i - 1 + Len(m))
          /\ (l - 1 + Len(m)) - (i - 1 + Len(m)) + i = l
      BY <2>2
    <3>2. r[l - 1 + Len(m)] = s[(l - 1 + Len(m)) - (i - 1 + Len(m)) + i]
      BY <3>1
    <3> QED
      BY <3>1, <3>2
  <2>3. l < i \/ l > i
    OBVIOUS
  <2> QED
    BY <2>1, <2>2, <2>3
<1>12. \A l \in DOMAIN m : \E k \in DOMAIN r : r[k] = m[l]
  <2> SUFFICES ASSUME NEW l \in 1..Len(m) PROVE \E k \in 1..(Len(s) - 1 + Len(m)) : r[k] = m[l]
    OBVIOUS
  <2>1. /\ l + (i - 1) \in 1..(Len(s) - 1 + Len(m)) /\ ~(l + (i - 1) <= i - 1) /\ l + (i - 1) <= i - 1 + Len(m)
        /\ (l + (i - 1)) - (i - 1) = l
    OBVIOUS
  <2>2. r[l + (i - 1)] = m[(l + (i - 1)) - (i - 1)]
    BY <2>1
  <2> QED
    BY <2>1, <2>2
<1>13. \A k, l \in DOMAIN r : k # l =>
         \/ \E x \in DOMAIN m : r[k] = m[x] \/ r[l] = m[x]
         \/ \E a, b \in DOMAIN s : a # i /\ b # i /\ a # b /\ r[k] = s[a] /\ r[l] = s[b]
  <2> SUFFICES ASSUME NEW k \in DOMAIN r, NEW l \in DOMAIN r, k # l,
                      \A x \in DOMAIN m : r[k] # m[x] /\ r[l] # m[x]
               PROVE  \E a, b \in DOMAIN s : a # i /\ b # i /\ a # b /\ r[k] = s[a] /\ r[l] = s[b]
    BY ZenonT(30)
  <2>1. \/ k \in 1..(i - 1) /\ r[k] = s[k]
        \/ k - Len(m) + 1 \in (i + 1)..Len(s) /\ r[k] = s[k - Len(m) + 1]
    BY <1>9
  <2>2. \/ l \in 1..(i - 1) /\ r[l] = s[l]
        \/ l - Len(m) + 1 \in (i + 1)..Len(s) /\ r[l] = s[l - Len(m) + 1]
    BY <1>9
  <2>3. /\ \A x \in 1..(i - 1) : x \in 1..Len(s) /\ x # i
        /\ \A x \in (i + 1)..Len(s) : x \in 1..Len(s) /\ x # i
        /\ \A x \in 1..(i - 1), y \in (i + 1)..Len(s) : x # y /\ y # x
        /\ k - Len(m) + 1 # l - Len(m) + 1
    BY SMTT(30)
  <2>4. CASE k \in 1..(i - 1) /\ r[k] = s[k]
    BY <2>2, <2>3, <2>4
  <2>5. CASE k - Len(m) + 1 \in (i + 1)..Len(s) /\ r[k] = s[k - Len(m) + 1]
    BY <2>2, <2>3, <2>5
  <2> QED
    BY <2>1, <2>4, <2>5
<1> QED
  BY <1>10, <1>11, <1>12, <1>13 DEF KeepsTheRest

\* Which of three pieces a place is in: before the i-th of a, among the b, or after the i-th.
LEMMA WhichPiece ==
  ASSUME NEW a \in Nat, NEW b \in Nat, NEW i \in 1..a, NEW c, NEW d, c = i - 1 + b, d = a - i,
         NEW k \in 1..(a - 1 + b)
  PROVE  /\ k \in 1..(c + d)
         /\ k <= i - 1 => k <= c /\ k \in 1..(i - 1 + b) /\ k \in 1..(i - 1)
         /\ k <= i - 1 + b => k <= c /\ k \in 1..(i - 1 + b)
         /\ ~(k <= i - 1 + b) => ~(k <= c) /\ k - c \in 1..(a - i)
BY SMT

\* One of a sequence is replaced by others: the rest stay, each at a place of its own.
LEMMA Spliced ==
  ASSUME NEW S, NEW s \in Seq(S), NEW i \in DOMAIN s, NEW m \in Seq(S), NEW r,
         r = SubSeq(s, 1, i - 1) \o m \o SubSeq(s, i + 1, Len(s))
  PROVE  r \in Seq(S) /\ KeepsTheRest(r, s, i, m)
PROOF
<1> DEFINE front == SubSeq(s, 1, i - 1)
           back == SubSeq(s, i + 1, Len(s))
           mid == front \o m
<1>1. /\ Len(s) \in Nat /\ DOMAIN s = 1..Len(s) /\ i \in Nat /\ 1 <= i /\ i <= Len(s)
      /\ Len(m) \in Nat /\ DOMAIN m = 1..Len(m)
      /\ \A k \in 1..Len(s) : s[k] \in S
  BY LenProperties, ElementOfSeq
<1>2. front \in Seq(S) /\ Len(front) = i - 1 /\ \A k \in 1..(i - 1) : front[k] = s[k]
  <2>1. \A k \in 1..(i - 1) : s[k] \in S
    BY <1>1
  <2>2. 1 \in Int /\ i - 1 \in Int
    BY <1>1
  <2>3. /\ front \in Seq(S) /\ Len(front) = IF 1 <= i - 1 THEN (i - 1) - 1 + 1 ELSE 0
        /\ \A k \in 1..((i - 1) - 1 + 1) : front[k] = s[1 + k - 1]
    BY <2>1, <2>2, SubSeqProperties
  <2>4. \A k \in 1..(i - 1) : k \in 1..((i - 1) - 1 + 1) /\ 1 + k - 1 = k
    BY <1>1
  <2>5. (IF 1 <= i - 1 THEN (i - 1) - 1 + 1 ELSE 0) = i - 1
    BY <1>1
  <2> QED
    BY <2>3, <2>4, <2>5
<1>3. back \in Seq(S) /\ Len(back) = Len(s) - i /\ \A k \in 1..(Len(s) - i) : back[k] = s[k + i]
  <2>1. \A k \in (i + 1)..Len(s) : s[k] \in S
    BY <1>1
  <2>2. i + 1 \in Int /\ Len(s) \in Int
    BY <1>1
  <2>3. /\ back \in Seq(S) /\ Len(back) = IF i + 1 <= Len(s) THEN Len(s) - (i + 1) + 1 ELSE 0
        /\ \A k \in 1..(Len(s) - (i + 1) + 1) : back[k] = s[i + 1 + k - 1]
    BY <2>1, <2>2, SubSeqProperties
  <2>4. \A k \in 1..(Len(s) - i) : k \in 1..(Len(s) - (i + 1) + 1) /\ i + 1 + k - 1 = k + i
    BY <1>1
  <2>5. (IF i + 1 <= Len(s) THEN Len(s) - (i + 1) + 1 ELSE 0) = Len(s) - i
    BY <1>1
  <2> QED
    BY <2>3, <2>4, <2>5
<1>4. /\ mid \in Seq(S) /\ Len(mid) = i - 1 + Len(m)
      /\ \A k \in 1..(i - 1 + Len(m)) : mid[k] = IF k <= i - 1 THEN front[k] ELSE m[k - (i - 1)]
  <2>1. mid = front \o m
    OBVIOUS
  <2> HIDE DEF front, mid
  <2>2. /\ front \o m \in Seq(S) /\ Len(front \o m) = Len(front) + Len(m)
        /\ \A k \in 1..(Len(front) + Len(m)) :
             (front \o m)[k] = IF k <= Len(front) THEN front[k] ELSE m[k - Len(front)]
    BY <1>2, ConcatProperties
  <2> QED
    BY <1>2, <2>1, <2>2
<1>5. /\ r \in Seq(S) /\ Len(r) = Len(mid) + Len(back)
      /\ \A k \in 1..(Len(mid) + Len(back)) : r[k] = IF k <= Len(mid) THEN mid[k] ELSE back[k - Len(mid)]
  <2>1. r = mid \o back
    OBVIOUS
  <2>2. mid \in Seq(S) /\ back \in Seq(S)
    BY <1>3, <1>4
  <2> HIDE DEF mid, back
  <2>3. /\ mid \o back \in Seq(S) /\ Len(mid \o back) = Len(mid) + Len(back)
        /\ \A k \in 1..(Len(mid) + Len(back)) :
             (mid \o back)[k] = IF k <= Len(mid) THEN mid[k] ELSE back[k - Len(mid)]
    BY <2>2, ConcatProperties
  <2> QED
    BY <2>1, <2>3
<1> HIDE DEF front, back, mid
<1> DEFINE n == Len(s) - 1 + Len(m)
<1>6. Len(r) = n /\ DOMAIN r = 1..n /\ n \in Nat
  BY SMTT(30), <1>1, <1>3, <1>4, <1>5, LenProperties
<1>7. \A k \in 1..n : r[k] = IF k <= i - 1 THEN s[k]
                             ELSE IF k <= i - 1 + Len(m) THEN m[k - (i - 1)]
                             ELSE s[k - (i - 1 + Len(m)) + i]
  <2> TAKE k \in 1..n
  <2>0. /\ k \in 1..(Len(mid) + Len(back))
        /\ k <= i - 1 => k <= Len(mid) /\ k \in 1..(i - 1 + Len(m)) /\ k \in 1..(i - 1)
        /\ k <= i - 1 + Len(m) => k <= Len(mid) /\ k \in 1..(i - 1 + Len(m))
        /\ ~(k <= i - 1 + Len(m)) => ~(k <= Len(mid)) /\ k - Len(mid) \in 1..(Len(s) - i)
    <3>1. Len(s) \in Nat /\ Len(m) \in Nat /\ i \in 1..Len(s)
      BY <1>1
    <3>2. Len(mid) = i - 1 + Len(m) /\ Len(back) = Len(s) - i
      BY <1>3, <1>4
    <3> QED
      BY <3>1, <3>2, WhichPiece
  <2>1. CASE k <= i - 1
    <3>1. k \in 1..(Len(mid) + Len(back)) /\ k <= Len(mid) /\ k \in 1..(i - 1 + Len(m)) /\ k \in 1..(i - 1)
      BY <2>0, <2>1
    <3> QED
      BY <1>2, <1>4, <1>5, <2>1, <3>1
  <2>2. CASE ~(k <= i - 1) /\ k <= i - 1 + Len(m)
    <3>1. k \in 1..(Len(mid) + Len(back)) /\ k <= Len(mid) /\ k \in 1..(i - 1 + Len(m))
      BY <2>0, <2>2
    <3> QED
      BY <1>4, <1>5, <2>2, <3>1
  <2>3. CASE ~(k <= i - 1) /\ ~(k <= i - 1 + Len(m))
    <3>1. /\ k \in 1..(Len(mid) + Len(back)) /\ ~(k <= Len(mid))
          /\ k - Len(mid) \in 1..(Len(s) - i)
      BY <2>0, <2>3
    <3> QED
      BY <1>3, <1>4, <1>5, <2>3, <3>1
  <2> QED
    BY <2>1, <2>2, <2>3
<1>9. DOMAIN r = 1..(Len(s) - 1 + Len(m)) /\ Len(r) = Len(s) - 1 + Len(m) /\ r \in Seq(S)
  BY <1>5, <1>6
<1>10. IsSpliced(r, s, i, m)
  BY <1>1, <1>7, <1>9 DEF IsSpliced
<1> QED
  BY <1>9, <1>10, KeptInPlace

\* One is removed.
LEMMA Removed ==
  ASSUME NEW S, NEW s \in Seq(S), NEW i \in DOMAIN s
  PROVE  SubSeq(s, 1, i - 1) \o <<>> \o SubSeq(s, i + 1, Len(s)) = Adding!RemoveAt(s, i)
PROOF
<1>1. Len(s) \in Nat /\ DOMAIN s = 1..Len(s) /\ \A k \in 1..Len(s) : s[k] \in S
  BY LenProperties, ElementOfSeq
<1>2. i - 1 \in Int /\ 1 \in Int /\ \A k \in 1..(i - 1) : s[k] \in S
  BY <1>1
<1>3. SubSeq(s, 1, i - 1) \in Seq(S)
  BY <1>2, SubSeqProperties
<1>4. SubSeq(s, 1, i - 1) \o <<>> = SubSeq(s, 1, i - 1)
  BY <1>3, ConcatEmptySeq
<1> QED
  BY <1>4 DEF Adding!RemoveAt

-----------------------------------------------------------------------------
(* The walk.                                                               *)

\* What is typed.
LEMMA WalkTyped ==
  ASSUME WalkTypes
  PROVE  /\ Len(visits) \in Nat /\ DOMAIN visits = 1..Len(visits)
         /\ \A k \in DOMAIN visits : /\ visits[k] \in Sights /\ visits[k].project \in ModProjects
                                     /\ visits[k].depth \in 0..MaxDepth
         /\ Len(plan) \in Nat /\ DOMAIN plan = 1..Len(plan)
         /\ \A k \in DOMAIN plan : plan[k] \in ModProjects
PROOF
<1>1. visits \in Seq(Sights) /\ plan \in Seq(ModProjects)
  BY DEF WalkTypes
<1>2. /\ Len(visits) \in Nat /\ DOMAIN visits = 1..Len(visits)
      /\ Len(plan) \in Nat /\ DOMAIN plan = 1..Len(plan)
  BY <1>1, LenProperties
<1>3. \A k \in 1..Len(visits) : visits[k] \in Sights
  BY <1>1, ElementOfSeq
<1>4. \A k \in 1..Len(plan) : plan[k] \in ModProjects
  BY <1>1, ElementOfSeq
<1> QED
  BY <1>2, <1>3, <1>4 DEF Sights

\* Each of the visits that wait for an answer is of a project of its own.
Apart(v) == \A k, l \in DOMAIN v : v[k].asked /\ v[l].asked /\ v[k].project = v[l].project => k = l

\* A visit has ended: those that have asked are the others that had, and no other is lost.
OthersStay(r, v, i) ==
  /\ Apart(r)
  /\ \A k \in DOMAIN r : r[k].asked => \E l \in DOMAIN v : l # i /\ r[k] = v[l]
  /\ \A q : (\E k \in DOMAIN v : v[k].project = q) =>
       q = v[i].project \/ \E k \in DOMAIN r : r[k].project = q
  /\ \A q : (\E k \in DOMAIN v : v[k].asked /\ v[k].project = q) =>
       (v[i].asked /\ q = v[i].project) \/ \E k \in DOMAIN r : r[k].asked /\ r[k].project = q

\* A visit has ended, and others have begun that have not asked yet.
LEMMA AVisitEnds ==
  ASSUME NEW v, NEW i \in DOMAIN v, NEW m, NEW r,
         \A l \in DOMAIN m : ~m[l].asked, Apart(v), KeepsTheRest(r, v, i, m)
  PROVE  OthersStay(r, v, i)
PROOF
<1>0. /\ \A k \in DOMAIN r : \/ \E l \in DOMAIN m : r[k] = m[l]
                             \/ \E l \in DOMAIN v : l # i /\ r[k] = v[l]
      /\ \A l \in DOMAIN v : l # i => \E k \in DOMAIN r : r[k] = v[l]
      /\ \A k, l \in DOMAIN r : k # l =>
           \/ \E x \in DOMAIN m : r[k] = m[x] \/ r[l] = m[x]
           \/ \E a, b \in DOMAIN v : a # i /\ b # i /\ a # b /\ r[k] = v[a] /\ r[l] = v[b]
  BY DEF KeepsTheRest
<1>1. \A k \in DOMAIN r : r[k].asked => \E l \in DOMAIN v : l # i /\ r[k] = v[l]
  BY <1>0
<1>2. \A l \in DOMAIN v : l # i => \E k \in DOMAIN r : r[k] = v[l]
  BY <1>0
<1>3. Apart(r)
  <2> SUFFICES ASSUME NEW k \in DOMAIN r, NEW l \in DOMAIN r, r[k].asked, r[l].asked,
                      r[k].project = r[l].project, k # l
               PROVE  FALSE
    BY DEF Apart
  <2>1. PICK a, b \in DOMAIN v : a # b /\ r[k] = v[a] /\ r[l] = v[b]
    BY <1>0
  <2>2. v[a].asked /\ v[b].asked /\ v[a].project = v[b].project
    BY <2>1
  <2> QED
    BY <2>1, <2>2 DEF Apart
<1>4. ASSUME NEW q, NEW k \in DOMAIN v, v[k].project = q, q # v[i].project
      PROVE  \E l \in DOMAIN r : r[l].project = q
  <2>1. k # i
    BY <1>4
  <2> QED
    BY <1>2, <1>4, <2>1
<1>5. ASSUME NEW q, NEW k \in DOMAIN v, v[k].asked, v[k].project = q,
             ~(v[i].asked /\ q = v[i].project)
      PROVE  \E l \in DOMAIN r : r[l].asked /\ r[l].project = q
  <2>1. k # i
    BY <1>5
  <2> QED
    BY <1>2, <1>5, <2>1
<1> QED
  BY <1>1, <1>3, <1>4, <1>5 DEF OthersStay

\* A visit has ended.
LEMMA OnlyEnds ==
  ASSUME NEW v \in Seq(Sights), NEW i \in DOMAIN v, NEW r, r = Adding!RemoveAt(v, i), Apart(v)
  PROVE  r \in Seq(Sights) /\ Len(r) = Len(v) - 1 /\ OthersStay(r, v, i)
PROOF
<1>1. <<>> \in Seq(Sights) /\ Len(<<>>) = 0 /\ DOMAIN <<>> = {}
  BY EmptySeq
<1>2. \E m \in Seq(Sights) : m = <<>>
  BY <1>1
<1>3. PICK m \in Seq(Sights) : m = <<>>
  BY <1>2
<1>4. r = SubSeq(v, 1, i - 1) \o m \o SubSeq(v, i + 1, Len(v))
  BY <1>3, Removed
<1>5. \A l \in DOMAIN m : ~m[l].asked
  BY <1>1, <1>3
<1>6. Len(v) \in Nat
  BY LenProperties
<1>7. r \in Seq(Sights) /\ KeepsTheRest(r, v, i, m)
  BY <1>4, Spliced
<1>8. Len(r) = Len(v) - 1 + Len(m)
  BY <1>7 DEF KeepsTheRest
<1>9. Len(r) = Len(v) - 1
  BY <1>1, <1>3, <1>6, <1>8
<1> QED
  BY <1>5, <1>7, <1>9, AVisitEnds

\* A visit that ends before it asks: its project is told of or awaited, or there are too many.
LEMMA EndsUnasked ==
  ASSUME AddSizes, WalkInv, NEW i \in DOMAIN visits, ~visits[i].asked, addPhase = "visit",
         visits' = Adding!RemoveAt(visits, i), visited \subseteq visited',
         \A p \in visited' \ visited : Told(p),
         visits[i].project \in visited' \/ Len(plan) >= MaxPlan,
         UNCHANGED <<requires, facts, plan, warned, depth, addPhase>>
  PROVE  WalkInv'
PROOF
<1>1. WalkTypes /\ visits \in Seq(Sights)
  BY DEF WalkInv, WalkTypes
<1>2. \A k, l \in DOMAIN visits :
        visits[k].asked /\ visits[l].asked /\ visits[k].project = visits[l].project => k = l
  BY DEF WalkInv, AskedIsApart
<1>3. PICK v \in Seq(Sights) : v = visits
  BY <1>1
<1>13. PICK r : r = visits'
  OBVIOUS
<1>14. r = Adding!RemoveAt(v, i) /\ Apart(v) /\ i \in DOMAIN v /\ ~v[i].asked
  BY <1>2, <1>3, <1>13 DEF Apart, Adding!RemoveAt
<1>15. r \in Seq(Sights) /\ Len(r) = Len(v) - 1 /\ OthersStay(r, v, i)
  BY <1>14, OnlyEnds
<1>16. /\ \A k \in DOMAIN r : r[k].asked => \E l \in DOMAIN v : l # i /\ r[k] = v[l]
       /\ \A q : (\E k \in DOMAIN v : v[k].project = q) =>
            q = v[i].project \/ \E k \in DOMAIN r : r[k].project = q
       /\ \A q : (\E k \in DOMAIN v : v[k].asked /\ v[k].project = q) =>
            \E k \in DOMAIN r : r[k].asked /\ r[k].project = q
  BY <1>14, <1>15 DEF OthersStay
<1>17. \A k, l \in DOMAIN r : r[k].asked /\ r[l].asked /\ r[k].project = r[l].project => k = l
  BY <1>15 DEF OthersStay, Apart
<1>18. visits' \in Seq(Sights) /\ Len(visits') = Len(visits) - 1
  BY <1>3, <1>13, <1>15
<1>4. /\ \A k \in DOMAIN visits' : visits'[k].asked =>
              \E l \in DOMAIN visits : l # i /\ visits'[k] = visits[l]
      /\ \A q : (\E k \in DOMAIN visits : visits[k].project = q) =>
           q = visits[i].project \/ \E k \in DOMAIN visits' : visits'[k].project = q
      /\ \A q : (\E k \in DOMAIN visits : visits[k].asked /\ visits[k].project = q) =>
           \E k \in DOMAIN visits' : visits'[k].asked /\ visits'[k].project = q
  BY <1>3, <1>13, <1>16
<1>19. \A k, l \in DOMAIN visits' :
         visits'[k].asked /\ visits'[l].asked /\ visits'[k].project = visits'[l].project => k = l
  BY <1>13, <1>17
<1>5. \A p : (Told(p) <=> Told(p)') /\ (Planned(p) <=> Planned(p)')
  BY DEF Told, Planned, Adding!Has
<1>6. WalkTypes'
  BY <1>1, <1>18 DEF WalkTypes
<1>7. AskedIsApart'
  BY <1>4, <1>5, <1>19 DEF WalkInv, AskedIsApart
<1>8. PlannedOnce'
  BY DEF WalkInv, PlannedOnce
<1>9. SeenIsTold'
  <2> SUFFICES ASSUME NEW p \in visited'
               PROVE  Told(p)' \/ \E k \in DOMAIN visits' : visits'[k].asked /\ visits'[k].project = p
    BY DEF SeenIsTold
  <2>1. Told(p) \/ \E k \in DOMAIN visits : visits[k].asked /\ visits[k].project = p
    BY DEF WalkInv, SeenIsTold
  <2> QED
    BY <1>4, <1>5, <2>1
<1>10. RequiredIsTold'
  <2> SUFFICES ASSUME NEW n \in DOMAIN plan, depth[plan[n]] < MaxDepth, ~(Len(plan) >= MaxPlan),
                      NEW q \in requires[plan[n]]
               PROVE  Told(q)' \/ \E k \in DOMAIN visits' : visits'[k].project = q
    BY DEF RequiredIsTold
  <2>1. Told(q) \/ \E k \in DOMAIN visits : visits[k].project = q
    BY DEF WalkInv, RequiredIsTold
  <2>2. CASE q = visits[i].project
    <3>1. q \in visited'
      BY <2>2
    <3>2. Told(q)' \/ \E k \in DOMAIN visits' : visits'[k].asked /\ visits'[k].project = q
      BY <1>9, <3>1 DEF SeenIsTold
    <3> QED
      BY <3>2
  <2>3. CASE q # visits[i].project
    BY <1>4, <1>5, <2>1, <2>3
  <2> QED
    BY <2>2, <2>3
<1>11. RootIsFirst'
  <2>1. plan = <<>> => Len(visits') = 0
    <3>1. Len(visits) \in Nat /\ DOMAIN visits = 1..Len(visits)
      BY <1>1, WalkTyped
    <3> QED
      BY <1>18, <3>1 DEF WalkInv, RootIsFirst
  <2>2. RootIsFirst /\ plan' = plan
    BY DEF WalkInv
  <2> QED
    BY <2>1, <2>2 DEF RootIsFirst
<1>12. WalkIsOver'
  BY DEF WalkIsOver
<1> QED
  BY <1>6, <1>7, <1>8, <1>9, <1>10, <1>11, <1>12 DEF WalkInv

\* The first piece of a visit.
LEMMA Asking ==
  ASSUME AddSizes, WalkInv, NEW i \in DOMAIN visits, Adding!Asks(i)
  PROVE  WalkInv'
PROOF
<1> DEFINE p == visits[i].project
<1>1. /\ addPhase = "visit" /\ ~visits[i].asked
      /\ UNCHANGED <<requires, facts, plan, warned, depth, addPhase>>
  BY DEF Adding!Asks, Adding!world
<1>2. WalkTypes /\ visits \in Seq(Sights)
  BY DEF WalkInv, WalkTypes
<1>3. /\ Len(visits) \in Nat /\ DOMAIN visits = 1..Len(visits)
      /\ p \in ModProjects /\ visits[i] \in Sights
  BY <1>2, WalkTyped
<1>4. CASE /\ p \in visited \/ Len(plan) >= MaxPlan
           /\ visits' = Adding!RemoveAt(visits, i) /\ visited' = visited
  BY <1>1, <1>4, EndsUnasked
<1>5. CASE /\ Adding!Has(p, "recorded") /\ visited' = visited \cup {p}
           /\ visits' = Adding!RemoveAt(visits, i)
  <2>1. \A q \in visited' \ visited : Told(q)
    BY <1>5 DEF Told
  <2>2. visited \subseteq visited' /\ p \in visited'
    BY <1>5
  <2> QED
    BY <1>1, <1>5, <2>1, <2>2, EndsUnasked
<1>6. CASE /\ p \notin visited /\ visited' = visited \cup {p}
           /\ visits' = [visits EXCEPT ![i].asked = TRUE]
  <2> DEFINE w == [visits[i] EXCEPT !.asked = TRUE]
  <2>1. w \in Sights /\ w.asked /\ w.project = p
    BY <1>3 DEF Sights
  <2> HIDE DEF w
  <2>2. visits' = [visits EXCEPT ![i] = w]
    BY <1>6 DEF w
  <2>3. visits' \in Seq(Sights) /\ Len(visits') = Len(visits)
    BY <1>2, <1>3, <2>1, <2>2, ExceptSeq
  <2>4. /\ DOMAIN visits' = DOMAIN visits /\ visits'[i] = w
        /\ \A k \in DOMAIN visits : k # i => visits'[k] = visits[k]
    BY <1>2, <2>2
  <2>5. /\ \A k \in DOMAIN visits : visits'[k].project = visits[k].project
        /\ \A k \in DOMAIN visits : visits[k].asked => visits'[k].asked
        /\ \A k \in DOMAIN visits : k # i /\ visits'[k].asked => visits[k].asked
    BY <1>1, <2>1, <2>4
  <2>6. \A q : (Told(q) <=> Told(q)') /\ (Planned(q) <=> Planned(q)')
    BY <1>1 DEF Told, Planned, Adding!Has
  <2>7. ~Planned(p)
    BY <1>6 DEF WalkInv, PlannedOnce, Planned
  <2>8. \A k \in DOMAIN visits : k # i /\ visits'[k].asked => visits[k].project \in visited /\ visits[k].project # p
    BY <1>6, <2>5 DEF WalkInv, AskedIsApart
  <2>9. AskedIsApart'
    <3>1. ASSUME NEW k \in DOMAIN visits, NEW l \in DOMAIN visits, visits'[k].asked, visits'[l].asked,
                 visits'[k].project = visits'[l].project
          PROVE  k = l
      <4>1. CASE k = i \/ l = i
        BY <2>5, <2>8, <3>1, <4>1
      <4>2. CASE k # i /\ l # i
        BY <2>5, <3>1, <4>2 DEF WalkInv, AskedIsApart
      <4> QED
        BY <4>1, <4>2
    <3>2. ASSUME NEW k \in DOMAIN visits, visits'[k].asked
          PROVE  visits'[k].project \in visited' /\ ~Planned(visits[k].project)
      <4>1. CASE k = i
        <5>1. visits'[k].project = p /\ visits[k].project = p
          BY <2>5, <4>1
        <5>2. ~Planned(visits[k].project)
          BY <2>7, <5>1 DEF Planned
        <5> HIDE DEF p
        <5> QED
          BY <1>6, <5>1, <5>2 DEF p
      <4>2. CASE k # i
        BY <1>6, <2>5, <3>2, <4>2 DEF WalkInv, AskedIsApart
      <4> QED
        BY <4>1, <4>2
    <3>3. \A k \in DOMAIN visits : visits'[k].asked => ~\E n \in DOMAIN plan : plan[n] = visits'[k].project
      BY <2>5, <3>2 DEF Planned
    <3> QED
      BY <1>1, <2>4, <3>1, <3>2, <3>3 DEF AskedIsApart, Planned
  <2>10. PlannedOnce'
    BY <1>1, <1>6 DEF WalkInv, PlannedOnce
  <2>11. SeenIsTold'
    <3> SUFFICES ASSUME NEW q \in visited'
                 PROVE  Told(q)' \/ \E k \in DOMAIN visits' : visits'[k].asked /\ visits'[k].project = q
      BY DEF SeenIsTold
    <3>1. CASE q = p
      BY <2>1, <2>4, <3>1
    <3>2. CASE q # p
      <4>1. Told(q) \/ \E k \in DOMAIN visits : visits[k].asked /\ visits[k].project = q
        BY <1>6, <3>2 DEF WalkInv, SeenIsTold
      <4> QED
        BY <2>4, <2>5, <2>6, <4>1
    <3> QED
      BY <3>1, <3>2
  <2>12. RequiredIsTold'
    <3> SUFFICES ASSUME NEW n \in DOMAIN plan, depth[plan[n]] < MaxDepth, ~(Len(plan) >= MaxPlan),
                        NEW q \in requires[plan[n]]
                 PROVE  Told(q)' \/ \E k \in DOMAIN visits' : visits'[k].project = q
      BY <1>1 DEF RequiredIsTold
    <3>1. Told(q) \/ \E k \in DOMAIN visits : visits[k].project = q
      BY DEF WalkInv, RequiredIsTold
    <3> QED
      BY <2>4, <2>5, <2>6, <3>1
  <2>13. RootIsFirst'
    <3>1. Len(visits) = 1 => visits'[1].project = visits[1].project
      BY <1>3, <2>5
    <3>2. RootIsFirst
      BY DEF WalkInv
    <3> QED
      BY <1>1, <2>3, <3>1, <3>2 DEF RootIsFirst
  <2>14. WalkIsOver' /\ WalkTypes'
    BY <1>1, <1>2, <2>3 DEF WalkIsOver, WalkTypes
  <2> QED
    BY <2>9, <2>10, <2>11, <2>12, <2>13, <2>14 DEF WalkInv
<1> QED
  BY <1>4, <1>5, <1>6 DEF Adding!Asks, Adding!SeenAlready, Adding!Ends

\* The answer gives up: the project is warned of.
LEMMA VisitGivenUp ==
  ASSUME AddSizes, WalkInv, NEW i \in DOMAIN visits, Adding!Unanswered(i)
  PROVE  WalkInv'
PROOF
<1> DEFINE p == visits[i].project
<1>1. /\ addPhase = "visit" /\ visits[i].asked
      /\ visits' = Adding!RemoveAt(visits, i) /\ warned' = warned \cup {p}
      /\ UNCHANGED <<requires, facts, visited, plan, depth, addPhase>>
  BY DEF Adding!Unanswered, Adding!world, Adding!Ends
<1>2. WalkTypes /\ visits \in Seq(Sights) /\ AskedIsApart
  BY DEF WalkInv, WalkTypes
<1>3. PICK v \in Seq(Sights) : v = visits
  BY <1>2
<1>4. PICK r : r = visits'
  OBVIOUS
<1>5. r = Adding!RemoveAt(v, i) /\ Apart(v) /\ i \in DOMAIN v
  BY <1>1, <1>2, <1>3, <1>4 DEF AskedIsApart, Apart, Adding!RemoveAt
<1>6. r \in Seq(Sights) /\ Len(r) = Len(v) - 1 /\ OthersStay(r, v, i)
  BY <1>5, OnlyEnds
<1>7. /\ \A k \in DOMAIN r : r[k].asked => \E l \in DOMAIN v : l # i /\ r[k] = v[l]
      /\ \A q : (\E k \in DOMAIN v : v[k].project = q) =>
           q = v[i].project \/ \E k \in DOMAIN r : r[k].project = q
      /\ \A q : (\E k \in DOMAIN v : v[k].asked /\ v[k].project = q) =>
           q = v[i].project \/ \E k \in DOMAIN r : r[k].asked /\ r[k].project = q
  BY <1>6 DEF OthersStay
<1>8. \A k, l \in DOMAIN r : r[k].asked /\ r[l].asked /\ r[k].project = r[l].project => k = l
  BY <1>6 DEF OthersStay, Apart
<1>9. visits' \in Seq(Sights) /\ Len(visits') = Len(visits) - 1
  BY <1>3, <1>4, <1>6
<1>10. /\ \A k \in DOMAIN visits' : visits'[k].asked =>
               \E l \in DOMAIN visits : l # i /\ visits'[k] = visits[l]
       /\ \A q : (\E k \in DOMAIN visits : visits[k].project = q) =>
            q = p \/ \E k \in DOMAIN visits' : visits'[k].project = q
       /\ \A q : (\E k \in DOMAIN visits : visits[k].asked /\ visits[k].project = q) =>
            q = p \/ \E k \in DOMAIN visits' : visits'[k].asked /\ visits'[k].project = q
  BY <1>3, <1>4, <1>7
<1>11. \A k, l \in DOMAIN visits' :
         visits'[k].asked /\ visits'[l].asked /\ visits'[k].project = visits'[l].project => k = l
  BY <1>4, <1>8
<1>12. \A q : /\ Told(q) => Told(q)'
              /\ Planned(q) <=> Planned(q)'
              /\ q = p => Told(q)'
  BY <1>1 DEF Told, Planned, Adding!Has
<1>13. WalkTypes'
  BY <1>1, <1>2, <1>9 DEF WalkTypes
<1>14. AskedIsApart'
  BY <1>1, <1>2, <1>10, <1>11, <1>12 DEF AskedIsApart
<1>15. PlannedOnce'
  BY <1>1 DEF WalkInv, PlannedOnce
<1>16. SeenIsTold'
  <2> SUFFICES ASSUME NEW q \in visited
               PROVE  Told(q)' \/ \E k \in DOMAIN visits' : visits'[k].asked /\ visits'[k].project = q
    BY <1>1 DEF SeenIsTold
  <2>1. Told(q) \/ \E k \in DOMAIN visits : visits[k].asked /\ visits[k].project = q
    BY DEF WalkInv, SeenIsTold
  <2> QED
    BY <1>10, <1>12, <2>1
<1>17. RequiredIsTold'
  <2> SUFFICES ASSUME NEW n \in DOMAIN plan, depth[plan[n]] < MaxDepth, ~(Len(plan) >= MaxPlan),
                      NEW q \in requires[plan[n]]
               PROVE  Told(q)' \/ \E k \in DOMAIN visits' : visits'[k].project = q
    BY <1>1 DEF RequiredIsTold
  <2>1. Told(q) \/ \E k \in DOMAIN visits : visits[k].project = q
    BY DEF WalkInv, RequiredIsTold
  <2> QED
    BY <1>10, <1>12, <2>1
<1>18. RootIsFirst'
  <2>1. plan = <<>> => Len(visits') = 0
    <3>1. Len(visits) \in Nat /\ DOMAIN visits = 1..Len(visits)
      BY <1>2, WalkTyped
    <3> QED
      BY <1>9, <3>1 DEF WalkInv, RootIsFirst
  <2>2. RootIsFirst
    BY DEF WalkInv
  <2> QED
    BY <1>1, <2>1, <2>2 DEF RootIsFirst
<1>19. WalkIsOver'
  BY <1>1 DEF WalkIsOver
<1> QED
  BY <1>13, <1>14, <1>15, <1>16, <1>17, <1>18, <1>19 DEF WalkInv

\* What is visited after the answer: all that the project requires, unless it is too deep.
LEMMA NextVisits ==
  ASSUME AddSizes, WalkTypes, NEW v \in Sights, NEW p \in ModProjects, v.depth < MaxDepth,
         NEW order \in [1..Adding!Cardinality(requires[p]) ->
                          {[project |-> q, depth |-> v.depth + 1, asked |-> FALSE] : q \in requires[p]}],
         Adding!Range(order) = {[project |-> q, depth |-> v.depth + 1, asked |-> FALSE] : q \in requires[p]}
  PROVE  /\ order \in Seq(Sights)
         /\ \A k \in DOMAIN order : ~order[k].asked
         /\ \A q \in requires[p] : \E k \in DOMAIN order : order[k].project = q
PROOF
<1> DEFINE Sees(q) == [project |-> q, depth |-> v.depth + 1, asked |-> FALSE]
           N == Adding!Cardinality(requires[p])
<1>1. N \in Nat
  <2>1. requires[p] \subseteq ModProjects /\ IsFiniteSet(ModProjects)
    BY DEF WalkTypes, AddSizes
  <2>2. IsFiniteSet(requires[p])
    BY <2>1, FS_Subset
  <2>3. Cardinality(requires[p]) \in Nat
    BY <2>2, FS_CardinalityType
  <2> QED
    BY <2>3 DEF Cardinality, Adding!Cardinality, IsFiniteSet, Adding!IsFiniteSet
<1>2. \A q \in requires[p] : Sees(q) \in Sights /\ ~Sees(q).asked /\ Sees(q).project = q
  <2>1. \A q \in requires[p] : q \in ModProjects
    BY DEF WalkTypes
  <2>2. v.depth \in 0..MaxDepth /\ MaxDepth \in Nat
    BY DEF Sights, AddSizes
  <2>3. v.depth + 1 \in 0..MaxDepth
    BY <2>2
  <2> QED
    BY <2>1, <2>3 DEF Sights
<1> HIDE DEF N
<1>3. DOMAIN order = 1..N /\ \A k \in 1..N : \E q \in requires[p] : order[k] = Sees(q)
  BY DEF N
<1>4. order \in [1..N -> Sights]
  <2>1. \A k \in 1..N : order[k] \in Sights
    BY <1>2, <1>3
  <2>2. order = [k \in 1..N |-> order[k]]
    BY DEF N
  <2> QED
    BY <2>1, <2>2
<1>5. order \in Seq(Sights)
  BY <1>1, <1>4
<1>6. \A k \in DOMAIN order : ~order[k].asked
  BY <1>2, <1>3
<1>7. ASSUME NEW q \in requires[p] PROVE \E k \in DOMAIN order : order[k].project = q
  <2>1. Sees(q) \in Adding!Range(order)
    OBVIOUS
  <2>2. PICK k \in DOMAIN order : order[k] = Sees(q)
    BY <2>1 DEF Adding!Range
  <2> QED
    BY <1>2, <2>2
<1> QED
  BY <1>5, <1>6, <1>7

\* The answer comes: the project is planned, and what it requires is visited next.
LEMMA Planning ==
  ASSUME AddSizes, WalkInv, NEW i \in DOMAIN visits, Adding!Answered(i)
  PROVE  WalkInv'
PROOF
<1> DEFINE p == visits[i].project
           d == visits[i].depth
<1>1. /\ addPhase = "visit" /\ visits[i].asked
      /\ plan' = Append(plan, p) /\ depth' = [depth EXCEPT ![p] = d]
      /\ UNCHANGED <<requires, facts, visited, warned, addPhase>>
  BY DEF Adding!Answered, Adding!world
<1>2. WalkTypes /\ visits \in Seq(Sights) /\ AskedIsApart
  BY DEF WalkInv, WalkTypes
<1>3. visits[i] \in Sights /\ p \in ModProjects /\ d \in 0..MaxDepth
  BY <1>2, WalkTyped
<1>4. PICK m \in Seq(Sights) :
        /\ visits' = SubSeq(visits, 1, i - 1) \o m \o SubSeq(visits, i + 1, Len(visits))
        /\ \A k \in DOMAIN m : ~m[k].asked
        /\ d < MaxDepth => \A q \in requires[p] : \E k \in DOMAIN m : m[k].project = q
  <2>1. CASE d < MaxDepth
    <3>1. PICK order \in [1..Adding!Cardinality(requires[p]) ->
                            {[project |-> q, depth |-> d + 1, asked |-> FALSE] : q \in requires[p]}] :
            /\ Adding!Range(order) =
                 {[project |-> q, depth |-> d + 1, asked |-> FALSE] : q \in requires[p]}
            /\ visits' = SubSeq(visits, 1, i - 1) \o order \o SubSeq(visits, i + 1, Len(visits))
      BY <2>1 DEF Adding!Answered
    <3>2. /\ order \in Seq(Sights)
          /\ \A k \in DOMAIN order : ~order[k].asked
          /\ \A q \in requires[p] : \E k \in DOMAIN order : order[k].project = q
      BY <1>2, <1>3, <2>1, <3>1, NextVisits
    <3> QED
      BY <3>1, <3>2
  <2>2. CASE ~(d < MaxDepth)
    <3>1. visits' = SubSeq(visits, 1, i - 1) \o <<>> \o SubSeq(visits, i + 1, Len(visits))
      BY <2>2 DEF Adding!Answered
    <3>2. <<>> \in Seq(Sights) /\ DOMAIN <<>> = {}
      BY EmptySeq
    <3> QED
      BY <2>2, <3>1, <3>2
  <2> QED
    BY <2>1, <2>2
<1>5. PICK v \in Seq(Sights) : v = visits
  BY <1>2
<1>6. PICK r : r = visits'
  OBVIOUS
<1>7. Apart(v) /\ i \in DOMAIN v /\ r = SubSeq(v, 1, i - 1) \o m \o SubSeq(v, i + 1, Len(v))
  BY <1>2, <1>4, <1>5, <1>6 DEF AskedIsApart, Apart
<1>8. r \in Seq(Sights) /\ KeepsTheRest(r, v, i, m)
  BY <1>7, Spliced
<1>9. OthersStay(r, v, i)
  BY <1>4, <1>7, <1>8, AVisitEnds
<1>10. /\ \A k \in DOMAIN r : r[k].asked => \E l \in DOMAIN v : l # i /\ r[k] = v[l]
       /\ \A q : (\E k \in DOMAIN v : v[k].project = q) =>
            q = v[i].project \/ \E k \in DOMAIN r : r[k].project = q
       /\ \A q : (\E k \in DOMAIN v : v[k].asked /\ v[k].project = q) =>
            q = v[i].project \/ \E k \in DOMAIN r : r[k].asked /\ r[k].project = q
  BY <1>9 DEF OthersStay
<1>11. \A k, l \in DOMAIN r : r[k].asked /\ r[l].asked /\ r[k].project = r[l].project => k = l
  BY <1>9 DEF OthersStay, Apart
<1>12. \A l \in DOMAIN m : \E k \in DOMAIN r : r[k] = m[l]
  BY <1>8 DEF KeepsTheRest
<1>13. /\ visits' \in Seq(Sights)
       /\ \A k \in DOMAIN visits' : visits'[k].asked =>
               \E l \in DOMAIN visits : l # i /\ visits'[k] = visits[l]
       /\ \A q : (\E k \in DOMAIN visits : visits[k].project = q) =>
            q = p \/ \E k \in DOMAIN visits' : visits'[k].project = q
       /\ \A q : (\E k \in DOMAIN visits : visits[k].asked /\ visits[k].project = q) =>
            q = p \/ \E k \in DOMAIN visits' : visits'[k].asked /\ visits'[k].project = q
  BY <1>5, <1>6, <1>8, <1>10
<1>14. \A k, l \in DOMAIN visits' :
         visits'[k].asked /\ visits'[l].asked /\ visits'[k].project = visits'[l].project => k = l
  BY <1>6, <1>11
<1>15. d < MaxDepth => \A q \in requires[p] : \E k \in DOMAIN visits' : visits'[k].project = q
  <2> SUFFICES ASSUME d < MaxDepth, NEW q \in requires[p]
               PROVE  \E k \in DOMAIN visits' : visits'[k].project = q
    OBVIOUS
  <2>1. PICK l \in DOMAIN m : m[l].project = q
    BY <1>4
  <2>2. PICK k \in DOMAIN r : r[k] = m[l]
    BY <1>12
  <2> QED
    BY <1>6, <2>1, <2>2
<1> HIDE DEF p, d
<1>16. plan \in Seq(ModProjects) /\ depth \in [ModProjects -> 0..MaxDepth]
  BY <1>2 DEF WalkTypes
<1>17. /\ plan' \in Seq(ModProjects) /\ plan' # <<>> /\ Len(plan') = Len(plan) + 1
       /\ \A k \in 1..Len(plan) : plan'[k] = plan[k]
       /\ plan'[Len(plan) + 1] = p
  BY <1>1, <1>3, <1>16, AppendProperties
<1>18. Len(plan) \in Nat /\ DOMAIN plan = 1..Len(plan) /\ \A k \in DOMAIN plan : plan[k] \in ModProjects
  BY <1>2, WalkTyped
<1>19. DOMAIN plan' = 1..(Len(plan) + 1)
  BY <1>17, LenProperties
<1>20. /\ DOMAIN plan \subseteq DOMAIN plan' /\ Len(plan) + 1 \in DOMAIN plan'
       /\ \A k \in DOMAIN plan' : k \in DOMAIN plan \/ k = Len(plan) + 1
       /\ \A k \in DOMAIN plan : plan'[k] = plan[k]
  BY <1>17, <1>18, <1>19
<1>21. \A k \in DOMAIN plan : plan[k] # p
  BY <1>1, <1>2 DEF AskedIsApart, Planned, p
<1>22. \A q : /\ Planned(q)' <=> Planned(q) \/ q = p
              /\ Told(q) => Told(q)'
              /\ q = p => Told(q)'
  <2>1. ASSUME NEW q PROVE Planned(q)' <=> Planned(q) \/ q = p
    <3>1. Planned(q) => Planned(q)'
      BY <1>20 DEF Planned
    <3>2. q = p => Planned(q)'
      BY <1>17, <1>20 DEF Planned
    <3>3. Planned(q)' => Planned(q) \/ q = p
      BY <1>17, <1>20 DEF Planned
    <3> QED
      BY <3>1, <3>2, <3>3
  <2> QED
    BY <1>1, <2>1 DEF Told, Adding!Has
<1>23. WalkTypes'
  <2>1. depth' \in [ModProjects -> 0..MaxDepth]
    BY <1>1, <1>3, <1>16 DEF p, d
  <2> QED
    BY <1>1, <1>2, <1>13, <1>17, <2>1 DEF WalkTypes
<1>24. AskedIsApart'
  <2>1. ASSUME NEW k \in DOMAIN visits', visits'[k].asked
        PROVE  visits'[k].project \in visited /\ \A n \in DOMAIN plan' : plan'[n] # visits'[k].project
    <3>1. PICK l \in DOMAIN visits : l # i /\ visits'[k] = visits[l]
      BY <1>13, <2>1
    <3>2. visits[l].asked /\ visits[l].project # p
      BY <1>1, <1>2, <2>1, <3>1 DEF AskedIsApart, p
    <3>3. visits[l].project \in visited /\ \A n \in DOMAIN plan : plan[n] # visits[l].project
      BY <1>2, <3>2 DEF AskedIsApart, Planned
    <3> QED
      BY <1>17, <1>20, <3>1, <3>2, <3>3
  <2> QED
    BY <1>1, <1>14, <2>1 DEF AskedIsApart, Planned
<1>25. PlannedOnce'
  <2>1. ASSUME NEW k \in DOMAIN plan', NEW l \in DOMAIN plan', plan'[k] = plan'[l] PROVE k = l
    <3>1. PlannedOnce
      BY DEF WalkInv
    <3> QED
      BY <1>17, <1>20, <1>21, <2>1, <3>1 DEF PlannedOnce
  <2>2. ASSUME NEW k \in DOMAIN plan' PROVE plan'[k] \in visited
    <3>1. PlannedOnce /\ p \in visited
      BY <1>1, <1>2 DEF WalkInv, AskedIsApart, p
    <3> QED
      BY <1>17, <1>20, <3>1 DEF PlannedOnce
  <2> QED
    BY <1>1, <2>1, <2>2 DEF PlannedOnce
<1>26. SeenIsTold'
  <2> SUFFICES ASSUME NEW q \in visited
               PROVE  Told(q)' \/ \E k \in DOMAIN visits' : visits'[k].asked /\ visits'[k].project = q
    BY <1>1 DEF SeenIsTold
  <2>1. Told(q) \/ \E k \in DOMAIN visits : visits[k].asked /\ visits[k].project = q
    BY DEF WalkInv, SeenIsTold
  <2> QED
    BY <1>13, <1>22, <2>1
<1>27. RequiredIsTold'
  <2> SUFFICES ASSUME NEW n \in DOMAIN plan', depth'[plan'[n]] < MaxDepth, ~(Len(plan') >= MaxPlan),
                      NEW q \in requires[plan'[n]]
               PROVE  Told(q)' \/ \E k \in DOMAIN visits' : visits'[k].project = q
    BY <1>1 DEF RequiredIsTold
  <2>1. CASE n \in DOMAIN plan
    <3>1. plan'[n] = plan[n] /\ plan[n] # p /\ plan[n] \in ModProjects
      BY <1>18, <1>20, <1>21, <2>1
    <3>2. depth'[plan[n]] = depth[plan[n]]
      BY <1>1, <1>16, <3>1
    <3>3. depth[plan[n]] < MaxDepth /\ q \in requires[plan[n]]
      BY <3>1, <3>2
    <3>4. ~(Len(plan) >= MaxPlan)
      BY <1>17, <1>18 DEF AddSizes
    <3>5. Told(q) \/ \E k \in DOMAIN visits : visits[k].project = q
      BY <2>1, <3>3, <3>4 DEF WalkInv, RequiredIsTold
    <3> QED
      BY <1>13, <1>22, <3>5
  <2>2. CASE n = Len(plan) + 1
    <3>1. plan'[n] = p /\ depth'[p] = d
      BY <1>1, <1>3, <1>16, <1>17, <2>2 DEF p
    <3>2. d < MaxDepth /\ q \in requires[p]
      BY <3>1
    <3> QED
      BY <1>15, <3>2
  <2> QED
    BY <1>20, <2>1, <2>2
<1>28. RootIsFirst'
  <2>1. plan'[1] = RootProject
    <3>1. CASE plan = <<>>
      <4>1. Len(visits) = 1 /\ visits[1].project = RootProject
        <5>1. Len(visits) # 0
          BY <1>2, WalkTyped
        <5> QED
          BY <3>1, <5>1 DEF WalkInv, RootIsFirst
      <4>2. i = 1
        BY <1>2, <4>1, WalkTyped
      <4>3. Len(plan) = 0
        BY <3>1
      <4> QED
        BY <1>17, <4>1, <4>2, <4>3 DEF p
    <3>2. CASE plan # <<>>
      <4>1. 1 \in 1..Len(plan)
        BY <1>16, <1>18, <3>2, EmptySeq
      <4> QED
        BY <1>17, <3>2, <4>1 DEF WalkInv, RootIsFirst
    <3> QED
      BY <3>1, <3>2
  <2> QED
    BY <1>17, <2>1 DEF RootIsFirst
<1>29. WalkIsOver'
  BY <1>1 DEF WalkIsOver
<1> QED
  BY <1>23, <1>24, <1>25, <1>26, <1>27, <1>28, <1>29 DEF WalkInv

LEMMA NothingPlanned ==
  ASSUME AddSizes, Adding!Init
  PROVE  WalkInv /\ addPhase = "visit"
PROOF
<1> DEFINE first == [project |-> RootProject, depth |-> 0, asked |-> FALSE]
<1>1. /\ visits = <<first>> /\ visited = {} /\ plan = <<>> /\ addPhase = "visit"
      /\ depth = [p \in ModProjects |-> 0]
      /\ requires \in [ModProjects -> SUBSET ModProjects]
  BY DEF Adding!Init, AddSizes
<1>2. first \in Sights /\ ~first.asked /\ first.project = RootProject
  BY DEF Sights, AddSizes
<1> HIDE DEF first
<1>3. visits \in Seq(Sights) /\ Len(visits) = 1 /\ visits[1] = first /\ DOMAIN visits = {1}
  BY <1>1, <1>2
<1>4. plan \in Seq(ModProjects) /\ DOMAIN plan = {}
  BY <1>1
<1>5. WalkTypes
  BY <1>1, <1>3, <1>4 DEF WalkTypes, AddSizes
<1>6. AskedIsApart /\ PlannedOnce /\ SeenIsTold /\ RequiredIsTold
  BY <1>1, <1>2, <1>3, <1>4 DEF AskedIsApart, PlannedOnce, SeenIsTold, RequiredIsTold
<1>7. RootIsFirst /\ WalkIsOver
  BY <1>1, <1>2, <1>3 DEF RootIsFirst, WalkIsOver
<1> QED
  BY <1>1, <1>5, <1>6, <1>7 DEF WalkInv

\* What the walk has come to stays, once it is over.
LEMMA WalkStays ==
  ASSUME WalkInv, UNCHANGED <<requires, facts, visits, visited, plan, warned, depth>>,
         addPhase' # "visit" => addPhase # "visit" \/ visits = <<>>
  PROVE  WalkInv'
PROOF
<1>1. \A q : (Told(q) <=> Told(q)') /\ (Planned(q) <=> Planned(q)')
  BY DEF Told, Planned, Adding!Has
<1>2. WalkTypes' /\ PlannedOnce' /\ RootIsFirst'
  BY DEF WalkInv, WalkTypes, PlannedOnce, RootIsFirst
<1>3. AskedIsApart'
  BY DEF WalkInv, AskedIsApart, Planned
<1>4. SeenIsTold'
  BY <1>1 DEF WalkInv, SeenIsTold
<1>5. RequiredIsTold'
  <2>1. RequiredIsTold
    BY DEF WalkInv
  <2> SUFFICES ASSUME NEW n \in DOMAIN plan, depth[plan[n]] < MaxDepth, ~(Len(plan) >= MaxPlan),
                      NEW q \in requires[plan[n]]
               PROVE  Told(q)' \/ \E k \in DOMAIN visits : visits[k].project = q
    BY DEF RequiredIsTold
  <2> QED
    BY <1>1, <2>1 DEF RequiredIsTold
<1>6. WalkIsOver'
  <2>1. visits = <<>> => Len(visits) = 0
    OBVIOUS
  <2> QED
    BY <2>1 DEF WalkInv, WalkIsOver
<1> QED
  BY <1>2, <1>3, <1>4, <1>5, <1>6 DEF WalkInv

-----------------------------------------------------------------------------
(* The installs.                                                           *)

\* What is still to be added are projects, each once, none of which has failed; the root, if it is
\* among them, is the first of all; and one that is replaced may be downloaded.
QueueInv ==
  /\ addQueue \in Seq(ModProjects) /\ installed \in Seq(ModProjects)
  /\ addPhase = "visit" => installed = <<>> /\ failed = {} /\ at = "fetch"
  /\ \A k, l \in DOMAIN addQueue : addQueue[k] = addQueue[l] => k = l
  /\ \A k \in DOMAIN addQueue : addQueue[k] \notin failed
  /\ at = "replace" /\ addQueue # <<>> => ~Adding!Has(Head(addQueue), "blocked")
  /\ \A k \in DOMAIN addQueue : addQueue[k] = RootProject => k = 1 /\ installed = <<>>
  /\ \A k \in DOMAIN installed : installed[k] = RootProject => k = 1

\* As long as nobody deletes a mod and no call fails, the manifest that was read is the manifest,
\* and all that was installed is on record, the root with what it pulled in.
RecordInv ==
  /\ addTroubles \in Nat /\ deletes \in Nat
  /\ addTroubles = 0 /\ deletes = 0 =>
       /\ deleting.stage = "none"
       /\ \A k \in DOMAIN installed : installed[k] \in modManifest
       /\ addPhase = "add" /\ at = "write" => modHeld = modManifest
       /\ addPhase = "note" => modHeld = modManifest
       /\ addPhase = "done" /\ RootProject \in Adding!Range(installed) /\ Adding!PulledIn # {} =>
            listed = [of |-> RootProject, what |-> Adding!PulledIn]

\* A queue and what is left of it.
LEMMA TailOfQueue ==
  ASSUME QueueInv, addQueue # <<>>
  PROVE  /\ Head(addQueue) \in ModProjects /\ Tail(addQueue) \in Seq(ModProjects)
         /\ 1 \in DOMAIN addQueue /\ addQueue[1] = Head(addQueue)
         /\ \A k \in DOMAIN Tail(addQueue) :
              /\ k \in Nat /\ k + 1 \in DOMAIN addQueue /\ k + 1 # 1 /\ Tail(addQueue)[k] = addQueue[k + 1]
              /\ Tail(addQueue)[k] # Head(addQueue) /\ Tail(addQueue)[k] # RootProject
              /\ Tail(addQueue)[k] \notin failed
PROOF
<1>1. addQueue \in Seq(ModProjects)
  BY DEF QueueInv
<1>2. /\ Head(addQueue) \in ModProjects /\ Tail(addQueue) \in Seq(ModProjects)
      /\ Len(Tail(addQueue)) = Len(addQueue) - 1
      /\ \A k \in 1..Len(Tail(addQueue)) : Tail(addQueue)[k] = addQueue[k + 1]
  BY <1>1, HeadTailProperties
<1>3. Len(addQueue) \in Nat /\ DOMAIN addQueue = 1..Len(addQueue) /\ DOMAIN Tail(addQueue) = 1..Len(Tail(addQueue))
  BY <1>1, <1>2, LenProperties
<1>4. 1 \in DOMAIN addQueue /\ addQueue[1] = Head(addQueue)
  <2>1. Len(addQueue) \in Nat \ {0}
    BY <1>1, EmptySeq
  <2> QED
    BY <1>1, <1>3, <2>1
<1>5. \A k \in DOMAIN Tail(addQueue) :
        k \in Nat /\ k + 1 \in DOMAIN addQueue /\ k + 1 # 1 /\ Tail(addQueue)[k] = addQueue[k + 1]
  BY <1>2, <1>3
<1>6. ASSUME NEW k \in DOMAIN Tail(addQueue)
      PROVE  /\ Tail(addQueue)[k] # Head(addQueue) /\ Tail(addQueue)[k] # RootProject
             /\ Tail(addQueue)[k] \notin failed
  BY <1>4, <1>5, <1>6 DEF QueueInv
<1> QED
  BY <1>2, <1>4, <1>5, <1>6

\* The next one's turn.
LEMMA NextInQueue ==
  ASSUME QueueInv, addPhase = "add", addPhase' = "add", addQueue # <<>>, addQueue' = Tail(addQueue),
         at' = "fetch",
         \/ failed' = failed \cup {Head(addQueue)} /\ installed' = installed
         \/ failed' = failed /\ installed' = Append(installed, Head(addQueue))
  PROVE  QueueInv'
PROOF
<1>1. /\ Head(addQueue) \in ModProjects /\ addQueue' \in Seq(ModProjects)
      /\ 1 \in DOMAIN addQueue /\ addQueue[1] = Head(addQueue)
      /\ \A k \in DOMAIN addQueue' :
           /\ k \in Nat /\ k + 1 \in DOMAIN addQueue /\ addQueue'[k] = addQueue[k + 1]
           /\ addQueue'[k] # Head(addQueue) /\ addQueue'[k] # RootProject /\ addQueue'[k] \notin failed
  BY TailOfQueue
<1>2. installed \in Seq(ModProjects) /\ \A k \in DOMAIN installed : installed[k] = RootProject => k = 1
  BY DEF QueueInv
<1>3. installed' \in Seq(ModProjects) /\ \A k \in DOMAIN installed' : installed'[k] = RootProject => k = 1
  <2>1. CASE installed' = Append(installed, Head(addQueue))
    <3>1. /\ installed' \in Seq(ModProjects) /\ Len(installed') = Len(installed) + 1
          /\ \A k \in 1..Len(installed) : installed'[k] = installed[k]
          /\ installed'[Len(installed) + 1] = Head(addQueue)
      BY <1>1, <1>2, <2>1, AppendProperties
    <3>2. /\ DOMAIN installed' = 1..(Len(installed) + 1) /\ DOMAIN installed = 1..Len(installed)
          /\ Len(installed) \in Nat
      BY <1>2, <3>1, LenProperties
    <3>3. Head(addQueue) = RootProject => Len(installed) = 0
      BY <1>1, EmptySeq DEF QueueInv
    <3>4. \A k \in DOMAIN installed' : k \in 1..Len(installed) \/ k = Len(installed) + 1
      BY <3>2
    <3>5. ASSUME NEW k \in DOMAIN installed', installed'[k] = RootProject PROVE k = 1
      BY <1>2, <3>1, <3>2, <3>3, <3>4, <3>5
    <3> QED
      BY <3>1, <3>5
  <2> QED
    BY <1>2, <2>1
<1>4. \A k, l \in DOMAIN addQueue' : addQueue'[k] = addQueue'[l] => k = l
  <2> SUFFICES ASSUME NEW k \in DOMAIN addQueue', NEW l \in DOMAIN addQueue', addQueue'[k] = addQueue'[l]
               PROVE  k = l
    OBVIOUS
  <2>1. k + 1 = l + 1
    BY <1>1 DEF QueueInv
  <2> QED
    BY <1>1, <2>1
<1>5. \A k \in DOMAIN addQueue' : addQueue'[k] \notin failed' /\ addQueue'[k] # RootProject
  BY <1>1
<1> QED
  BY <1>1, <1>3, <1>4, <1>5 DEF QueueInv

\* What the person leaves in of the plan.
LEMMA QueueIsMade ==
  ASSUME AddSizes, WalkInv, QueueInv, Adding!Resolved
  PROVE  QueueInv'
PROOF
<1>1. /\ addPhase = "visit" /\ addPhase' \in {"add", "done"}
      /\ UNCHANGED <<requires, facts, plan, at, installed, failed>>
  BY DEF Adding!Resolved, Adding!world, Adding!walk
<1>2. PICK skip \in {{}, Adding!Range(plan) \ {RootProject}} :
        \E order \in Adding!InOrder({k \in DOMAIN plan : Adding!Wanted(plan[k]) /\ plan[k] \notin skip}) :
          addQueue' = [k \in DOMAIN order |-> plan[order[k]]]
  BY DEF Adding!Resolved
<1> DEFINE places == {k \in DOMAIN plan : Adding!Wanted(plan[k]) /\ plan[k] \notin skip}
           N == Adding!Cardinality(places)
<1>3. PICK order \in [1..N -> places] :
        /\ \A k, l \in DOMAIN order : k < l => order[k] < order[l]
        /\ addQueue' = [k \in DOMAIN order |-> plan[order[k]]]
  BY <1>2 DEF Adding!InOrder
<1>4. plan \in Seq(ModProjects) /\ Len(plan) \in Nat /\ DOMAIN plan = 1..Len(plan)
      /\ \A k \in DOMAIN plan : plan[k] \in ModProjects
  BY WalkTyped DEF WalkInv, WalkTypes
<1>5. N \in Nat
  <2>1. IsFiniteSet(1..Len(plan))
    BY <1>4, FS_Interval
  <2>2. IsFiniteSet(places)
    BY <1>4, <2>1, FS_Subset
  <2>3. Cardinality(places) \in Nat
    BY <2>2, FS_CardinalityType
  <2> QED
    BY <2>3 DEF Cardinality, Adding!Cardinality, IsFiniteSet, Adding!IsFiniteSet
<1>6. places \subseteq DOMAIN plan
  OBVIOUS
<1> HIDE DEF N, places
<1>7. /\ DOMAIN addQueue' = 1..N
      /\ \A k \in 1..N : order[k] \in 1..Len(plan) /\ addQueue'[k] = plan[order[k]]
  BY <1>3, <1>4, <1>6
<1>8. addQueue' \in Seq(ModProjects)
  <2>1. \A k \in 1..N : addQueue'[k] \in ModProjects
    BY <1>4, <1>7
  <2>2. addQueue' = [k \in 1..N |-> addQueue'[k]]
    BY <1>3
  <2>3. addQueue' \in [1..N -> ModProjects]
    BY <2>1, <2>2
  <2> QED
    BY <1>5, <2>3
<1>9. \A k, l \in DOMAIN plan : plan[k] = plan[l] => k = l
  BY DEF WalkInv, PlannedOnce
<1>10. ASSUME NEW k \in 1..N, NEW l \in 1..N, addQueue'[k] = addQueue'[l] PROVE k = l
  <2>1. order[k] = order[l]
    BY <1>4, <1>7, <1>9, <1>10
  <2>2. k < l => order[k] < order[l]
    BY <1>3
  <2>3. l < k => order[l] < order[k]
    BY <1>3
  <2>4. order[k] \in Int /\ order[l] \in Int
    BY <1>4, <1>7
  <2> QED
    BY <1>5, <2>1, <2>2, <2>3, <2>4
<1>11. ASSUME NEW k \in 1..N, addQueue'[k] = RootProject PROVE k = 1
  <2>1. plan # <<>> /\ 1 \in DOMAIN plan
    BY <1>4, <1>7, <1>11
  <2>2. plan[1] = RootProject
    BY <2>1 DEF WalkInv, RootIsFirst
  <2>3. order[k] = 1
    BY <1>4, <1>7, <1>9, <1>11, <2>1, <2>2
  <2>4. 1 \in 1..N
    BY <1>5
  <2>5. 1 < k => order[1] < order[k]
    BY <1>3, <2>4
  <2>6. order[1] \in Int /\ order[1] >= 1
    BY <1>4, <1>7, <2>4
  <2> QED
    BY <1>5, <2>3, <2>5, <2>6
<1>12. installed = <<>> /\ failed = {} /\ at = "fetch"
  BY <1>1 DEF QueueInv
<1> QED
  BY <1>1, <1>7, <1>8, <1>10, <1>11, <1>12 DEF QueueInv

\* A step that leaves the queue alone.
LEMMA QueueStays ==
  ASSUME QueueInv, UNCHANGED <<addQueue, installed, failed, facts>>,
         addPhase' = "visit" => addPhase = "visit" /\ at' = at,
         at' = "replace" /\ addQueue # <<>> => at = "replace" \/ ~Adding!Has(Head(addQueue), "blocked")
  PROVE  QueueInv'
PROOF
<1>1. Adding!Has(Head(addQueue), "blocked")' = Adding!Has(Head(addQueue), "blocked")
  BY DEF Adding!Has
<1> QED
  BY <1>1 DEF QueueInv

\* A step that leaves the records alone.
LEMMA RecordStays ==
  ASSUME RecordInv, UNCHANGED <<installed, modManifest, modHeld, listed, deleting, addPhase, deletes>>,
         at' = "write" => at = "write", addTroubles' \in {addTroubles, addTroubles + 1}
  PROVE  RecordInv'
PROOF
<1>1. addTroubles' \in Nat /\ deletes' \in Nat /\ (addTroubles' = 0 => addTroubles = 0)
  BY DEF RecordInv
<1> QED
  BY <1>1 DEF RecordInv, Adding!PulledIn, Adding!Range

AddInv == WalkInv /\ QueueInv /\ RecordInv

\* A visit goes on.
LEMMA WalksOn ==
  ASSUME AddSizes, AddInv, Adding!Walks
  PROVE  AddInv'
PROOF
<1>1. PICK i \in DOMAIN visits : Adding!Asks(i) \/ Adding!Answered(i) \/ Adding!Unanswered(i)
  BY DEF Adding!Walks
<1>2. WalkInv'
  BY <1>1, Asking, Planning, VisitGivenUp DEF AddInv
<1>3. /\ UNCHANGED <<addQueue, installed, failed, facts, addPhase, at>>
      /\ UNCHANGED <<modManifest, modHeld, listed, deleting, deletes>>
      /\ addTroubles' \in {addTroubles, addTroubles + 1}
  <2>1. CASE Adding!Asks(i)
    BY <2>1 DEF Adding!Asks, Adding!world, Adding!adding
  <2>2. CASE Adding!Answered(i)
    BY <2>2 DEF Adding!Answered, Adding!world, Adding!adding
  <2>3. CASE Adding!Unanswered(i)
    BY <2>3 DEF Adding!Unanswered, Adding!Trouble, Adding!world, Adding!adding
  <2> QED
    BY <1>1, <2>1, <2>2, <2>3
<1>4. QueueInv'
  BY <1>3, QueueStays DEF AddInv
<1>5. RecordInv'
  BY <1>3, RecordStays DEF AddInv
<1> QED
  BY <1>2, <1>4, <1>5 DEF AddInv

\* The walk is over.
LEMMA AddingBegins ==
  ASSUME AddSizes, AddInv, Adding!Resolved
  PROVE  AddInv'
PROOF
<1>1. /\ addPhase = "visit" /\ visits = <<>> /\ addPhase' \in {"add", "done"}
      /\ UNCHANGED <<requires, facts, visits, visited, plan, warned, depth>>
      /\ UNCHANGED <<at, installed, modManifest, listed, deleting, addTroubles, deletes>>
  BY DEF Adding!Resolved, Adding!world, Adding!walk
<1>2. WalkInv'
  BY <1>1, WalkStays DEF AddInv
<1>3. QueueInv'
  BY QueueIsMade DEF AddInv
<1>4. installed = <<>> /\ at = "fetch"
  BY <1>1 DEF AddInv, QueueInv
<1>5. Adding!Range(installed) = {}
  BY <1>4 DEF Adding!Range
<1>6. RecordInv'
  BY <1>1, <1>4, <1>5 DEF AddInv, RecordInv, Adding!Range
<1> QED
  BY <1>2, <1>3, <1>6 DEF AddInv

\* The steps of add_mod that leave the manifest and what is installed alone.
LEMMA EntryGoesOn ==
  ASSUME AddInv,
         Adding!Fetched \/ Adding!Fails \/ Adding!Replaced \/ Adding!Uploaded
  PROVE  AddInv'
PROOF
<1>1. /\ addPhase = "add" /\ addPhase' = "add" /\ addQueue # <<>>
      /\ UNCHANGED <<requires, facts, visits, visited, plan, warned, depth>>
      /\ UNCHANGED <<installed, modManifest, modHeld, listed, deleting, deletes>>
      /\ at' # "write" /\ addTroubles' \in {addTroubles, addTroubles + 1}
  <2>1. CASE Adding!Fetched
    BY <2>1 DEF Adding!Fetched, Adding!Adds, Adding!Ready, Adding!world, Adding!walk
  <2>2. CASE Adding!Fails
    BY <2>2 DEF Adding!Fails, Adding!Adds, Adding!Ready, Adding!NextEntry, Adding!Trouble,
                Adding!world, Adding!walk
  <2>3. CASE Adding!Replaced
    BY <2>3 DEF Adding!Replaced, Adding!Adds, Adding!Ready, Adding!world, Adding!walk
  <2>4. CASE Adding!Uploaded
    BY <2>4 DEF Adding!Uploaded, Adding!Adds, Adding!Ready, Adding!world, Adding!walk
  <2> QED
    BY <2>1, <2>2, <2>3, <2>4
<1>2. WalkInv'
  BY <1>1, WalkStays DEF AddInv
<1>3. RecordInv'
  BY <1>1, RecordStays DEF AddInv
<1>4. QueueInv'
  <2>1. CASE Adding!Fetched
    <3>1. UNCHANGED <<addQueue, failed>> /\ ~Adding!Has(Head(addQueue), "blocked")
      BY <2>1 DEF Adding!Fetched
    <3> QED
      BY <1>1, <3>1, QueueStays DEF AddInv
  <2>2. CASE Adding!Fails
    <3>1. addQueue' = Tail(addQueue) /\ at' = "fetch" /\ failed' = failed \cup {Head(addQueue)}
      BY <2>2 DEF Adding!Fails, Adding!NextEntry
    <3> QED
      BY <1>1, <3>1, NextInQueue DEF AddInv
  <2>3. CASE Adding!Replaced
    <3>1. UNCHANGED <<addQueue, failed>> /\ at' = "upload"
      BY <2>3 DEF Adding!Replaced
    <3> QED
      BY <1>1, <3>1, QueueStays DEF AddInv
  <2>4. CASE Adding!Uploaded
    <3>1. UNCHANGED <<addQueue, failed>> /\ at' = "read"
      BY <2>4 DEF Adding!Uploaded
    <3> QED
      BY <1>1, <3>1, QueueStays DEF AddInv
  <2> QED
    BY <2>1, <2>2, <2>3, <2>4
<1> QED
  BY <1>2, <1>3, <1>4 DEF AddInv

\* The mod is written down.
LEMMA EntryIsWritten ==
  ASSUME AddInv, Adding!Reads \/ Adding!Writes
  PROVE  AddInv'
PROOF
<1>1. /\ addPhase = "add" /\ addPhase' = "add" /\ addQueue # <<>>
      /\ UNCHANGED <<requires, facts, visits, visited, plan, warned, depth>>
      /\ UNCHANGED <<failed, deleting, deletes>>
  <2>1. CASE Adding!Reads
    BY <2>1 DEF Adding!Reads, Adding!Adds, Adding!Ready, Adding!world, Adding!walk
  <2>2. CASE Adding!Writes
    BY <2>2 DEF Adding!Writes, Adding!Adds, Adding!Ready, Adding!NextEntry, Adding!Trouble,
                Adding!world, Adding!walk
  <2> QED
    BY <2>1, <2>2
<1>2. WalkInv'
  BY <1>1, WalkStays DEF AddInv
<1>3. CASE Adding!Reads
  <2>1. /\ UNCHANGED <<addQueue, installed, modManifest, listed, addTroubles>>
        /\ at' = "write" /\ modHeld' = modManifest
    BY <1>3 DEF Adding!Reads
  <2>2. QueueInv'
    BY <1>1, <2>1, QueueStays DEF AddInv
  <2>3. RecordInv'
    BY <1>1, <2>1 DEF AddInv, RecordInv
  <2> QED
    BY <1>2, <2>2, <2>3 DEF AddInv
<1>4. CASE Adding!Writes
  <2>1. /\ at = "write" /\ at' = "fetch" /\ addQueue' = Tail(addQueue)
        /\ installed' = Append(installed, Head(addQueue))
        /\ \/ modManifest' = modHeld \cup {Head(addQueue)} /\ addTroubles' = addTroubles
           \/ addTroubles' = addTroubles + 1
    BY <1>4 DEF Adding!Writes, Adding!Adds, Adding!NextEntry, Adding!Recorded, Adding!Trouble
  <2>2. QueueInv'
    BY <1>1, <2>1, NextInQueue DEF AddInv
  <2>3. RecordInv /\ installed \in Seq(ModProjects) /\ Head(addQueue) \in ModProjects
    BY <1>1, TailOfQueue DEF AddInv, QueueInv
  <2>4. \A k \in DOMAIN installed' : installed'[k] = Head(addQueue)
                                     \/ (k \in DOMAIN installed /\ installed'[k] = installed[k])
    <3>1. /\ installed' \in Seq(ModProjects) /\ Len(installed') = Len(installed) + 1
          /\ \A k \in 1..Len(installed) : installed'[k] = installed[k]
          /\ installed'[Len(installed) + 1] = Head(addQueue)
      BY <2>1, <2>3, AppendProperties
    <3>2. /\ DOMAIN installed' = 1..(Len(installed) + 1) /\ DOMAIN installed = 1..Len(installed)
          /\ Len(installed) \in Nat
      BY <2>3, <3>1, LenProperties
    <3>3. \A k \in DOMAIN installed' : k \in 1..Len(installed) \/ k = Len(installed) + 1
      BY <3>2
    <3> QED
      BY <3>1, <3>2, <3>3
  <2>5. /\ addTroubles' \in Nat /\ deletes' \in Nat
        /\ addTroubles' = 0 => addTroubles = 0 /\ modManifest' = modHeld \cup {Head(addQueue)}
    BY <1>1, <2>1, <2>3 DEF RecordInv
  <2>6. addTroubles' = 0 /\ deletes' = 0 =>
          deleting'.stage = "none" /\ \A k \in DOMAIN installed' : installed'[k] \in modManifest'
    <3> SUFFICES ASSUME addTroubles' = 0, deletes' = 0
                 PROVE  deleting.stage = "none" /\ \A k \in DOMAIN installed' : installed'[k] \in modManifest'
      BY <1>1
    <3>1. /\ deleting.stage = "none" /\ modHeld = modManifest
          /\ \A k \in DOMAIN installed : installed[k] \in modManifest
      BY <1>1, <2>1, <2>3, <2>5 DEF RecordInv
    <3> QED
      BY <2>4, <2>5, <3>1
  <2>7. RecordInv'
    BY <1>1, <2>1, <2>5, <2>6 DEF RecordInv
  <2> QED
    BY <1>2, <2>2, <2>7 DEF AddInv
<1> QED
  BY <1>3, <1>4

\* The record of the root is saved again.
LEMMA RootIsNoted ==
  ASSUME AddInv, Adding!Notes \/ Adding!Noted
  PROVE  AddInv'
PROOF
<1>1. /\ addPhase \in {"add", "note"} /\ addPhase' \in {"note", "done"}
      /\ UNCHANGED <<requires, facts, visits, visited, plan, warned, depth>>
      /\ UNCHANGED <<addQueue, at, installed, failed, deleting, deletes>>
  <2>1. CASE Adding!Notes
    BY <2>1 DEF Adding!Notes, Adding!Ready, Adding!world, Adding!walk
  <2>2. CASE Adding!Noted
    BY <2>2 DEF Adding!Noted, Adding!Ready, Adding!world, Adding!walk
  <2> QED
    BY <2>1, <2>2
<1>2. WalkInv' /\ QueueInv'
  BY <1>1, WalkStays, QueueStays DEF AddInv
<1>3. RecordInv
  BY DEF AddInv
<1>4. /\ Adding!Range(installed) = {installed[k] : k \in DOMAIN installed}
      /\ UNCHANGED Adding!Range(installed) /\ UNCHANGED Adding!PulledIn
  BY <1>1 DEF Adding!PulledIn, Adding!Range
<1>5. CASE Adding!Notes
  <2>1. /\ UNCHANGED <<modManifest, listed, addTroubles>> /\ modHeld' = modManifest
        /\ addPhase' = "done" => Adding!PulledIn = {}
    BY <1>5 DEF Adding!Notes
  <2>2. RecordInv'
    BY <1>1, <1>3, <1>4, <2>1 DEF RecordInv
  <2> QED
    BY <1>2, <2>2 DEF AddInv
<1>6. CASE Adding!Noted
  <2>1. addPhase = "note" /\ addPhase' = "done"
    BY <1>6 DEF Adding!Noted
  <2>2. \/ /\ installed[1] \in modHeld /\ modManifest' = modHeld /\ addTroubles' = addTroubles
           /\ listed' = [of |-> installed[1], what |-> Adding!PulledIn]
        \/ installed[1] \notin modHeld /\ UNCHANGED <<modManifest, listed, addTroubles>>
        \/ addTroubles' = addTroubles + 1
    BY <1>6 DEF Adding!Noted, Adding!Trouble
  <2>3. addTroubles' \in Nat /\ deletes' \in Nat /\ (addTroubles' = 0 => addTroubles = 0)
    BY <1>1, <1>3, <2>2 DEF RecordInv
  <2>4. ASSUME addTroubles' = 0, deletes' = 0
        PROVE  /\ deleting'.stage = "none" /\ modManifest' = modManifest
               /\ RootProject \in Adding!Range(installed) =>
                    listed' = [of |-> RootProject, what |-> Adding!PulledIn]
    <3>1. /\ deleting.stage = "none" /\ modHeld = modManifest
          /\ \A k \in DOMAIN installed : installed[k] \in modManifest
      BY <1>1, <1>3, <2>1, <2>3, <2>4 DEF RecordInv
    <3>2. ~(addTroubles' = addTroubles + 1)
      BY <2>3, <2>4
    <3>3. modManifest' = modManifest
      BY <2>2, <3>1, <3>2
    <3>4. ASSUME RootProject \in Adding!Range(installed)
          PROVE  listed' = [of |-> RootProject, what |-> Adding!PulledIn]
      <4>1. PICK k \in DOMAIN installed : installed[k] = RootProject
        BY <1>4, <3>4
      <4>2. k = 1
        BY <4>1 DEF AddInv, QueueInv
      <4>3. installed[1] = RootProject /\ installed[1] \in modHeld
        BY <3>1, <4>1, <4>2
      <4> QED
        BY <2>2, <3>2, <4>3
    <3> QED
      BY <1>1, <3>1, <3>3, <3>4
  <2>5. RecordInv'
    BY <1>1, <1>3, <1>4, <2>1, <2>3, <2>4 DEF RecordInv
  <2> QED
    BY <1>2, <2>5 DEF AddInv
<1> QED
  BY <1>5, <1>6

\* Somebody deletes a mod meanwhile.
LEMMA SomebodyDeletes ==
  ASSUME AddInv, Adding!Forgets \/ \E p \in ModProjects : Adding!Deletes(p)
  PROVE  AddInv'
PROOF
<1>1. UNCHANGED <<requires, facts, visits, visited, plan, warned, depth, addPhase,
                  addQueue, at, installed, failed, addTroubles>>
  <2>1. CASE Adding!Forgets
    BY <2>1 DEF Adding!Forgets, Adding!world, Adding!walk, Adding!adding
  <2>2. ASSUME NEW p \in ModProjects, Adding!Deletes(p)
        PROVE  UNCHANGED <<requires, facts, visits, visited, plan, warned, depth, addPhase,
                           addQueue, at, installed, failed, addTroubles>>
    BY <2>2 DEF Adding!Deletes, Adding!world, Adding!walk, Adding!adding
  <2> QED
    BY <2>1, <2>2
<1>2. WalkInv' /\ QueueInv'
  BY <1>1, WalkStays, QueueStays DEF AddInv
<1>3. RecordInv
  BY DEF AddInv
<1>4. deletes' \in Nat /\ ~(addTroubles' = 0 /\ deletes' = 0)
  <2>1. CASE Adding!Forgets
    <3>1. deletes' = deletes /\ deleting.stage # "none"
      BY <2>1 DEF Adding!Forgets
    <3> QED
      BY <1>1, <1>3, <3>1 DEF RecordInv
  <2>2. CASE \E p \in ModProjects : Adding!Deletes(p)
    <3>1. deletes' = deletes + 1
      BY <2>2 DEF Adding!Deletes
    <3> QED
      BY <1>3, <3>1 DEF RecordInv
  <2> QED
    BY <2>1, <2>2
<1>5. RecordInv'
  BY <1>1, <1>3, <1>4 DEF RecordInv
<1> QED
  BY <1>2, <1>5 DEF AddInv

LEMMA NothingAdded ==
  ASSUME AddSizes, Adding!Init
  PROVE  AddInv
PROOF
<1>1. WalkInv /\ addPhase = "visit"
  BY NothingPlanned
<1>2. /\ addQueue = <<>> /\ installed = <<>> /\ failed = {} /\ at = "fetch" /\ addTroubles = 0 /\ deletes = 0
      /\ deleting.stage = "none"
  BY DEF Adding!Init, Adding!NoDelete
<1>3. addQueue \in Seq(ModProjects) /\ installed \in Seq(ModProjects) /\ DOMAIN addQueue = {} /\ DOMAIN installed = {}
  BY <1>2
<1>4. QueueInv
  BY <1>2, <1>3 DEF QueueInv
<1>5. RecordInv
  BY <1>1, <1>2, <1>3 DEF RecordInv
<1> QED
  BY <1>1, <1>4, <1>5 DEF AddInv

LEMMA AddingGoesOn ==
  ASSUME AddSizes, AddInv, [Adding!Next]_(Adding!vars)
  PROVE  AddInv'
PROOF
<1>1. CASE Adding!Next
  BY <1>1, WalksOn, AddingBegins, EntryGoesOn, EntryIsWritten, RootIsNoted, SomebodyDeletes
     DEF Adding!Next, Adding!Job
<1>2. CASE UNCHANGED Adding!vars
  <2>1. /\ UNCHANGED <<requires, facts, visits, visited, plan, warned, depth, addPhase, addQueue, at>>
        /\ UNCHANGED <<installed, failed, modManifest, modHeld, listed, deleting, addTroubles, deletes>>
    BY <1>2 DEF Adding!vars, Adding!world, Adding!walk, Adding!adding
  <2> QED
    BY <2>1, WalkStays, QueueStays, RecordStays DEF AddInv
<1> QED
  BY <1>1, <1>2

LEMMA AddingShown ==
  ASSUME AddSizes, AddInv
  PROVE  Adding!NoTwice /\ Adding!Accounted /\ Adding!RecordsTell
PROOF
<1>1. Adding!NoTwice
  BY DEF AddInv, WalkInv, PlannedOnce, Adding!NoTwice, Adding!IsInjective
<1>2. Adding!Accounted
  <2> SUFFICES ASSUME addPhase # "visit", Len(plan) < MaxPlan, NEW p \in Adding!Range(plan),
                      depth[p] < MaxDepth, NEW q \in requires[p]
               PROVE  q \in Adding!Range(plan) \cup warned \/ Adding!Has(q, "recorded")
    BY DEF Adding!Accounted
  <2>1. PICK n \in DOMAIN plan : plan[n] = p
    BY DEF Adding!Range
  <2>2. Len(plan) \in Nat /\ Len(visits) = 0 /\ visits \in Seq(Sights)
    BY DEF AddInv, WalkInv, WalkTypes, WalkIsOver
  <2>3. DOMAIN visits = {}
    BY <2>2, LenProperties
  <2>4. ~(Len(plan) >= MaxPlan)
    BY <2>2 DEF AddSizes
  <2>5. Told(q) \/ \E k \in DOMAIN visits : visits[k].project = q
    BY <2>1, <2>4 DEF AddInv, WalkInv, RequiredIsTold
  <2>6. Planned(q) => q \in Adding!Range(plan)
    BY DEF Planned, Adding!Range
  <2> QED
    BY <2>3, <2>5, <2>6 DEF Told
<1>3. Adding!RecordsTell
  BY DEF AddInv, RecordInv, Adding!RecordsTell, Adding!Range
<1> QED
  BY <1>1, <1>2, <1>3

\* The old version of the root goes in one step only.
LEMMA OldOneGoes ==
  ASSUME AddInv, [Adding!Next]_(Adding!vars), oldJar, ~oldJar'
  PROVE  /\ addPhase = "add" /\ Head(addQueue) = RootProject /\ RootProject \notin failed'
         /\ ~Adding!Has(RootProject, "blocked")
PROOF
<1>1. ~UNCHANGED oldJar
  OBVIOUS
<1>2. Adding!Replaced
  <2>1. ~UNCHANGED Adding!vars
    BY <1>1 DEF Adding!vars, Adding!adding
  <2>2. ~Adding!Walks
    BY <1>1 DEF Adding!Walks, Adding!Asks, Adding!Answered, Adding!Unanswered, Adding!adding
  <2>3. ~Adding!Resolved /\ ~Adding!Fetched /\ ~Adding!Uploaded
    BY <1>1 DEF Adding!Resolved, Adding!Fetched, Adding!Uploaded
  <2>4. ~Adding!Fails /\ ~Adding!Reads /\ ~Adding!Writes
    BY <1>1 DEF Adding!Fails, Adding!Reads, Adding!Writes
  <2>5. ~Adding!Notes /\ ~Adding!Noted
    BY <1>1 DEF Adding!Notes, Adding!Noted
  <2>6. ~Adding!Forgets /\ ~\E p \in ModProjects : Adding!Deletes(p)
    BY <1>1 DEF Adding!Forgets, Adding!Deletes, Adding!adding
  <2> QED
    BY <2>1, <2>2, <2>3, <2>4, <2>5, <2>6 DEF Adding!Next, Adding!Job
<1>3. addPhase = "add" /\ addQueue # <<>> /\ at = "replace" /\ failed' = failed
  BY <1>2 DEF Adding!Replaced, Adding!Adds
<1>4. Head(addQueue) = RootProject
  BY <1>2 DEF Adding!Replaced
<1>5. 1 \in DOMAIN addQueue /\ addQueue[1] = Head(addQueue)
  BY <1>3, TailOfQueue DEF AddInv
<1>6. ~Adding!Has(Head(addQueue), "blocked") /\ addQueue[1] \notin failed
  BY <1>3, <1>5 DEF AddInv, QueueInv
<1> QED
  BY <1>3, <1>4, <1>5, <1>6

\* Of a mod that is added with what it requires: no project is planned twice, whatever a planned one
\* requires is planned, there or named in a warning, and what was installed is on record.
THEOREM AddedAreAccounted ==
  ASSUME AddSizes
  PROVE  Adding!Spec => [](Adding!NoTwice /\ Adding!Accounted /\ Adding!RecordsTell)
PROOF
<1>1. Adding!Init => AddInv
  BY NothingAdded
<1>2. AddInv /\ [Adding!Next]_(Adding!vars) => AddInv'
  BY AddingGoesOn
<1>3. AddInv => Adding!NoTwice /\ Adding!Accounted /\ Adding!RecordsTell
  BY AddingShown
<1> QED
  BY <1>1, <1>2, <1>3, PTL DEF Adding!Spec

\* The version that is replaced is only deleted when the new one has been fetched.
THEOREM OldOneIsKept ==
  ASSUME AddSizes
  PROVE  Adding!Spec => Adding!OldOneKept
PROOF
<1>1. Adding!Init => AddInv
  BY NothingAdded
<1>2. AddInv /\ [Adding!Next]_(Adding!vars) => AddInv'
  BY AddingGoesOn
<1>3. AddInv /\ [Adding!Next]_(Adding!vars) =>
        [oldJar /\ ~oldJar' => /\ addPhase = "add" /\ Head(addQueue) = RootProject /\ RootProject \notin failed'
                               /\ ~Adding!Has(RootProject, "blocked")]_(Adding!vars)
  BY OldOneGoes
<1> QED
  BY <1>1, <1>2, <1>3, PTL DEF Adding!Spec, Adding!OldOneKept

-----------------------------------------------------------------------------
(***************************************************************************)
(* Downloads: one fetch of a file at a time, and no damaged copy.          *)
(***************************************************************************)
FetchSizes == IsFiniteSet(FetchedFiles) /\ IsFiniteSet(FetchJobs)

Fetchers == FetchJobs \X FetchedFiles
Claimed == {"claim", "has", "get"}
FetchRecords ==
  [pc : {"wait", "claim", "has", "get", "copy", "drop", "placed", "failed"}, round : {1, 2},
   lock : Nat, tries : Nat, why : {"none", "refused", "tries", "copies"}]
FetchTypes ==
  /\ cached \in [FetchedFiles -> {"none", "good", "rotten", "short"}]
  /\ users \in [FetchedFiles -> Nat] /\ lockNo \in [FetchedFiles -> Nat]
  /\ fetch \in [Fetchers -> FetchRecords] /\ hits \in [Fetchers -> 0..2]
  /\ landed \in [Fetchers -> {"none", "good"}]

Claiming(s) == {q \in Fetchers : q[2] = s /\ fetch[q].pc \in Claimed}
\* Whoever has claimed a file has the lock that is kept for it, and is counted; one is past the lock.
ClaimsHold ==
  /\ \A q \in Fetchers : IF fetch[q].pc \in Claimed
                         THEN fetch[q].lock = lockNo[q[2]] /\ fetch[q].lock # 0 ELSE fetch[q].lock = 0
  /\ \A s \in FetchedFiles : users[s] = Cardinality(Claiming(s))
  /\ \A q, r \in Fetchers :
       q[2] = r[2] /\ fetch[q].pc \in {"has", "get"} /\ fetch[r].pc \in {"has", "get"} => q = r
\* Who has lost a round, or is about to lose one, has had so many copies spoilt under its hands.
Fair(kept, f, n) ==
  /\ f.why = "copies" => n >= 2
  /\ f.pc \notin {"placed", "failed"} =>
       /\ f.round = 2 => n >= 1
       /\ kept \in {"rotten", "short"} \/ f.pc = "drop" \/ (f.pc = "copy" /\ kept # "good") =>
            n >= f.round
LostForCause == \A q \in Fetchers : Fair(cached[q[2]], fetch[q], hits[q])

FetchInv == FetchTypes /\ ClaimsHold /\ LostForCause

LEMMA FetchersAreAll ==
  /\ Fetched!Fetches = Fetchers
  /\ \A q \in Fetchers : q[1] \in FetchJobs /\ q[2] \in FetchedFiles /\ Fetched!Sha(q) = q[2]
BY DEF Fetched!Fetches, Fetchers, Fetched!Sha

LEMMA FetchersAreFew ==
  ASSUME FetchSizes
  PROVE  IsFiniteSet(Fetchers) /\ Cardinality(Fetchers) \in Nat
BY FS_Product, FS_CardinalityType DEF FetchSizes, Fetchers

\* Nobody has claimed a file yet that nobody is counted for.
LEMMA NoneFetching ==
  ASSUME Fetched!Init
  PROVE  FetchInv
PROOF
<1>1. /\ fetch = [q \in Fetchers |-> [pc |-> "wait", round |-> 1, lock |-> 0, tries |-> 0, why |-> "none"]]
      /\ cached = [s \in FetchedFiles |-> "none"] /\ users = [s \in FetchedFiles |-> 0]
      /\ lockNo = [s \in FetchedFiles |-> 0] /\ landed = [q \in Fetchers |-> "none"]
      /\ hits = [q \in Fetchers |-> 0]
  BY FetchersAreAll DEF Fetched!Init, Fetched!Resting
<1>2. FetchTypes
  BY <1>1 DEF FetchTypes, FetchRecords
<1>3. \A s \in FetchedFiles : Claiming(s) = {}
  BY <1>1 DEF Claiming, Claimed
<1>4. ClaimsHold
  BY <1>1, <1>3, FS_EmptySet DEF ClaimsHold, Claimed
<1>5. LostForCause
  BY <1>1 DEF LostForCause, Fair, Fetchers
<1> QED
  BY <1>2, <1>4, <1>5 DEF FetchInv

-----------------------------------------------------------------------------
(* The claims.                                                             *)

\* A lock that nobody has: one of the fetches has none, so not all are given away.
LEMMA ALockIsFree ==
  ASSUME FetchSizes, FetchTypes, NEW p \in Fetchers, fetch[p].lock = 0
  PROVE  /\ Fetched!NewLock \in Nat \ {0}
         /\ \A q \in Fetchers : fetch[q].lock # Fetched!NewLock
PROOF
<1> DEFINE others == Fetchers \ {p}
           Given == {fetch[q].lock : q \in others}
           N == Cardinality(Fetchers)
<1>1. IsFiniteSet(Fetchers) /\ N \in Nat
  BY FetchersAreFew
<1>2. IsFiniteSet(others) /\ Cardinality(others) = N - 1
  BY <1>1, FS_RemoveElement
<1>3. IsFiniteSet(Given) /\ Cardinality(Given) <= N - 1
  <2> DEFINE f == [q \in others |-> fetch[q].lock]
  <2>1. f \in Surjection(others, Given)
    BY DEF Surjection
  <2> QED
    BY <1>1, <1>2, <2>1, FS_Surjection
<1>4. IsFiniteSet(1..N) /\ Cardinality(1..N) = N
  BY <1>1, FS_Interval
<1>5. \E n \in 1..N : n \notin Given
  <2> SUFFICES ASSUME 1..N \subseteq Given PROVE FALSE
    OBVIOUS
  <2>1. Cardinality(1..N) <= Cardinality(Given)
    BY <1>3, FS_Subset
  <2>2. Cardinality(Given) \in Nat
    BY <1>3, FS_CardinalityType
  <2> HIDE DEF Given, N
  <2> QED
    BY <1>1, <1>3, <1>4, <2>1, <2>2
<1>6. Fetched!Locks = 1..N
  BY FetchersAreAll DEF Fetched!Locks, Cardinality, Fetched!Cardinality, IsFiniteSet, Fetched!IsFiniteSet
<1>7. \E n \in Fetched!Locks : \A q \in Fetched!Fetches : fetch[q].lock # n
  BY <1>1, <1>5, <1>6, FetchersAreAll
<1>8. Fetched!NewLock \in Fetched!Locks /\ \A q \in Fetched!Fetches : fetch[q].lock # Fetched!NewLock
  BY <1>7 DEF Fetched!NewLock
<1> QED
  BY <1>1, <1>6, <1>8, FetchersAreAll

\* A fetch goes on, with its claim or without one.
LEMMA ClaimKept ==
  ASSUME FetchTypes, ClaimsHold, NEW p \in Fetchers, NEW r \in FetchRecords,
         fetch' = [fetch EXCEPT ![p] = r], UNCHANGED <<users, lockNo>>,
         r.lock = fetch[p].lock, r.pc \in Claimed <=> fetch[p].pc \in Claimed,
         r.pc \in {"has", "get"} =>
           \A q \in Fetchers \ {p} : q[2] = p[2] => fetch[q].pc \notin {"has", "get"}
  PROVE  ClaimsHold'
PROOF
<1>1. \A q \in Fetchers : fetch'[q] = IF q = p THEN r ELSE fetch[q]
  BY DEF FetchTypes
<1>2. \A s \in FetchedFiles : Claiming(s)' = Claiming(s)
  BY <1>1 DEF Claiming
<1>3. \A q \in Fetchers : IF fetch'[q].pc \in Claimed
                          THEN fetch'[q].lock = lockNo[q[2]] /\ fetch'[q].lock # 0 ELSE fetch'[q].lock = 0
  BY <1>1 DEF ClaimsHold
<1>4. \A q, t \in Fetchers :
        q[2] = t[2] /\ fetch'[q].pc \in {"has", "get"} /\ fetch'[t].pc \in {"has", "get"} => q = t
  BY <1>1 DEF ClaimsHold
<1> QED
  BY <1>2, <1>3, <1>4 DEF ClaimsHold

\* A claim is taken: the lock is the one that is there, or a new one.
LEMMA ClaimTaken ==
  ASSUME FetchSizes, FetchTypes, ClaimsHold, NEW p \in Fetchers, NEW r \in FetchRecords,
         fetch' = [fetch EXCEPT ![p] = r], fetch[p].pc \notin Claimed, r.pc = "claim",
         lockNo' = [lockNo EXCEPT ![p[2]] = r.lock], users' = [users EXCEPT ![p[2]] = users[p[2]] + 1],
         r.lock # 0, lockNo[p[2]] # 0 => r.lock = lockNo[p[2]]
  PROVE  ClaimsHold'
PROOF
<1>1. \A q \in Fetchers : fetch'[q] = IF q = p THEN r ELSE fetch[q]
  BY DEF FetchTypes
<1>2. p[2] \in FetchedFiles /\ \A q \in Fetchers : q[2] \in FetchedFiles
  BY FetchersAreAll
<1>3. \A s \in FetchedFiles : /\ lockNo'[s] = IF s = p[2] THEN r.lock ELSE lockNo[s]
                              /\ users'[s] = IF s = p[2] THEN users[s] + 1 ELSE users[s]
  BY <1>2 DEF FetchTypes
<1>4. \A q \in Fetchers : IF fetch'[q].pc \in Claimed
                          THEN fetch'[q].lock = lockNo'[q[2]] /\ fetch'[q].lock # 0 ELSE fetch'[q].lock = 0
  <2> SUFFICES ASSUME NEW q \in Fetchers
               PROVE  IF fetch'[q].pc \in Claimed
                      THEN fetch'[q].lock = lockNo'[q[2]] /\ fetch'[q].lock # 0 ELSE fetch'[q].lock = 0
    OBVIOUS
  <2>1. CASE q = p
    BY <1>1, <1>2, <1>3, <2>1 DEF Claimed
  <2>2. CASE q # p
    BY <1>1, <1>2, <1>3, <2>2 DEF ClaimsHold
  <2> QED
    BY <2>1, <2>2
<1>5. \A s \in FetchedFiles : Claiming(s)' = IF s = p[2] THEN Claiming(s) \cup {p} ELSE Claiming(s)
  BY <1>1 DEF Claiming, Claimed
<1>6. \A s \in FetchedFiles : users'[s] = Cardinality(Claiming(s)')
  <2>1. p \notin Claiming(p[2]) /\ Claiming(p[2]) \subseteq Fetchers
    BY DEF Claiming
  <2>2. IsFiniteSet(Claiming(p[2]))
    BY <2>1, FetchersAreFew, FS_Subset
  <2>3. Cardinality(Claiming(p[2]) \cup {p}) = Cardinality(Claiming(p[2])) + 1
    BY <2>1, <2>2, FS_AddElement
  <2> SUFFICES ASSUME NEW s \in FetchedFiles PROVE users'[s] = Cardinality(Claiming(s)')
    OBVIOUS
  <2>4. CASE s = p[2]
    BY <1>3, <1>5, <2>3, <2>4 DEF ClaimsHold
  <2>5. CASE s # p[2]
    BY <1>3, <1>5, <2>5 DEF ClaimsHold
  <2> QED
    BY <2>4, <2>5
<1>7. \A q, t \in Fetchers :
        q[2] = t[2] /\ fetch'[q].pc \in {"has", "get"} /\ fetch'[t].pc \in {"has", "get"} => q = t
  BY <1>1 DEF ClaimsHold
<1> QED
  BY <1>4, <1>6, <1>7 DEF ClaimsHold

\* A claim is left: the lock goes with the last who has it.
LEMMA ClaimLeft ==
  ASSUME FetchSizes, FetchTypes, ClaimsHold, NEW p \in Fetchers, fetch[p].pc \in Claimed,
         NEW to \in {"copy", "failed"}, NEW why, Fetched!Leaves(p, to, why)
  PROVE  ClaimsHold' /\ users' \in [FetchedFiles -> Nat] /\ lockNo' \in [FetchedFiles -> Nat]
PROOF
<1>1. p[2] \in FetchedFiles /\ \A q \in Fetchers : q[2] \in FetchedFiles
  BY FetchersAreAll
<1>2. \A q \in Fetchers : /\ q # p => fetch'[q] = fetch[q]
                          /\ fetch'[p].pc = to /\ fetch'[p].lock = 0
  BY DEF FetchTypes, FetchRecords, Fetched!Leaves
<1>3. /\ users' = [users EXCEPT ![p[2]] = users[p[2]] - 1]
      /\ lockNo' = [lockNo EXCEPT ![p[2]] = IF users[p[2]] = 1 THEN 0 ELSE lockNo[p[2]]]
  BY DEF Fetched!Leaves, Fetched!Sha
<1>4. IsFiniteSet(Claiming(p[2])) /\ p \in Claiming(p[2]) /\ users[p[2]] = Cardinality(Claiming(p[2]))
  <2>1. p \in Claiming(p[2]) /\ Claiming(p[2]) \subseteq Fetchers
    BY DEF Claiming
  <2> QED
    BY <1>1, <2>1, FetchersAreFew, FS_Subset DEF ClaimsHold
<1>5. Cardinality(Claiming(p[2]) \ {p}) = users[p[2]] - 1
  <2> DEFINE C == Claiming(p[2])
  <2>1. IsFiniteSet(C) /\ p \in C /\ users[p[2]] = Cardinality(C)
    BY <1>4
  <2>2. Cardinality(C \ {p}) = Cardinality(C) - 1
    <3> HIDE DEF C
    <3> QED
      BY <2>1, FS_RemoveElement
  <2> QED
    BY <2>1, <2>2
<1>6. Cardinality(Claiming(p[2]) \ {p}) \in Nat /\ IsFiniteSet(Claiming(p[2]) \ {p})
  BY <1>4, FS_RemoveElement, FS_CardinalityType
<1>7. /\ users' \in [FetchedFiles -> Nat] /\ lockNo' \in [FetchedFiles -> Nat]
      /\ \A s \in FetchedFiles : /\ users'[s] = IF s = p[2] THEN users[s] - 1 ELSE users[s]
                                 /\ s # p[2] => lockNo'[s] = lockNo[s]
      /\ users[p[2]] # 1 => lockNo'[p[2]] = lockNo[p[2]]
  BY <1>1, <1>3, <1>5, <1>6 DEF FetchTypes
<1>8. users[p[2]] = 1 => \A q \in Fetchers : q # p /\ q[2] = p[2] => fetch[q].pc \notin Claimed
  <2>1. users[p[2]] = 1 => Claiming(p[2]) \ {p} = {}
    BY <1>5, <1>6, FS_EmptySet
  <2> QED
    BY <2>1 DEF Claiming
<1>9. \A q \in Fetchers : IF fetch'[q].pc \in Claimed
                          THEN fetch'[q].lock = lockNo'[q[2]] /\ fetch'[q].lock # 0 ELSE fetch'[q].lock = 0
  <2> SUFFICES ASSUME NEW q \in Fetchers
               PROVE  IF fetch'[q].pc \in Claimed
                      THEN fetch'[q].lock = lockNo'[q[2]] /\ fetch'[q].lock # 0 ELSE fetch'[q].lock = 0
    OBVIOUS
  <2>1. CASE q = p
    BY <1>2, <2>1 DEF Claimed
  <2>2. CASE q # p
    BY <1>1, <1>2, <1>7, <1>8, <2>2 DEF ClaimsHold
  <2> QED
    BY <2>1, <2>2
<1>10. \A s \in FetchedFiles : Claiming(s)' = IF s = p[2] THEN Claiming(s) \ {p} ELSE Claiming(s)
  BY <1>2 DEF Claiming, Claimed
<1>11. \A s \in FetchedFiles : users'[s] = Cardinality(Claiming(s)')
  BY ZenonT(40), <1>5, <1>7, <1>10 DEF ClaimsHold
<1>12. \A q, t \in Fetchers :
         q[2] = t[2] /\ fetch'[q].pc \in {"has", "get"} /\ fetch'[t].pc \in {"has", "get"} => q = t
  BY <1>2 DEF ClaimsHold
<1> QED
  BY <1>7, <1>9, <1>11, <1>12 DEF ClaimsHold

-----------------------------------------------------------------------------
(* The copies.                                                             *)

\* Whoever takes a copy away spoils it for those who are at work on the file.
LEMMA TakenAway ==
  ASSUME FetchTypes, LostForCause, NEW s \in FetchedFiles, NEW by, Fetched!Unlinks(s, by)
  PROVE  /\ cached' \in [FetchedFiles -> {"none", "good", "rotten", "short"}]
         /\ hits' \in [Fetchers -> 0..2] /\ cached'[s] = "none"
         /\ \A q \in Fetchers : hits[q] <= hits'[q]
         /\ \A q \in Fetchers \ by : Fair(cached'[q[2]], fetch[q], hits'[q])
         /\ \A q \in Fetchers : q[2] # s => cached'[q[2]] = cached[q[2]]
PROOF
<1>1. cached' = [cached EXCEPT ![s] = "none"]
  BY DEF Fetched!Unlinks
<1>2. hits' = [q \in Fetchers |->
                 IF cached[s] # "none" /\ q \in Fetched!Active(s) \ by THEN Fetched!Spoilt(q) ELSE hits[q]]
  BY FetchersAreAll DEF Fetched!Unlinks
<1>3. \A q \in Fetchers : /\ hits[q] \in 0..2 /\ Fetched!Spoilt(q) \in 0..2
                          /\ Fetched!Spoilt(q) >= hits[q]
                          /\ Fetched!Spoilt(q) = IF hits[q] < 2 THEN hits[q] + 1 ELSE 2
  BY DEF FetchTypes, Fetched!Spoilt
<1>4. \A q \in Fetchers : hits'[q] \in 0..2 /\ hits[q] <= hits'[q]
  BY <1>2, <1>3
<1>5. hits' \in [Fetchers -> 0..2]
  BY <1>2, <1>4
<1>6. /\ cached' \in [FetchedFiles -> {"none", "good", "rotten", "short"}] /\ cached'[s] = "none"
      /\ \A t \in FetchedFiles : t # s => cached'[t] = cached[t]
  BY <1>1 DEF FetchTypes
<1>7. \A q \in Fetchers : q[2] \in FetchedFiles
  BY FetchersAreAll
<1>8. ASSUME NEW q \in Fetchers, q \notin by PROVE Fair(cached'[q[2]], fetch[q], hits'[q])
  <2>1. Fair(cached[q[2]], fetch[q], hits[q]) /\ fetch[q] \in FetchRecords
    BY DEF LostForCause, FetchTypes
  <2>2. CASE q[2] # s
    <3>1. cached'[q[2]] = cached[q[2]] /\ hits'[q] = hits[q]
      BY <1>2, <1>6, <1>7, <2>2 DEF Fetched!Active, Fetched!Sha
    <3> QED
      BY <2>1, <3>1
  <2>3. CASE q[2] = s
    <3>1. q \in Fetched!Active(s) <=> fetch[q].pc \in Fetched!Running
      BY <2>3, FetchersAreAll DEF Fetched!Active
    <3>2. CASE fetch[q].pc \in {"copy", "drop"} /\ cached[s] # "none"
      <4>1. hits'[q] = IF hits[q] < 2 THEN hits[q] + 1 ELSE 2
        BY <1>2, <1>3, <1>8, <3>1, <3>2 DEF Fetched!Running
      <4>2. fetch[q].round \in {1, 2} /\ hits[q] \in 0..2
        BY <1>3, <2>1 DEF FetchRecords
      <4> QED
        BY <2>1, <3>2, <4>1, <4>2 DEF Fair
    <3>3. CASE ~(fetch[q].pc \in {"copy", "drop"} /\ cached[s] # "none")
      <4>1. hits'[q] >= hits[q] /\ hits'[q] \in Int /\ hits[q] \in Int /\ fetch[q].round \in Int
        BY <1>3, <1>4, <2>1 DEF FetchRecords
      <4>2. cached'[q[2]] = "none"
        BY <1>6, <2>3
      <4> QED
        BY <2>1, <2>3, <3>3, <4>1, <4>2 DEF Fair
    <3> QED
      BY <3>2, <3>3
  <2> QED
    BY <2>2, <2>3
<1> QED
  BY <1>4, <1>5, <1>6, <1>7, <1>8

\* Only the fetch of p moves, what is kept stays.
LEMMA FairKept ==
  ASSUME FetchTypes, LostForCause, NEW p \in Fetchers, UNCHANGED <<cached, hits>>,
         \A q \in Fetchers : q # p => fetch'[q] = fetch[q], Fair(cached[p[2]], fetch'[p], hits[p])
  PROVE  LostForCause'
PROOF
<1> SUFFICES ASSUME NEW q \in Fetchers PROVE Fair(cached'[q[2]], fetch'[q], hits'[q])
  BY DEF LostForCause
<1>1. CASE q = p
  BY <1>1
<1>2. CASE q # p
  BY <1>2 DEF LostForCause
<1> QED
  BY <1>1, <1>2

\* What a fetch has become after it has left its claim.
LEMMA LeftTyped ==
  ASSUME FetchTypes, NEW p \in Fetchers, NEW to \in {"copy", "failed"},
         NEW why \in {"none", "refused", "tries"}, Fetched!Leaves(p, to, why)
  PROVE  /\ fetch' \in [Fetchers -> FetchRecords]
         /\ \A q \in Fetchers : q # p => fetch'[q] = fetch[q]
         /\ fetch'[p].pc = to /\ fetch'[p].why = why /\ fetch'[p].round = fetch[p].round
PROOF
<1> DEFINE r == [fetch[p] EXCEPT !.pc = to, !.lock = 0, !.tries = 0, !.why = why]
<1>1. r \in FetchRecords /\ r.pc = to /\ r.why = why /\ r.round = fetch[p].round
  <2>1. fetch[p] \in FetchRecords
    BY DEF FetchTypes
  <2> DEFINE x == [fetch[p] EXCEPT !.pc = to, !.lock = 0]
  <2>2. x \in FetchRecords /\ x.pc = to /\ x.round = fetch[p].round
    BY <2>1 DEF FetchRecords
  <2>3. r = [x EXCEPT !.tries = 0, !.why = why]
    OBVIOUS
  <2> HIDE DEF x, r
  <2> QED
    BY <2>2, <2>3 DEF FetchRecords
<1>2. fetch' = [fetch EXCEPT ![p] = r]
  BY DEF Fetched!Leaves, FetchTypes
<1> HIDE DEF r
<1> QED
  BY <1>1, <1>2 DEF FetchTypes

-----------------------------------------------------------------------------
(* The steps.                                                              *)

LEMMA AFetchClaims ==
  ASSUME FetchSizes, FetchInv, NEW p \in Fetchers, Fetched!Claims(p) \/ Fetched!Enters(p)
  PROVE  FetchInv'
PROOF
<1>1. /\ UNCHANGED <<cached, hits, landed>>
      /\ fetch[p] \in FetchRecords /\ Fair(cached[p[2]], fetch[p], hits[p])
  BY DEF FetchInv, FetchTypes, LostForCause, Fetched!Claims, Fetched!Enters, Fetched!CacheSame
<1>2. p[2] \in FetchedFiles /\ Fetched!Sha(p) = p[2]
  BY FetchersAreAll
<1>3. CASE Fetched!Claims(p)
  <2> DEFINE n == lockNo'[p[2]]
             r == [fetch[p] EXCEPT !.pc = "claim", !.lock = n]
  <2>1. /\ fetch[p].pc = "wait"
        /\ lockNo' = [lockNo EXCEPT ![p[2]] = IF lockNo[p[2]] = 0 THEN Fetched!NewLock ELSE lockNo[p[2]]]
        /\ users' = [users EXCEPT ![p[2]] = users[p[2]] + 1]
        /\ fetch' = [fetch EXCEPT ![p].pc = "claim", ![p].lock = n]
    BY <1>2, <1>3 DEF Fetched!Claims
  <2>2. fetch[p].lock = 0
    BY <2>1 DEF FetchInv, ClaimsHold, Claimed
  <2>3. Fetched!NewLock \in Nat \ {0}
    BY <2>2, ALockIsFree DEF FetchInv
  <2>4. n \in Nat /\ n # 0 /\ (lockNo[p[2]] # 0 => n = lockNo[p[2]])
    BY <1>2, <2>1, <2>3 DEF FetchInv, FetchTypes
  <2>5. lockNo' = [lockNo EXCEPT ![p[2]] = n]
    BY <1>2, <2>1 DEF FetchInv, FetchTypes
  <2> HIDE DEF n
  <2>6. r \in FetchRecords /\ r.pc = "claim" /\ r.lock = n
    BY <1>1, <2>4 DEF FetchRecords
  <2>7. fetch' = [fetch EXCEPT ![p] = r]
    BY <2>1 DEF FetchInv, FetchTypes
  <2>8. Fair(cached[p[2]], r, hits[p])
    BY <1>1, <2>1 DEF Fair, FetchRecords
  <2> HIDE DEF r
  <2>9. FetchTypes'
    <3>1. fetch' \in [Fetchers -> FetchRecords]
      BY <2>6, <2>7 DEF FetchInv, FetchTypes
    <3>2. users[p[2]] + 1 \in Nat
      BY <1>2 DEF FetchInv, FetchTypes
    <3>3. users' \in [FetchedFiles -> Nat] /\ lockNo' \in [FetchedFiles -> Nat]
      BY <2>1, <2>4, <2>5, <3>2 DEF FetchInv, FetchTypes
    <3> QED
      BY <1>1, <3>1, <3>3 DEF FetchInv, FetchTypes
  <2>10. ClaimsHold'
    BY <2>1, <2>4, <2>5, <2>6, <2>7, ClaimTaken DEF FetchInv, Claimed
  <2>11. LostForCause'
    BY <1>1, <2>7, <2>8, FairKept DEF FetchInv, FetchTypes
  <2> QED
    BY <2>9, <2>10, <2>11 DEF FetchInv
<1>4. CASE Fetched!Enters(p)
  <2> DEFINE r == [fetch[p] EXCEPT !.pc = "has"]
  <2>1. /\ fetch[p].pc = "claim" /\ Fetched!LockFree(fetch[p].lock)
        /\ fetch' = [fetch EXCEPT ![p].pc = "has"] /\ UNCHANGED <<users, lockNo>>
    BY <1>4 DEF Fetched!Enters, Fetched!Goes
  <2>2. r \in FetchRecords /\ r.pc = "has" /\ r.lock = fetch[p].lock
    BY <1>1 DEF FetchRecords
  <2>3. fetch' = [fetch EXCEPT ![p] = r]
    BY <2>1 DEF FetchInv, FetchTypes
  <2>4. Fair(cached[p[2]], r, hits[p])
    BY <1>1, <2>1 DEF Fair, FetchRecords
  <2> HIDE DEF r
  <2>5. FetchTypes'
    BY <1>1, <2>1, <2>2, <2>3 DEF FetchInv, FetchTypes
  <2>6. \A q \in Fetchers \ {p} : q[2] = p[2] => fetch[q].pc \notin {"has", "get"}
    BY <2>1, FetchersAreAll DEF FetchInv, ClaimsHold, Claimed, Fetched!LockFree
  <2>7. ClaimsHold'
    BY <2>1, <2>2, <2>3, <2>6, ClaimKept DEF FetchInv, Claimed
  <2>8. LostForCause'
    BY <1>1, <2>3, <2>4, FairKept DEF FetchInv, FetchTypes
  <2> QED
    BY <2>5, <2>7, <2>8 DEF FetchInv
<1> QED
  BY <1>3, <1>4

LEMMA AFetchLooks ==
  ASSUME FetchSizes, FetchInv, NEW p \in Fetchers, Fetched!FindsCopy(p) \/ Fetched!FindsNone(p)
  PROVE  FetchInv'
PROOF
<1>1. /\ fetch[p].pc = "has" /\ landed' = landed
      /\ fetch[p] \in FetchRecords /\ Fair(cached[p[2]], fetch[p], hits[p])
  BY DEF FetchInv, FetchTypes, LostForCause, Fetched!FindsCopy, Fetched!FindsNone
<1>2. p[2] \in FetchedFiles /\ Fetched!Sha(p) = p[2] /\ cached[p[2]] \in {"none", "good", "rotten", "short"}
  BY FetchersAreAll DEF FetchInv, FetchTypes
<1>3. CASE Fetched!FindsCopy(p)
  <2>1. UNCHANGED <<cached, hits>> /\ cached[p[2]] \in {"good", "rotten"} /\ Fetched!Leaves(p, "copy", "none")
    BY <1>2, <1>3 DEF Fetched!FindsCopy
  <2>2. ClaimsHold' /\ users' \in [FetchedFiles -> Nat] /\ lockNo' \in [FetchedFiles -> Nat]
    BY <1>1, <2>1, ClaimLeft DEF FetchInv, Claimed
  <2>3. /\ fetch' \in [Fetchers -> FetchRecords]
        /\ \A q \in Fetchers : q # p => fetch'[q] = fetch[q]
        /\ fetch'[p].pc = "copy" /\ fetch'[p].why = "none" /\ fetch'[p].round = fetch[p].round
    BY <2>1, LeftTyped DEF FetchInv
  <2>4. Fair(cached[p[2]], fetch'[p], hits[p])
    BY <1>1, <2>1, <2>3 DEF Fair
  <2>5. LostForCause'
    BY <2>1, <2>3, <2>4, FairKept DEF FetchInv
  <2> QED
    BY <1>1, <2>1, <2>2, <2>3, <2>5 DEF FetchInv, FetchTypes
<1>4. CASE Fetched!FindsNone(p)
  <2>1. Fetched!Unlinks(p[2], {p}) /\ cached[p[2]] \in {"none", "short"}
    BY <1>2, <1>4 DEF Fetched!FindsNone
  <2>2. /\ cached' \in [FetchedFiles -> {"none", "good", "rotten", "short"}]
        /\ hits' \in [Fetchers -> 0..2] /\ cached'[p[2]] = "none" /\ hits[p] <= hits'[p]
        /\ \A q \in Fetchers \ {p} : Fair(cached'[q[2]], fetch[q], hits'[q])
    BY <1>2, <2>1, TakenAway DEF FetchInv
  <2>3. hits[p] \in Int /\ hits'[p] \in Int
    BY <2>2 DEF FetchInv, FetchTypes
  <2>4. CASE Fetched!Leaves(p, "failed", "refused")
    <3>1. ClaimsHold' /\ users' \in [FetchedFiles -> Nat] /\ lockNo' \in [FetchedFiles -> Nat]
      BY <1>1, <2>4, ClaimLeft DEF FetchInv, Claimed
    <3>2. /\ fetch' \in [Fetchers -> FetchRecords]
          /\ \A q \in Fetchers : q # p => fetch'[q] = fetch[q]
          /\ fetch'[p].pc = "failed" /\ fetch'[p].why = "refused"
      BY <2>4, LeftTyped DEF FetchInv
    <3>3. Fair(cached'[p[2]], fetch'[p], hits'[p])
      BY <3>2 DEF Fair
    <3>4. LostForCause'
      BY <2>2, <3>2, <3>3 DEF LostForCause
    <3> QED
      BY <1>1, <2>2, <3>1, <3>2, <3>4 DEF FetchInv, FetchTypes
  <2>5. CASE Fetched!Goes(p, "get") /\ UNCHANGED <<users, lockNo>>
    <3> DEFINE r == [fetch[p] EXCEPT !.pc = "get"]
    <3>1. fetch' = [fetch EXCEPT ![p].pc = "get"]
      BY <2>5 DEF Fetched!Goes
    <3>2. r \in FetchRecords /\ r.pc = "get" /\ r.lock = fetch[p].lock
      BY <1>1 DEF FetchRecords
    <3>3. fetch' = [fetch EXCEPT ![p] = r]
      BY <3>1 DEF FetchInv, FetchTypes
    <3>4. r.why = fetch[p].why /\ r.round = fetch[p].round /\ r.round \in Int
      BY <1>1 DEF FetchRecords
    <3> HIDE DEF r
    <3>5. Fair(cached'[p[2]], r, hits'[p])
      BY <1>1, <2>2, <2>3, <3>2, <3>4 DEF Fair
    <3>6. FetchTypes'
      BY <1>1, <2>2, <2>5, <3>2, <3>3 DEF FetchInv, FetchTypes
    <3>7. \A q \in Fetchers \ {p} : q[2] = p[2] => fetch[q].pc \notin {"has", "get"}
      BY <1>1 DEF FetchInv, ClaimsHold
    <3>8. ClaimsHold'
      BY <1>1, <2>5, <3>2, <3>3, <3>7, ClaimKept DEF FetchInv, Claimed
    <3>9. \A q \in Fetchers : fetch'[q] = IF q = p THEN r ELSE fetch[q]
      BY <3>3 DEF FetchInv, FetchTypes
    <3>10. LostForCause'
      BY <2>2, <3>5, <3>9 DEF LostForCause
    <3> QED
      BY <3>6, <3>8, <3>10 DEF FetchInv
  <2> QED
    BY <1>4, <2>4, <2>5 DEF Fetched!FindsNone
<1> QED
  BY <1>3, <1>4

\* A file that was checked comes to its place.
LEMMA ACopyIsPlaced ==
  ASSUME FetchTypes, LostForCause, NEW s \in FetchedFiles, Fetched!Places(s), hits' = hits
  PROVE  /\ cached' \in [FetchedFiles -> {"none", "good", "rotten", "short"}] /\ cached'[s] = "good"
         /\ \A q \in Fetchers : Fair(cached'[q[2]], fetch[q], hits'[q])
PROOF
<1>1. /\ cached' \in [FetchedFiles -> {"none", "good", "rotten", "short"}] /\ cached'[s] = "good"
      /\ \A t \in FetchedFiles : t # s => cached'[t] = cached[t]
  BY DEF Fetched!Places, FetchTypes
<1>2. ASSUME NEW q \in Fetchers PROVE Fair(cached'[q[2]], fetch[q], hits[q])
  <2>1. Fair(cached[q[2]], fetch[q], hits[q]) /\ q[2] \in FetchedFiles
    BY FetchersAreAll DEF LostForCause
  <2>2. cached'[q[2]] = "good" \/ cached'[q[2]] = cached[q[2]]
    BY <1>1, <2>1
  <2> QED
    BY <2>1, <2>2 DEF Fair
<1> QED
  BY <1>1, <1>2

LEMMA AFetchGets ==
  ASSUME FetchSizes, FetchInv, NEW p \in Fetchers, Fetched!Gets(p) \/ Fetched!GetFails(p)
  PROVE  FetchInv'
PROOF
<1>1. /\ fetch[p].pc = "get" /\ landed' = landed /\ hits' = hits
      /\ fetch[p] \in FetchRecords /\ Fair(cached[p[2]], fetch[p], hits[p])
  BY DEF FetchInv, FetchTypes, LostForCause, Fetched!Gets, Fetched!GetFails, Fetched!CacheSame
<1>2. p[2] \in FetchedFiles /\ Fetched!Sha(p) = p[2]
  BY FetchersAreAll
<1>3. CASE Fetched!Gets(p)
  <2>1. Fetched!Places(p[2]) /\ Fetched!Leaves(p, "copy", "none")
    BY <1>2, <1>3 DEF Fetched!Gets
  <2>2. ClaimsHold' /\ users' \in [FetchedFiles -> Nat] /\ lockNo' \in [FetchedFiles -> Nat]
    BY <1>1, <2>1, ClaimLeft DEF FetchInv, Claimed
  <2>3. /\ fetch' \in [Fetchers -> FetchRecords]
        /\ \A q \in Fetchers : q # p => fetch'[q] = fetch[q]
        /\ fetch'[p].pc = "copy" /\ fetch'[p].why = "none" /\ fetch'[p].round = fetch[p].round
    BY <2>1, LeftTyped DEF FetchInv
  <2>4. /\ cached' \in [FetchedFiles -> {"none", "good", "rotten", "short"}] /\ cached'[p[2]] = "good"
        /\ \A q \in Fetchers : Fair(cached'[q[2]], fetch[q], hits'[q])
    BY <1>1, <1>2, <2>1, ACopyIsPlaced DEF FetchInv
  <2>5. Fair(cached'[p[2]], fetch'[p], hits'[p])
    BY <1>1, <2>3, <2>4 DEF Fair
  <2>6. LostForCause'
    BY <2>3, <2>4, <2>5 DEF LostForCause
  <2> QED
    BY <1>1, <2>2, <2>3, <2>4, <2>6 DEF FetchInv, FetchTypes
<1>4. CASE Fetched!GetFails(p)
  <2>1. cached' = cached
    BY <1>4 DEF Fetched!GetFails, Fetched!CacheSame
  <2>2. ASSUME NEW why \in {"refused", "tries"}, Fetched!Leaves(p, "failed", why)
        PROVE  FetchInv'
    <3>1. ClaimsHold' /\ users' \in [FetchedFiles -> Nat] /\ lockNo' \in [FetchedFiles -> Nat]
      BY <1>1, <2>2, ClaimLeft DEF FetchInv, Claimed
    <3>2. /\ fetch' \in [Fetchers -> FetchRecords]
          /\ \A q \in Fetchers : q # p => fetch'[q] = fetch[q]
          /\ fetch'[p].pc = "failed" /\ fetch'[p].why = why
      BY <2>2, LeftTyped DEF FetchInv
    <3>3. Fair(cached[p[2]], fetch'[p], hits[p])
      BY <2>2, <3>2 DEF Fair
    <3>4. LostForCause'
      BY <1>1, <2>1, <3>2, <3>3, FairKept DEF FetchInv
    <3> QED
      BY <1>1, <2>1, <3>1, <3>2, <3>4 DEF FetchInv, FetchTypes
  <2>3. CASE fetch' = [fetch EXCEPT ![p].tries = @ + 1] /\ UNCHANGED <<users, lockNo>>
    <3> DEFINE r == [fetch[p] EXCEPT !.tries = fetch[p].tries + 1]
    <3>1. /\ r \in FetchRecords /\ r.pc = fetch[p].pc /\ r.lock = fetch[p].lock
          /\ r.why = fetch[p].why /\ r.round = fetch[p].round
      BY <1>1 DEF FetchRecords
    <3>2. fetch' = [fetch EXCEPT ![p] = r]
      BY <2>3 DEF FetchInv, FetchTypes
    <3> HIDE DEF r
    <3>3. Fair(cached[p[2]], r, hits[p])
      BY <1>1, <3>1 DEF Fair
    <3>4. FetchTypes'
      BY <1>1, <2>1, <2>3, <3>1, <3>2 DEF FetchInv, FetchTypes
    <3>5. \A q \in Fetchers \ {p} : q[2] = p[2] => fetch[q].pc \notin {"has", "get"}
      BY <1>1 DEF FetchInv, ClaimsHold
    <3>6. ClaimsHold'
      BY <1>1, <2>3, <3>1, <3>2, <3>5, ClaimKept DEF FetchInv, Claimed
    <3>7. LostForCause'
      BY <1>1, <2>1, <3>2, <3>3, FairKept DEF FetchInv, FetchTypes
    <3> QED
      BY <3>4, <3>6, <3>7 DEF FetchInv
  <2> QED
    BY <1>4, <2>2, <2>3 DEF Fetched!GetFails
<1> QED
  BY <1>3, <1>4

LEMMA AFetchCopies ==
  ASSUME FetchSizes, FetchInv, NEW p \in Fetchers, Fetched!Copies(p) \/ Fetched!Drops(p)
  PROVE  FetchInv'
PROOF
<1>1. fetch[p] \in FetchRecords /\ Fair(cached[p[2]], fetch[p], hits[p]) /\ UNCHANGED <<users, lockNo>>
  BY DEF FetchInv, FetchTypes, LostForCause, Fetched!Copies, Fetched!Drops
<1>2. p[2] \in FetchedFiles /\ Fetched!Sha(p) = p[2]
  BY FetchersAreAll
<1>3. fetch[p].pc \in {"copy", "drop"}
  BY DEF Fetched!Copies, Fetched!Drops
<1>4. fetch[p].lock = 0
  BY <1>3 DEF FetchInv, ClaimsHold, Claimed
\* Whatever becomes of it, it has no claim.
<1>5. ASSUME NEW r \in FetchRecords, r.lock = 0, r.pc \notin Claimed,
             fetch' = [fetch EXCEPT ![p] = r]
      PROVE  /\ ClaimsHold' /\ fetch' \in [Fetchers -> FetchRecords]
             /\ \A q \in Fetchers : fetch'[q] = IF q = p THEN r ELSE fetch[q]
  <2>1. ClaimsHold'
    BY <1>1, <1>3, <1>4, <1>5, ClaimKept DEF FetchInv, Claimed
  <2> QED
    BY <1>5, <2>1 DEF FetchInv, FetchTypes
<1>6. CASE Fetched!Copies(p)
  <2>1. UNCHANGED <<cached, hits>> /\ fetch[p].pc = "copy"
    BY <1>6 DEF Fetched!Copies, Fetched!CacheSame
  <2>2. CASE cached[p[2]] = "good"
    <3> DEFINE r == [pc |-> "placed", round |-> 1, lock |-> 0, tries |-> 0, why |-> "none"]
    <3>1. fetch' = [fetch EXCEPT ![p] = r] /\ landed' = [landed EXCEPT ![p] = "good"]
      BY <1>2, <1>6, <2>2 DEF Fetched!Copies, Fetched!Resting
    <3>2. r \in FetchRecords /\ r.lock = 0 /\ r.pc \notin Claimed /\ Fair(cached[p[2]], r, hits[p])
      BY DEF FetchRecords, Claimed, Fair
    <3> HIDE DEF r
    <3>3. landed' \in [Fetchers -> {"none", "good"}]
      BY <3>1 DEF FetchInv, FetchTypes
    <3>4. /\ ClaimsHold' /\ fetch' \in [Fetchers -> FetchRecords]
          /\ \A q \in Fetchers : fetch'[q] = IF q = p THEN r ELSE fetch[q]
      BY <1>5, <3>1, <3>2
    <3>5. LostForCause'
      BY <2>1, <3>2, <3>4, FairKept DEF FetchInv
    <3> QED
      BY <1>1, <2>1, <3>3, <3>4, <3>5 DEF FetchInv, FetchTypes
  <2>3. CASE cached[p[2]] # "good"
    <3> DEFINE r == [fetch[p] EXCEPT !.pc = "drop"]
    <3>1. fetch' = [fetch EXCEPT ![p].pc = "drop"] /\ landed' = landed
      BY <1>2, <1>6, <2>3 DEF Fetched!Copies, Fetched!Goes
    <3>2. /\ r \in FetchRecords /\ r.lock = 0 /\ r.pc = "drop"
          /\ r.why = fetch[p].why /\ r.round = fetch[p].round
      BY <1>1, <1>4 DEF FetchRecords
    <3>3. fetch' = [fetch EXCEPT ![p] = r]
      BY <3>1 DEF FetchInv, FetchTypes
    <3> HIDE DEF r
    <3>4. Fair(cached[p[2]], r, hits[p])
      BY <1>1, <2>1, <2>3, <3>2 DEF Fair
    <3>5. /\ ClaimsHold' /\ fetch' \in [Fetchers -> FetchRecords]
          /\ \A q \in Fetchers : fetch'[q] = IF q = p THEN r ELSE fetch[q]
      BY <1>5, <3>2, <3>3 DEF Claimed
    <3>6. LostForCause'
      BY <2>1, <3>4, <3>5, FairKept DEF FetchInv
    <3> QED
      BY <1>1, <2>1, <3>1, <3>5, <3>6 DEF FetchInv, FetchTypes
  <2> QED
    BY <2>2, <2>3
<1>7. CASE Fetched!Drops(p)
  <2>1. fetch[p].pc = "drop" /\ landed' = landed /\ Fetched!Unlinks(p[2], {p})
    BY <1>2, <1>7 DEF Fetched!Drops
  <2>2. /\ cached' \in [FetchedFiles -> {"none", "good", "rotten", "short"}]
        /\ hits' \in [Fetchers -> 0..2] /\ cached'[p[2]] = "none" /\ hits[p] <= hits'[p]
        /\ \A q \in Fetchers \ {p} : Fair(cached'[q[2]], fetch[q], hits'[q])
    BY <1>2, <2>1, TakenAway DEF FetchInv
  <2>3. hits[p] \in Int /\ hits'[p] \in Int /\ fetch[p].round \in {1, 2}
    BY <1>1, <2>2 DEF FetchInv, FetchTypes, FetchRecords
  <2>4. hits'[p] >= fetch[p].round
    BY <1>1, <2>1, <2>2, <2>3 DEF Fair
  <2>5. ASSUME NEW r \in FetchRecords, r.lock = 0, r.pc \in {"wait", "failed"},
               fetch' = [fetch EXCEPT ![p] = r], Fair(cached'[p[2]], r, hits'[p])
        PROVE  FetchInv'
    <3>1. /\ ClaimsHold' /\ fetch' \in [Fetchers -> FetchRecords]
          /\ \A q \in Fetchers : fetch'[q] = IF q = p THEN r ELSE fetch[q]
      BY <1>5, <2>5 DEF Claimed
    <3>2. LostForCause'
      BY <2>2, <2>5, <3>1 DEF LostForCause
    <3> QED
      BY <1>1, <2>1, <2>2, <3>1, <3>2 DEF FetchInv, FetchTypes
  <2>6. CASE fetch[p].round = 1
    <3> DEFINE r == [fetch[p] EXCEPT !.pc = "wait", !.round = 2]
    <3>1. fetch' = [fetch EXCEPT ![p].pc = "wait", ![p].round = 2]
      BY <1>7, <2>6 DEF Fetched!Drops
    <3>2. /\ r \in FetchRecords /\ r.lock = 0 /\ r.pc = "wait" /\ r.round = 2 /\ r.why = fetch[p].why
      BY <1>1, <1>4 DEF FetchRecords
    <3>3. fetch' = [fetch EXCEPT ![p] = r]
      BY <3>1 DEF FetchInv, FetchTypes
    <3> HIDE DEF r
    <3>4. Fair(cached'[p[2]], r, hits'[p])
      BY <1>1, <2>2, <2>3, <2>4, <2>6, <3>2 DEF Fair
    <3> QED
      BY <2>5, <3>2, <3>3, <3>4
  <2>7. CASE fetch[p].round = 2
    <3> DEFINE r == [fetch[p] EXCEPT !.pc = "failed", !.why = "copies"]
    <3>1. fetch' = [fetch EXCEPT ![p].pc = "failed", ![p].why = "copies"]
      BY <1>7, <2>7 DEF Fetched!Drops
    <3>2. r \in FetchRecords /\ r.lock = 0 /\ r.pc = "failed"
      BY <1>1, <1>4 DEF FetchRecords
    <3>3. fetch' = [fetch EXCEPT ![p] = r]
      BY <3>1 DEF FetchInv, FetchTypes
    <3> HIDE DEF r
    <3>4. Fair(cached'[p[2]], r, hits'[p])
      BY <2>4, <2>7, <3>2 DEF Fair
    <3> QED
      BY <2>5, <3>2, <3>3, <3>4
  <2> QED
    BY <2>3, <2>6, <2>7
<1> QED
  BY <1>6, <1>7

\* A copy is trimmed, rots, or is brought by hand: no fetch moves.
LEMMA ACopyChanges ==
  ASSUME FetchSizes, FetchInv,
         \/ \E i \in FetchJobs : Fetched!PruneLooks(i) \/ \E s \in FetchedFiles : Fetched!PruneUnlinks(i, s)
         \/ \E s \in FetchedFiles :
              Fetched!KeepsByHand(s) \/ \E how \in {"rotten", "short"} : Fetched!Rots(s, how)
  PROVE  FetchInv'
PROOF
<1>1. UNCHANGED <<users, lockNo, fetch, landed>>
  BY DEF Fetched!PruneLooks, Fetched!PruneUnlinks, Fetched!KeepsByHand, Fetched!Rots
<1>2. ClaimsHold'
  BY <1>1 DEF FetchInv, ClaimsHold, Claiming
<1>3. ASSUME cached' \in [FetchedFiles -> {"none", "good", "rotten", "short"}], hits' \in [Fetchers -> 0..2],
             \A q \in Fetchers : Fair(cached'[q[2]], fetch[q], hits'[q])
      PROVE  FetchInv'
  BY <1>1, <1>2, <1>3 DEF FetchInv, FetchTypes, LostForCause
<1>4. ASSUME NEW i \in FetchJobs, Fetched!PruneLooks(i) PROVE FetchInv'
  BY <1>3, <1>4 DEF FetchInv, FetchTypes, LostForCause, Fetched!PruneLooks, Fetched!CacheSame
<1>5. ASSUME NEW i \in FetchJobs, NEW s \in FetchedFiles, Fetched!PruneUnlinks(i, s) PROVE FetchInv'
  <2>1. Fetched!Unlinks(s, {})
    BY <1>5 DEF Fetched!PruneUnlinks
  <2> QED
    BY <1>3, <2>1, TakenAway DEF FetchInv
<1>6. ASSUME NEW s \in FetchedFiles, Fetched!KeepsByHand(s) PROVE FetchInv'
  <2>1. Fetched!Places(s) /\ hits' = hits
    BY <1>6 DEF Fetched!KeepsByHand
  <2>2. hits' \in [Fetchers -> 0..2]
    BY <2>1 DEF FetchInv, FetchTypes
  <2> QED
    BY <1>3, <2>1, <2>2, ACopyIsPlaced DEF FetchInv
<1>7. ASSUME NEW s \in FetchedFiles, NEW how \in {"rotten", "short"}, Fetched!Rots(s, how) PROVE FetchInv'
  <2>1. /\ cached[s] = "good" /\ cached' = [cached EXCEPT ![s] = how]
        /\ hits' = [q \in Fetchers |->
             IF q[2] = s /\ fetch[q].pc \notin {"placed", "failed"} THEN Fetched!Spoilt(q) ELSE hits[q]]
    BY <1>7, FetchersAreAll DEF Fetched!Rots, Fetched!Sha
  <2>2. \A q \in Fetchers : /\ hits[q] \in 0..2 /\ Fetched!Spoilt(q) \in 0..2
                            /\ Fetched!Spoilt(q) = IF hits[q] < 2 THEN hits[q] + 1 ELSE 2
    BY DEF FetchInv, FetchTypes, Fetched!Spoilt
  <2>3. hits' \in [Fetchers -> 0..2]
    BY <2>1, <2>2
  <2>4. /\ cached' \in [FetchedFiles -> {"none", "good", "rotten", "short"}]
        /\ \A t \in FetchedFiles : cached'[t] = IF t = s THEN how ELSE cached[t]
    BY <2>1 DEF FetchInv, FetchTypes
  <2>5. ASSUME NEW q \in Fetchers PROVE Fair(cached'[q[2]], fetch[q], hits'[q])
    <3>1. /\ Fair(cached[q[2]], fetch[q], hits[q]) /\ fetch[q] \in FetchRecords
          /\ hits[q] \in 0..2 /\ fetch[q].round \in {1, 2} /\ q[2] \in FetchedFiles
      BY <2>2, FetchersAreAll DEF FetchInv, FetchTypes, LostForCause, FetchRecords
    <3>2. CASE q[2] = s /\ fetch[q].pc \notin {"placed", "failed"}
      <4>1. hits'[q] = IF hits[q] < 2 THEN hits[q] + 1 ELSE 2
        BY <2>1, <2>2, <3>2
      <4> QED
        BY <2>1, <3>1, <3>2, <4>1 DEF Fair
    <3>3. CASE ~(q[2] = s /\ fetch[q].pc \notin {"placed", "failed"})
      <4>1. hits'[q] = hits[q] /\ (q[2] # s => cached'[q[2]] = cached[q[2]])
        BY <2>1, <2>4, <3>1, <3>3
      <4> QED
        BY <3>1, <3>3, <4>1 DEF Fair
    <3> QED
      BY <3>2, <3>3
  <2> QED
    BY <1>3, <2>3, <2>4, <2>5
<1> QED
  BY <1>4, <1>5, <1>6, <1>7

LEMMA FetchingGoesOn ==
  ASSUME FetchSizes, FetchInv, [Fetched!Next]_(Fetched!vars)
  PROVE  FetchInv'
PROOF
<1>1. CASE \E p \in Fetched!Fetches : Fetched!FetchMoves(p)
  <2>1. PICK p \in Fetchers : Fetched!FetchMoves(p)
    BY <1>1, FetchersAreAll
  <2> QED
    BY <2>1, AFetchClaims, AFetchLooks, AFetchGets, AFetchCopies DEF Fetched!FetchMoves
<1>2. CASE UNCHANGED Fetched!vars
  <2>1. UNCHANGED <<cached, users, lockNo, fetch, landed, hits>>
    BY <1>2 DEF Fetched!vars
  <2> QED
    BY <2>1 DEF FetchInv, FetchTypes, ClaimsHold, Claiming, LostForCause
<1> QED
  BY <1>1, <1>2, ACopyChanges DEF Fetched!Next

\* Of the files that a node fetches for its servers: what lands is what was asked for, one fetch
\* downloads a file while the others wait for it, and none gives up on damaged copies unless two were
\* spoilt; for any number of files and installs, whoever trims or spoils the cache.
THEOREM FetchesAreShared ==
  ASSUME FetchSizes
  PROVE  Fetched!Spec =>
           [](Fetched!OnlyVerifiedLands /\ Fetched!OneDownload /\ Fetched!GivesUpForCause)
PROOF
<1>1. Fetched!Init => FetchInv
  BY NoneFetching
<1>2. FetchInv /\ [Fetched!Next]_(Fetched!vars) => FetchInv'
  BY FetchingGoesOn
<1>3. FetchInv => Fetched!OnlyVerifiedLands /\ Fetched!OneDownload /\ Fetched!GivesUpForCause
  <2> SUFFICES ASSUME FetchInv
               PROVE  Fetched!OnlyVerifiedLands /\ Fetched!OneDownload /\ Fetched!GivesUpForCause
    OBVIOUS
  <2>1. Fetched!OnlyVerifiedLands
    BY FetchersAreAll DEF FetchInv, FetchTypes, Fetched!OnlyVerifiedLands
  <2>2. Fetched!OneDownload
    <3> SUFFICES ASSUME NEW p \in Fetchers, NEW q \in Fetchers, p # q, p[2] = q[2],
                        {fetch[p].pc, fetch[q].pc} = {"get"}
                 PROVE  FALSE
      BY FetchersAreAll DEF Fetched!OneDownload
    <3>1. fetch[p].pc = "get" /\ fetch[q].pc = "get"
      OBVIOUS
    <3> QED
      BY <3>1 DEF FetchInv, ClaimsHold
  <2>3. Fetched!GivesUpForCause
    BY FetchersAreAll DEF FetchInv, LostForCause, Fair, Fetched!GivesUpForCause
  <2> QED
    BY <2>1, <2>2, <2>3
<1> QED
  BY <1>1, <1>2, <1>3, PTL DEF Fetched!Spec

-----------------------------------------------------------------------------
\* BootTest: a boot is called failed only by a poll that a fresh answer or a silence has answered.
THEOREM FailuresHaveCause == Booting!Spec => Booting!FailedForCause
PROOF
<1>1. ASSUME [Booting!Next]_(Booting!vars), outcome = "none", outcome' = "failed"
      PROVE  Booting!Exited(bootProc) \/ quiet' > 0
  <2>1. Booting!Polls
    BY <1>1 DEF Booting!vars, Booting!logs, Booting!Next, Booting!Watches, Booting!ServerMoves,
                Booting!ReadsOld, Booting!Starts, Booting!UnreadPoll, Booting!TimesOut,
                Booting!Stops, Booting!Ends
  <2>2. PICK gone \in Booting!SaysExited : gone \/ Booting!Hung
    BY <1>1, <2>1 DEF Booting!Polls, Booting!Ends
  <2>3. CASE gone
    BY <2>3 DEF Booting!SaysExited
  <2>4. CASE Booting!Hung
    BY <2>4 DEF Booting!Hung
  <2> QED
    BY <2>2, <2>3, <2>4
<1>2. [Booting!Next]_(Booting!vars)
        => [outcome = "none" /\ outcome' = "failed" => Booting!Exited(bootProc) \/ quiet' > 0]_(Booting!vars)
  BY <1>1
<1> QED
  BY <1>2, PTL DEF Booting!Spec, Booting!FailedForCause

\* What is promised of files and mods is kept: a file is downloaded once and is what was asked for,
\* what a planned mod requires is accounted for, and every jar is identified and on record, for any
\* number of files, projects and jars.
THEOREM ModsHold ==
  ASSUME FetchSizes, AddSizes, RecordSizes
  PROVE  Fetched!Spec /\ Adding!Spec /\ Recording!Spec => []ModsAreAccounted
<1>1. Adding!Spec => [](Adding!NoTwice /\ Adding!Accounted /\ Adding!RecordsTell)
  BY AddedAreAccounted
<1>2. Recording!Spec =>
        [](/\ Recording!RecordsAreTrue /\ Recording!AllAreIdentified
           /\ Recording!RecordsStay /\ Recording!NewestIsTold)
  BY RecordsHold
<1>3. Fetched!Spec => [](Fetched!OnlyVerifiedLands /\ Fetched!OneDownload /\ Fetched!GivesUpForCause)
  BY FetchesAreShared
<1> QED
  BY <1>1, <1>2, <1>3, PTL DEF ModsAreAccounted

\* A boot is called failed for a reason, and the old version of a mod goes only when the new one has
\* been fetched.
THEOREM CausesHold ==
  ASSUME AddSizes
  PROVE  Booting!Spec /\ Adding!Spec => StepsHaveCause
<1>1. Booting!Spec => Booting!FailedForCause
  BY FailuresHaveCause
<1>2. Adding!Spec => Adding!OldOneKept
  BY OldOneIsKept
<1> QED
  BY <1>1, <1>2 DEF StepsHaveCause
=============================================================================
