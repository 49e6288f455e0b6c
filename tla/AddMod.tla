-------------------------------- MODULE AddMod --------------------------------
(***************************************************************************)
(* Adding one mod with everything it requires: the walk of the dependency  *)
(* graph (app/deps.py), whose visits run side by side on CurseForge and    *)
(* one after another on Modrinth, then the installs and what is recorded   *)
(* of them (app/mods.py), while somebody else deletes mods.                *)
(*                                                                         *)
(* The facts about a project that the code decides on:                     *)
(*   "recorded"   the manifest has it        "onDisk"    its jar is there  *)
(*   "renderer"   it only runs on a client   "nofile"    none that fits    *)
(*   "blocked"    its author forbids downloads and Modrinth has no copy    *)
(***************************************************************************)
EXTENDS Integers, SequencesExt

CONSTANTS Projects, Root,
          Worlds,       \* the cases: what each project requires, and its facts
          MaxDepth,     \* MAX_DEPTH
          MaxPlan,      \* MAX_DEPENDENCIES
          MaxTroubles,  \* bound: calls that fail
          MaxDeletes    \* bound: mods somebody deletes meanwhile

VARIABLES requires, facts,  \* of each project
          sideBySide,       \* the source is CurseForge
          visits,           \* visits that have been started and have not ended
          visited,          \* seen
          plan, warned,     \* entries, and the projects given up with a warning
          depth,            \* of the planned
          phase,            \* visit, add, note, noted, done
          queue, at,        \* what is still to be added; where add_mod is
          oldJar,           \* the version of the root that is being replaced is there
          disk,             \* the jars in mods/ of these projects
          manifest, held,   \* the recorded projects; the manifest that was just read
          listed,           \* the record that has "dependencies", and which
          installed, failed,
          deleting,         \* somebody's delete: what it drops, the manifest it read
          troubles, deletes

world == <<requires, facts, sideBySide>>
walk == <<visits, visited, plan, warned, depth>>
adding == <<queue, at, oldJar, held, listed, installed, failed>>
vars == <<world, walk, phase, adding, disk, manifest, deleting, troubles, deletes>>

Has(p, f) == f \in facts[p]
Visit == [project : Projects, depth : 0..(MaxDepth + 1), asked : BOOLEAN]
NoList == [of |-> Root, what |-> {}]
NoDelete == [on |-> FALSE, drop |-> Root, read |-> {}, stage |-> "none"]
TypeOK ==
  /\ visits \in Seq(Visit)
  /\ UNION {visited, warned, disk, manifest, held, listed.what, failed} \subseteq Projects
  /\ installed \in Seq(Projects) /\ listed.of \in Projects
  /\ plan \in Seq(Projects) /\ queue \in Seq(Projects)
  /\ depth \in [Projects -> 0..MaxDepth]
  /\ phase \in {"visit", "add", "note", "noted", "done"}
  /\ at \in {"fetch", "replace", "upload", "read", "write"}
  /\ {oldJar, sideBySide} \subseteq BOOLEAN
  /\ deleting.drop \in Projects /\ deleting.read \subseteq Projects
  /\ troubles \in 0..MaxTroubles /\ deletes \in 0..MaxDeletes

Init ==
  /\ \E w \in Worlds : requires = w.requires /\ facts = w.facts
  /\ sideBySide \in BOOLEAN
  /\ visits = <<[project |-> Root, depth |-> 0, asked |-> FALSE]>>
  /\ visited = {} /\ plan = <<>> /\ warned = {} /\ depth = [p \in Projects |-> 0]
  /\ phase = "visit" /\ queue = <<>> /\ at = "fetch"
  /\ oldJar \in BOOLEAN
  /\ disk = {p \in Projects : Has(p, "onDisk")} /\ manifest = {p \in Projects : Has(p, "recorded")}
  /\ held = {} /\ listed = NoList /\ installed = <<>> /\ failed = {}
  /\ deleting = NoDelete /\ troubles = 0 /\ deletes = 0

Trouble == troubles < MaxTroubles /\ troubles' = troubles + 1

(***************************************************************************)
(* deps.resolve: the visits.                                               *)
(***************************************************************************)
May == IF sideBySide THEN DOMAIN visits ELSE {1} \cap DOMAIN visits
Ends(i) == visits' = RemoveAt(visits, i)

\* The first piece of a visit, up to where it asks the source.
SeenAlready(p) == p \in visited
Asks(i) ==
  LET v == visits[i]  p == v.project
  IN /\ phase = "visit" /\ i \in May /\ ~v.asked
     /\ IF SeenAlready(p) \/ Len(plan) >= MaxPlan
        THEN Ends(i) /\ UNCHANGED visited
        ELSE /\ visited' = visited \cup {p}
             /\ IF Has(p, "recorded") /\ v.depth > 0 THEN Ends(i)
                ELSE visits' = [visits EXCEPT ![i].asked = TRUE]
     /\ UNCHANGED <<world, plan, warned, depth, phase, adding, disk, manifest, deleting,
                    troubles, deletes>>

\* The source answers. What is required is visited at once, side by side, or one by one
\* and each before the next.
Answered(i) ==
  LET v == visits[i]  p == v.project
      Sees(q) == [project |-> q, depth |-> v.depth + 1, asked |-> FALSE]
      next == IF v.depth < MaxDepth
              THEN {order \in [1..Cardinality(requires[p]) -> {Sees(q) : q \in requires[p]}] :
                      Range(order) = {Sees(q) : q \in requires[p]}}
              ELSE {<<>>}
  IN /\ phase = "visit" /\ i \in May /\ v.asked
     /\ ~Has(p, "nofile") /\ ~(Has(p, "renderer") /\ v.depth > 0)
     /\ plan' = Append(plan, p) /\ depth' = [depth EXCEPT ![p] = v.depth]
     /\ \E order \in next : visits' = SubSeq(visits, 1, i - 1) \o order
                                      \o SubSeq(visits, i + 1, Len(visits))
     /\ UNCHANGED <<world, visited, warned, phase, adding, disk, manifest, deleting,
                    troubles, deletes>>
Unanswered(i) ==    \* no file that fits, a client renderer, or the call failed
  LET v == visits[i]  p == v.project
  IN /\ phase = "visit" /\ i \in May /\ v.asked
     /\ \/ Has(p, "nofile") /\ UNCHANGED troubles
        \/ Has(p, "renderer") /\ v.depth > 0 /\ UNCHANGED troubles
        \/ Trouble
     /\ Ends(i) /\ warned' = warned \cup {p}
     /\ UNCHANGED <<world, visited, plan, depth, phase, adding, disk, manifest, deleting, deletes>>

\* add_mod_with_dependencies: the root, then what it requires and is not there, but for
\* what the person leaves out of the preview. _mark_if_present looks at names on disk.
Wanted(p) == p = plan[1] \/ ~(Has(p, "onDisk") \/ Has(p, "recorded"))
InOrder(places) ==
  {order \in [1..Cardinality(places) -> places] :
     \A i, j \in DOMAIN order : i < j => order[i] < order[j]}
Resolved ==
  /\ phase = "visit" /\ visits = <<>>
  /\ phase' = IF plan = <<>> THEN "done" ELSE "add"
  /\ \E skip \in {{}, Range(plan) \ {Root}} :
       \E order \in InOrder({i \in DOMAIN plan : Wanted(plan[i]) /\ plan[i] \notin skip}) :
         queue' = [k \in DOMAIN order |-> plan[order[k]]]
  /\ UNCHANGED <<world, walk, at, oldJar, held, listed, installed, failed, disk, manifest,
                 deleting, troubles, deletes>>

(***************************************************************************)
(* add_mod, for one entry after another.                                   *)
(***************************************************************************)
Adds(place) == phase = "add" /\ queue # <<>> /\ at = place
Ready == UNCHANGED <<world, walk, deleting, deletes>>
NextEntry == queue' = Tail(queue) /\ at' = "fetch" /\ phase' = phase

FetchedLast ==
  /\ Adds("fetch")
  /\ at' = "replace" /\ oldJar' = (oldJar /\ Head(queue) # Root)
  /\ UNCHANGED <<phase, queue, held, listed, installed, failed, disk, manifest, troubles>> /\ Ready
Fetched ==
  /\ Adds("fetch") /\ ~Has(Head(queue), "blocked")
  /\ at' = "replace"
  /\ UNCHANGED <<phase, queue, oldJar, held, listed, installed, failed, disk, manifest, troubles>>
  /\ Ready
Fails ==            \* refused, not fetched, or not uploaded: the next one's turn
  /\ Adds("fetch") \/ Adds("upload")
  /\ \/ at = "fetch" /\ Has(Head(queue), "blocked") /\ UNCHANGED troubles
     \/ Trouble
  /\ failed' = failed \cup {Head(queue)} /\ NextEntry
  /\ UNCHANGED <<oldJar, held, listed, installed, disk, manifest>> /\ Ready
Replaced ==         \* the old version goes first so that both do not load
  /\ Adds("replace") /\ at' = "upload"
  /\ oldJar' = (oldJar /\ Head(queue) # Root)
  /\ UNCHANGED <<phase, queue, held, listed, installed, failed, disk, manifest, troubles>> /\ Ready
Uploaded ==
  /\ Adds("upload") /\ at' = "read" /\ disk' = disk \cup {Head(queue)}
  /\ UNCHANGED <<phase, queue, oldJar, held, listed, installed, failed, manifest, troubles>> /\ Ready
Reads ==            \* _remember_mod reads the manifest, then writes it with the record
  /\ Adds("read") /\ at' = "write" /\ held' = manifest
  /\ UNCHANGED <<phase, queue, oldJar, listed, installed, failed, disk, manifest, troubles>> /\ Ready
Recorded == held \cup {Head(queue)}
Writes ==           \* a manifest that cannot be written is done without
  /\ Adds("write")
  /\ \/ manifest' = Recorded /\ UNCHANGED troubles
     \/ Trouble /\ UNCHANGED manifest
  /\ listed' = IF listed.of = Head(queue) THEN NoList ELSE listed   \* a fresh record
  /\ installed' = Append(installed, Head(queue)) /\ NextEntry
  /\ UNCHANGED <<oldJar, held, failed, disk>> /\ Ready

\* The record of the first that was installed - the root, unless it failed - is saved
\* again with what was pulled in: the manifest is read, then written.
PulledIn == Range(installed) \ {Root}
Notes ==
  /\ phase = "add" /\ queue = <<>>
  /\ phase' = IF PulledIn # {} THEN "note" ELSE "done"
  /\ held' = manifest
  /\ UNCHANGED <<queue, at, oldJar, listed, installed, failed, disk, manifest, troubles>> /\ Ready
Noted ==
  /\ phase = "note" /\ phase' = "done"
  /\ LET first == installed[1]
     IN \/ /\ first \in held /\ manifest' = held
           /\ listed' = [of |-> first, what |-> PulledIn] /\ UNCHANGED troubles
        \/ first \notin held /\ UNCHANGED <<manifest, listed, troubles>>
        \/ Trouble /\ UNCHANGED <<manifest, listed>>
  /\ UNCHANGED <<queue, at, oldJar, held, installed, failed, disk>> /\ Ready

(***************************************************************************)
(* delete_mods and _forget_mods, by somebody else: files, read, write.     *)
(***************************************************************************)
Deletes(p) ==
  /\ deleting.stage = "none" /\ deletes < MaxDeletes /\ deletes' = deletes + 1
  /\ p \in disk /\ disk' = disk \ {p}
  /\ deleting' = [on |-> TRUE, drop |-> p, read |-> {}, stage |-> "read"]
  /\ UNCHANGED <<world, walk, phase, adding, manifest, troubles>>
Forgets ==
  /\ \/ /\ deleting.stage = "read" /\ deleting' = [deleting EXCEPT !.stage = "write", !.read = manifest]
        /\ UNCHANGED manifest
     \/ /\ deleting.stage = "write" /\ deleting' = [deleting EXCEPT !.stage = "none"]
        /\ manifest' = deleting.read \ {deleting.drop}
  /\ UNCHANGED <<world, walk, phase, adding, disk, troubles, deletes>>

Walks == \E i \in DOMAIN visits : Asks(i) \/ Answered(i) \/ Unanswered(i)
Job == \/ Walks \/ Resolved \/ Fetched \/ Fails \/ Replaced \/ Uploaded \/ Reads \/ Writes
       \/ Notes \/ Noted
Next == Job \/ Forgets \/ \E p \in Projects : Deletes(p)
Spec == Init /\ [][Next]_vars

(***************************************************************************)
(* Properties.                                                             *)
(***************************************************************************)
\* No project is planned twice, although visits that run side by side come to it by
\* several ways while its answer is awaited: two copies are what the loader refuses.
NoTwice == IsInjective(plan)

\* When the walk is over, everything a planned mod requires is planned too, was there,
\* or is named in a warning - unless the walk reached its limit of depth or of size.
Accounted ==
  phase # "visit" /\ Len(plan) < MaxPlan =>
    \A p \in Range(plan) : depth[p] < MaxDepth =>
      \A q \in requires[p] : q \in Range(plan) \cup warned \/ Has(q, "recorded")

\* The version being replaced is only deleted when the new one has been fetched: a
\* fetch that fails, or a mod that is blocked, leaves the server as it was (add_mod).
OldOneKept ==
  [][oldJar /\ ~oldJar' => phase = "add" /\ Head(queue) = Root /\ Root \notin failed'
                           /\ ~Has(Root, "blocked")]_vars

\* When nobody interferes and no call fails, all that was added is recorded at the end,
\* and the record of the root names what it pulled in (_remember_mod, the re-save).
RecordsTell ==
  phase = "done" /\ troubles = 0 /\ deletes = 0 =>
    /\ Range(installed) \subseteq manifest
    /\ Root \in Range(installed) /\ PulledIn # {} => listed = [of |-> Root, what |-> PulledIn]
=============================================================================
