------------------------------ MODULE ModRecords ------------------------------
(***************************************************************************)
(* What the manifest of a server says of the jars in its folder: the job   *)
(* that identifies them by their content (app/mods.py, identify_mods),     *)
(* beside people who add, delete and switch mods and the fetching of       *)
(* logos, and the check for newer versions that goes by those records      *)
(* (check_updates, app/watcher.py).                                        *)
(*                                                                         *)
(* A jar has a content, which CurseForge ("cf") or Modrinth ("mr") may     *)
(* know, or which says itself what it is ("meta").  A file is a name and   *)
(* whether it is switched on (off is <name>.jar.disabled).                 *)
(***************************************************************************)
EXTENDS Integers, FiniteSets

CONSTANTS Names,        \* base names of jars
          Contents,     \* records [project, version]
          Worlds,       \* who knows which content
          MaxVersion,   \* bound: versions of a project
          MaxChanges,   \* bound: what people do
          MaxTroubles   \* bound: calls that fail

VARIABLES knows,        \* one of Worlds
          folder,       \* the content of each file, or NoJar
          manifest,     \* the record of each name, or None
          id,           \* identify_mods
          other,        \* another request that reads, changes and writes the manifest
          newest,       \* the newest version of each project
          check,        \* check_updates
          touched,      \* names whose jar was put or deleted since the files were listed, or
                        \* while they were identified and what its jar said of itself has stayed
          recorded,     \* names whose record somebody has written and nobody deleted
          crossed,      \* a manifest was written over one that somebody else had read
          changes, troubles

vars == <<knows, folder, manifest, id, other, newest, check, touched, recorded, crossed, changes,
          troubles>>

NoJar == [project |-> "gone", version |-> 0]
None == [by |-> "none", jar |-> NoJar]
Entries == Names \X BOOLEAN
Projects == {c.project : c \in Contents}
Records == {None} \cup [by : {"cf", "mr", "local"}, jar : Contents]
NamesOf(files) == {f[1] : f \in files}
Known(r) == r.by \in {"cf", "mr"}
\* A dict updated with another.
Over(new, old) ==
  [x \in DOMAIN new \cup DOMAIN old |-> IF x \in DOMAIN new THEN new[x] ELSE old[x]]

NoId == [pc |-> "idle", want |-> {}, tried |-> {}, blobs |-> <<>>, found |-> <<>>, failed |-> {},
         seen |-> <<>>]
NoOther == [pc |-> "idle", op |-> "none", name |-> "", jar |-> NoJar, seen |-> <<>>]
NoCheck == [pc |-> "idle", recs |-> <<>>, ups |-> <<>>, left |-> {}, missed |-> {}, start |-> <<>>]

TypeOK ==
  /\ folder \in [Entries -> Contents \cup {NoJar}]
  /\ manifest \in [Names -> Records]
  /\ id.pc \in {"idle", "read", "cf", "mr", "names", "save", "write", "done"}
  /\ id.tried \subseteq id.want /\ id.want \subseteq Entries
  /\ DOMAIN id.found \subseteq DOMAIN id.blobs /\ DOMAIN id.blobs \subseteq id.tried
  /\ other.pc \in {"idle", "read", "write"} /\ other.op \in {"none", "add", "delete", "icons"}
  /\ newest \in [Projects -> 1..MaxVersion]
  /\ check.pc \in {"idle", "bulk", "slow", "done"} /\ check.left \subseteq Names
  /\ touched \subseteq Names /\ recorded \subseteq Names /\ crossed \in BOOLEAN
  /\ changes \in 0..MaxChanges /\ troubles \in 0..MaxTroubles

\* A server pack: jars that nobody has recorded.
Init ==
  /\ knows \in Worlds
  /\ folder \in {[f \in Entries |-> IF f[2] THEN jars[f[1]] ELSE NoJar] : jars \in [Names -> Contents]}
  /\ manifest = [n \in Names |-> None]
  /\ id = NoId /\ other = NoOther /\ check = NoCheck
  /\ newest = [p \in Projects |-> MaxVersion - 1]
  /\ touched = {} /\ recorded = {} /\ crossed = FALSE
  /\ changes = 0 /\ troubles = 0

May == changes < MaxChanges /\ changes' = changes + 1
\* Bound: the check, which reads the manifest once, is not run while jars are identified.
Rests(job) == job.pc \in {"idle", "done"}
Trouble == troubles < MaxTroubles /\ troubles' = troubles + 1

-----------------------------------------------------------------------------
(* identify_mods.                                                          *)

idOnly == <<knows, folder, other, newest, check, recorded, changes>>

\* list_mods: the jars without a project.
Begins ==
  /\ May /\ Rests(id) /\ Rests(check)
  /\ LET unknown == {f \in Entries : folder[f] # NoJar /\ ~Known(manifest[f[1]])}
     IN  /\ unknown # {}
         /\ id' = [NoId EXCEPT !.pc = "read", !.want = unknown]
  /\ touched' = {n \in touched : manifest[n].by = "local"}
                 \cup {n \in {other.name} : other.op \in {"add", "delete"}}
  /\ UNCHANGED <<knows, folder, other, newest, check, recorded, manifest, crossed, troubles>>

\* One jar is pulled off the node, by the path it had when it was listed.
Fetches(f) ==
  /\ id.pc = "read" /\ f \in id.want \ id.tried
  /\ \/ /\ folder[f] # NoJar
        /\ id' = [id EXCEPT !.tried = @ \cup {f}, !.blobs = Over([g \in {f} |-> folder[f]], @)]
        /\ UNCHANGED troubles
     \/ /\ folder[f] = NoJar \/ troubles < MaxTroubles
        /\ id' = [id EXCEPT !.tried = @ \cup {f}]
        /\ troubles' = IF folder[f] = NoJar THEN troubles ELSE troubles + 1
  /\ UNCHANGED <<idOnly, manifest, touched, crossed>>

\* {fingerprint: name}: of two jars with one content, the later is asked for.
OneOfEach(files) ==
  {S \in SUBSET files : \A f \in files : Cardinality({g \in S : id.blobs[g] = id.blobs[f]}) = 1}
Matched(S, src) == [f \in {g \in S : src \in knows[id.blobs[g]]} |-> [by |-> src, jar |-> id.blobs[f]]]

\* match_fingerprints, then versions_from_hashes for the files without a match.
Asks(src, next) ==
  /\ id.pc = src \/ (src = "cf" /\ id.pc = "read" /\ id.tried = id.want)
  /\ \/ \E S \in OneOfEach(DOMAIN id.blobs \ DOMAIN id.found) :
          /\ id' = [id EXCEPT !.pc = next, !.found = Over(@, Matched(S, src))]
          /\ UNCHANGED troubles
     \/ Trouble /\ id' = [id EXCEPT !.pc = next, !.failed = @ \cup {src}]
  /\ UNCHANGED <<idOnly, manifest, touched, crossed>>

\* get_mods and get_projects: if they fail the job does.
NamesCome(ok) ==
  /\ id.pc = "names"
  /\ IF ok THEN id' = [id EXCEPT !.pc = "save"] /\ UNCHANGED troubles
           ELSE Trouble /\ id' = NoId
  /\ UNCHANGED <<idOnly, manifest, touched, crossed>>

\* A bug: what is recorded of other jars is not read again.
RereadsNothing ==
  /\ id.pc = "save"
  /\ id' = [id EXCEPT !.pc = "write", !.seen = [n \in Names |-> None]]
  /\ UNCHANGED <<idOnly, manifest, touched, crossed, troubles>>

\* read_manifest, when all is known.
Rereads ==
  /\ id.pc = "save"
  /\ id' = [id EXCEPT !.pc = "write", !.seen = manifest]
  /\ UNCHANGED <<idOnly, manifest, touched, crossed, troubles>>

\* The record a name gets: a match, or what its jar says if it has no record yet.
Merges(n, r) ==
  LET matches == {id.found[f] : f \in {g \in DOMAIN id.found : g[1] = n}}
      says == {[by |-> "local", jar |-> id.blobs[f]] :
                 f \in {g \in DOMAIN id.blobs \ DOMAIN id.found :
                          g[1] = n /\ "meta" \in knows[id.blobs[g]]}}
  IN  \/ r \in matches
      \/ matches = {} /\ id.seen[n] = None /\ says # {} /\ r \in says
      \/ matches = {} /\ (id.seen[n] # None \/ says = {}) /\ r = id.seen[n]

\* write_manifest; a failure is a line in the log.
Saves ==
  /\ id.pc = "write"
  /\ \/ /\ \E m \in [Names -> Records] : (\A n \in Names : Merges(n, m[n])) /\ manifest' = m
        /\ id' = [id EXCEPT !.pc = "done"]
        /\ crossed' = (crossed \/ other.pc = "write")
        /\ UNCHANGED troubles
     \/ Trouble /\ id' = NoId /\ UNCHANGED <<manifest, crossed>>
  /\ UNCHANGED <<idOnly, touched>>

Identifying == \/ Begins \/ Rereads \/ Saves \/ NamesCome(TRUE) \/ NamesCome(FALSE)
               \/ \E f \in Entries : Fetches(f)
               \/ Asks("cf", "mr") \/ Asks("mr", "names")

-----------------------------------------------------------------------------
(* What people do meanwhile.                                               *)

rest == <<knows, newest, check, troubles>>

\* set_enabled: the file gets its other name, which must be free.
Toggles(f) ==
  /\ May /\ folder[f] # NoJar /\ folder[<<f[1], ~f[2]>>] = NoJar
  /\ folder' = [folder EXCEPT ![f] = NoJar, ![<<f[1], ~f[2]>>] = folder[f]]
  /\ UNCHANGED <<rest, manifest, id, other, touched, recorded, crossed>>

\* add_mod and delete_mods: first the file, then the manifest.
Puts(op, f, c) ==
  /\ May /\ other.pc = "idle"
  /\ \/ op = "add" /\ c # NoJar /\ f[2]
     \/ op = "delete" /\ c = NoJar /\ folder[f] # NoJar
  /\ folder' = [folder EXCEPT ![f] = c]
  /\ other' = [NoOther EXCEPT !.pc = "read", !.op = op, !.name = f[1], !.jar = c]
  /\ touched' = touched \cup {f[1]}
  /\ recorded' = recorded \ {f[1]}
  /\ UNCHANGED <<rest, manifest, id, crossed>>

\* _remember_mod, _forget_mods.
ReadsManifest ==
  /\ other.pc = "read"
  /\ other' = [other EXCEPT !.pc = "write", !.seen = manifest]
  /\ UNCHANGED <<rest, folder, manifest, id, touched, recorded, crossed, changes>>
\* enrich_icons: the manifest is read, and the logos are fetched from the web.
FetchesIcons ==
  /\ May /\ other.pc = "idle" /\ \E n \in Names : Known(manifest[n])
  /\ other' = [NoOther EXCEPT !.pc = "write", !.op = "icons", !.seen = manifest]
  /\ UNCHANGED <<rest, folder, manifest, id, touched, recorded, crossed>>
WritesManifest ==
  /\ other.pc = "write"
  /\ manifest' = CASE other.op = "add" -> [other.seen EXCEPT ![other.name] = [by |-> "cf", jar |-> other.jar]]
                   [] other.op = "delete" -> [other.seen EXCEPT ![other.name] = None]
                   [] other.op = "icons" -> other.seen
  /\ other' = NoOther
  /\ crossed' = (crossed \/ id.pc = "write")
  /\ recorded' = IF other.op = "add" THEN recorded \cup {other.name} ELSE recorded
  /\ UNCHANGED <<rest, folder, id, touched, changes>>

\* The author of a project publishes a version.
Publishes(p) ==
  /\ May /\ newest[p] < MaxVersion
  /\ newest' = [newest EXCEPT ![p] = @ + 1]
  /\ UNCHANGED <<knows, folder, manifest, id, other, check, touched, recorded, crossed, troubles>>

-----------------------------------------------------------------------------
(* check_updates.                                                          *)

ckOnly == <<knows, folder, manifest, id, other, newest, touched, recorded, crossed, changes>>
Has(n) == check.recs[n].jar
Newer(n) == newest[Has(n).project]
Noted(ups, S) == Over([n \in {m \in S : Newer(m) # Has(m).version} |-> Newer(n)], ups)

CheckBegins ==
  /\ May /\ Rests(check) /\ Rests(id)
  /\ LET recs == {n \in Names : Known(manifest[n])}
     IN  /\ recs # {}
         /\ check' = [NoCheck EXCEPT !.pc = "bulk", !.left = recs, !.start = newest,
                                     !.recs = [n \in recs |-> manifest[n]]]
  /\ UNCHANGED <<knows, folder, manifest, id, other, newest, touched, recorded, crossed, troubles>>

\* latest_file_ids: one call for all, which has an answer for some of CurseForge's.
OfBulk(S) == S
InBulk ==
  /\ check.pc = "bulk"
  /\ \E S \in SUBSET {n \in check.left : check.recs[n].by = "cf"} :
       check' = [check EXCEPT !.pc = "slow", !.left = @ \ OfBulk(S), !.ups = Noted(@, S)]
  /\ UNCHANGED <<ckOnly, troubles>>

\* list_mod_versions, for the rest: a look-up that fails says nothing.
Looks(n) ==
  /\ check.pc = "slow" /\ n \in check.left
  /\ \/ /\ check' = [check EXCEPT !.left = @ \ {n}, !.ups = Noted(@, {n})]
        /\ UNCHANGED troubles
     \/ /\ Trouble
        /\ check' = [check EXCEPT !.left = @ \ {n}, !.missed = @ \cup {n}]
  /\ UNCHANGED ckOnly

CheckEnds ==
  /\ check.pc = "slow" /\ check.left = {}
  /\ check' = [check EXCEPT !.pc = "done"]
  /\ UNCHANGED <<ckOnly, troubles>>

-----------------------------------------------------------------------------

Next ==
  \/ Identifying
  \/ \E f \in Entries : Toggles(f) \/ \E c \in Contents \cup {NoJar}, op \in {"add", "delete"} : Puts(op, f, c)
  \/ ReadsManifest \/ FetchesIcons \/ WritesManifest
  \/ \E p \in Projects : Publishes(p)
  \/ CheckBegins \/ InBulk \/ CheckEnds \/ \E n \in Names : Looks(n)

Spec == Init /\ [][Next]_vars

-----------------------------------------------------------------------------
(* Properties.                                                             *)

\* identify_mods: what is recorded of a jar that nobody has replaced is what the jar is,
\* whatever it is called by then.
RecordsAreTrue ==
  id.pc = "done" /\ ~crossed =>
    \A n \in NamesOf(id.want) \ touched :
      manifest[n] # None => \E on \in BOOLEAN : folder[<<n, on>>] = manifest[n].jar

\* Every jar that was read and that somebody who answered knows is identified; of jars with one
\* content, one of them.
AllAreIdentified ==
  id.pc = "done" /\ ~crossed =>
    \A f \in DOMAIN id.blobs :
      (knows[id.blobs[f]] \cap {"cf", "mr"}) \ id.failed # {} =>
        \E g \in DOMAIN id.blobs :
          id.blobs[g] = id.blobs[f] /\ (g[1] \notin touched => Known(manifest[g[1]]))

\* mods.py, "Mods installed through this app are recorded": identifying drops no record, unless
\* two of those who read, change and write the manifest met.
RecordsStay == ~crossed => \A n \in recorded : manifest[n] # None

\* check_updates: a mod without an update is of a version that was the newest while it looked,
\* unless its look-up failed; one with an update has another version.
NewestIsTold ==
  check.pc = "done" =>
    \A n \in DOMAIN check.recs :
      IF n \in DOMAIN check.ups
      THEN check.ups[n] # Has(n).version
      ELSE n \in check.missed \/ Has(n).version \in check.start[Has(n).project]..Newer(n)
=============================================================================
