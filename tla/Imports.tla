------------------------------ MODULE Imports -------------------------------
(***************************************************************************)
(* Archives that people bring (app/uploads.py) and what is made of them    *)
(* (app/packs.py): an upload is written chunk by chunk, analysed, recorded,*)
(* and the oldest are pruned, by two processes on one folder; an install    *)
(* reads the archive again.  A path is the sequence of its names, without   *)
(* case; what a file says of the pack is a record.                          *)
(***************************************************************************)
EXTENDS Integers, FiniteSets, Sequences, SequencesExt

CONSTANTS
  Uploads,     \* ids of uploads, each of one request
  Installs,    \* installs and reviews of an upload
  NoUpload,
  Archives,    \* what is uploaded: [zip, big, size, names, says]
  ClientDirs, ClientFiles, \* CLIENT_ONLY_DIRS, CLIENT_ONLY_FILES
  Skipped,     \* names that SERVER_PACK_SKIP_PATTERNS match
  Installable, \* INSTALLABLE_LOADERS
  Limit,       \* MAX_UPLOAD_MB, in chunks
  Keep,        \* MAX_UPLOADS
  MaxTroubles  \* bound on processes that die, writes that fail and people who delete

VARIABLES
  zips,    \* chunks of each archive in UPLOAD_DIR, or NoZip
  records, \* the record of each: when, and its summary
  store,   \* the request of each
  install,
  clock,
  pruned,  \* pairs: an upload that was pruned, and how many newer ones there were
  budget

vars == <<zips, records, store, install, clock, pruned, budget>>

(* The plan of an archive.                                                  *)
Markers == {"mods", "config", "defaultconfigs"}
Nothing == [loader |-> "", version |-> "", mc |-> "", mods |-> FALSE]
Shortest(paths) == CHOOSE p \in paths : \A q \in paths : Len(p) <= Len(q)
Below(p, folder) == IsPrefix(folder, p) /\ Len(p) > Len(folder)
After(p, folder) == SubSeq(p, Len(folder) + 1, Len(p))
Safe(p) == p # <<>> /\ \A i \in DOMAIN p : p[i] \notin {"", ".", ".."}

\* The shallowest folder with a marker in it; the archive itself when there is none.
Root(names) ==
  LET roots == UNION {{SubSeq(n, 1, i - 1) : i \in {j \in 1 .. Len(n) - 1 : n[j] \in Markers}}
                        \cup (IF Last(n) = "manifest.json" THEN {Front(n)} ELSE {}) : n \in ToSet(names)}
  IN IF roots = {} THEN <<>> ELSE Shortest(roots)

\* The manifest of an export: the first, at the top or one folder deep.
Manifests(names) == SelectSeq(names, LAMBDA n : Last(n) = "manifest.json" /\ Len(n) <= 2)
Overrides(names) == Front(Manifests(names)[1]) \o <<"overrides">>

IsExport(a) ==
  /\ Manifests(a.names) # <<>>
  /\ LET m == a.says[Manifests(a.names)[1]] IN
       /\ m.form = "curseforge"
       /\ m.mods \/ m.built \/ \E n \in ToSet(a.names) : Below(n, Overrides(a.names))

ClientPlan(a) ==
  LET over == Overrides(a.names)
      inside == {After(n, over) : n \in {m \in ToSet(a.names) : Below(m, over)}}
      m == a.says[Manifests(a.names)[1]]
  IN [source |-> "manifest", loader |-> m.loader, version |-> m.version, mc |-> m.mc, mods |-> m.mods,
      overlay |-> {t \in inside : Safe(t) /\ t[1] \notin ClientDirs /\ Last(t) \notin ClientFiles}]

\* What the files say, each only of what those before it left open; a library names the loader itself.
Or(a, b) == IF a = "" THEN b ELSE a
Fill(plan, s) ==
  [plan EXCEPT !.mc = Or(@, s.mc), !.version = Or(@, s.version),
               !.loader = IF s.form = "library" THEN s.loader ELSE Or(@, s.loader)]
Told(a) ==
  LET of(forms) == SelectSeq(a.names, LAMBDA n : a.says[n].form \in forms)
      fills(plan, n) == IF a.says[n].form = "installer" /\ plan.loader # "" THEN plan ELSE Fill(plan, a.says[n])
  IN FoldLeft(fills, FoldLeft(fills, Nothing, of({"curseforge", "other"})), of({"library", "installer"}))

ServerPlan(a) ==
  LET root == Root(a.names)
      Rel(n) == IF root # <<>> /\ IsPrefix(root, n) THEN After(n, root) ELSE n
      told == Told(a)
  IN [source |-> "server_pack", loader |-> told.loader, version |-> told.version, mc |-> told.mc, mods |-> FALSE,
      overlay |-> {t \in {Rel(n) : n \in ToSet(a.names)} :
                     /\ Safe(t) /\ t[1] \notin ClientDirs \cup {".hidden", "libraries", "versions"}
                     /\ Len(t) = 1 => t[1] \notin Skipped}]

Plan(a) == IF IsExport(a) THEN ClientPlan(a) ELSE ServerPlan(a)

\* summarise: only a small archive is read to its end to see that it is whole.
Refuses(a) ==
  \/ a.zip = "not"
  \/ a.zip = "torn" /\ ~a.big
  \/ LET p == Plan(a) IN ~p.mods /\ p.overlay = {}
CanInstall(p) == p.loader \in Installable /\ p.mc # ""

(* Uploads.                                                                 *)
NoZip == -1
NoRecord == [at |-> 0, installable |-> FALSE]
NoStore == [pc |-> "none", archive |-> 0, at |-> 0, prune |-> {}, answer |-> "none"]
NoInstall == [pc |-> "none", of |-> NoUpload, shown |-> FALSE]
Stamps == 0 .. Cardinality(Uploads)

TypeOK ==
  /\ zips \in [Uploads -> NoZip .. 10]
  /\ records \in [Uploads -> [at : Stamps, installable : BOOLEAN]]
  /\ \A u \in Uploads :
       /\ store[u].pc \in {"none", "writes", "records", "lists", "prunes", "forgets", "done", "dead"}
       /\ store[u].answer \in {"none", "refused", "failed", "stored"} /\ store[u].prune \subseteq Uploads /\ store[u].at \in Stamps
       /\ store[u].pc # "none" => store[u].archive \in Archives
  /\ install \in [Installs -> [pc : {"none", "asked", "goes", "refused", "gone"},
                               of : Uploads \cup {NoUpload}, shown : BOOLEAN]]
  /\ clock \in Stamps /\ budget \in 0 .. MaxTroubles
  /\ pruned \subseteq Uploads \X (0 .. Cardinality(Uploads))

Init ==
  /\ zips = [u \in Uploads |-> NoZip] /\ records = [u \in Uploads |-> NoRecord]
  /\ store = [u \in Uploads |-> NoStore] /\ install = [i \in Installs |-> NoInstall]
  /\ clock = 0 /\ pruned = {} /\ budget = 0

Trouble == budget < MaxTroubles /\ budget' = budget + 1
Listed == {u \in Uploads : records[u].at > 0 /\ zips[u] # NoZip}
At(u, pc) == store[u].pc = pc
Goes(u, pc) == store' = [store EXCEPT ![u].pc = pc]
Answers(u, how) == store' = [store EXCEPT ![u].pc = "done", ![u].answer = how]

Begins(u) ==
  /\ At(u, "none") /\ \A v \in Uploads : v < u => ~At(v, "none")
  /\ \E a \in Archives : store' = [store EXCEPT ![u].pc = "writes", ![u].archive = a]
  /\ zips' = [zips EXCEPT ![u] = 0]
  /\ UNCHANGED <<records, install, clock, pruned, budget>>

Chunk(u) ==
  /\ At(u, "writes") /\ zips[u] < store[u].archive.size
  /\ IF zips[u] < Limit
       THEN zips' = [zips EXCEPT ![u] = @ + 1] /\ UNCHANGED store
       ELSE zips' = [zips EXCEPT ![u] = NoZip] /\ Answers(u, "refused")
  /\ UNCHANGED <<records, install, clock, pruned, budget>>

\* The disk is full.
ChunkFails(u) ==
  /\ At(u, "writes") /\ Trouble
  /\ zips' = [zips EXCEPT ![u] = NoZip] /\ Answers(u, "failed")
  /\ UNCHANGED <<records, install, clock, pruned>>

Written(u) ==
  /\ At(u, "writes") /\ zips[u] = store[u].archive.size
  /\ IF zips[u] = 0 \/ Refuses(store[u].archive)
       THEN zips' = [zips EXCEPT ![u] = NoZip] /\ Answers(u, "refused")
       ELSE Goes(u, "records") /\ UNCHANGED zips
  /\ UNCHANGED <<records, install, clock, pruned, budget>>

\* write_state says whether it could write, and nobody asks.
Records(u) ==
  /\ At(u, "records")
  /\ clock' = clock + 1
  /\ \/ /\ records' = [records EXCEPT ![u] = [at |-> clock', installable |-> CanInstall(Plan(store[u].archive))]]
        /\ store' = [store EXCEPT ![u].pc = "lists", ![u].at = clock']
        /\ UNCHANGED budget
     \/ Trouble /\ Goes(u, "lists") /\ UNCHANGED records
  /\ UNCHANGED <<zips, install, pruned>>

\* _prune: the newest first, and all but the first few go.
Oldest == {u \in Listed : Cardinality({v \in Listed : records[v].at > records[u].at}) >= Keep}
Lists(u) ==
  /\ At(u, "lists")
  /\ store' = [store EXCEPT ![u].pc = "prunes", ![u].prune = Oldest]
  /\ UNCHANGED <<zips, records, install, clock, pruned, budget>>

Newer(v) == Cardinality({w \in Uploads : store[w].at > store[v].at})
Prunes(u) ==
  /\ At(u, "prunes") /\ store[u].prune # {}
  /\ LET v == CHOOSE w \in store[u].prune : TRUE IN
       /\ zips' = [zips EXCEPT ![v] = NoZip]
       /\ pruned' = IF records[v].at > 0 /\ zips[v] # NoZip THEN pruned \cup {<<v, Newer(v)>>} ELSE pruned
  /\ Goes(u, "forgets")
  /\ UNCHANGED <<records, install, clock, budget>>
Forgets(u) ==
  /\ At(u, "forgets")
  /\ LET v == CHOOSE w \in store[u].prune : TRUE IN
       /\ records' = [records EXCEPT ![v] = NoRecord]
       /\ store' = [store EXCEPT ![u].pc = "prunes", ![u].prune = @ \ {v}]
  /\ UNCHANGED <<zips, install, clock, pruned, budget>>
Stored(u) ==
  /\ At(u, "prunes") /\ store[u].prune = {}
  /\ Answers(u, "stored")
  /\ UNCHANGED <<zips, records, install, clock, pruned, budget>>

ProcessDies(u) ==
  /\ store[u].pc \notin {"none", "done", "dead"} /\ Trouble
  /\ Goes(u, "dead")
  /\ UNCHANGED <<zips, records, install, clock, pruned>>

PersonDeletes(u) ==
  /\ u \in Listed /\ Trouble
  /\ zips' = [zips EXCEPT ![u] = NoZip] /\ records' = [records EXCEPT ![u] = NoRecord]
  /\ UNCHANGED <<store, install, clock, pruned>>

\* An import that is listed is asked to be reviewed or installed; the job opens its archive later.
Asks(i) ==
  /\ install[i].pc = "none"
  /\ \E u \in Listed : install' = [install EXCEPT ![i] = [pc |-> "asked", of |-> u, shown |-> records[u].installable]]
  /\ UNCHANGED <<zips, records, store, clock, pruned, budget>>
Opens(i) ==
  /\ install[i].pc = "asked"
  /\ LET u == install[i].of IN
       install' = [install EXCEPT ![i].pc =
         IF zips[u] = NoZip \/ records[u].at = 0 THEN "gone"
         ELSE IF zips[u] = store[u].archive.size /\ CanInstall(Plan(store[u].archive)) THEN "goes" ELSE "refused"]
  /\ UNCHANGED <<zips, records, store, clock, pruned, budget>>

Next ==
  \/ \E u \in Uploads :
       \/ Begins(u) \/ Chunk(u) \/ ChunkFails(u) \/ Written(u) \/ Records(u) \/ Lists(u) \/ Prunes(u)
       \/ Forgets(u) \/ Stored(u) \/ ProcessDies(u) \/ PersonDeletes(u)
  \/ \E i \in Installs : Asks(i) \/ Opens(i)
Spec == Init /\ [][Next]_vars

(* Properties.                                                             *)

\* What is listed is whole and was found to be a pack, whatever process died in the middle of what.
ListedAreWhole ==
  \A u \in Listed : zips[u] = store[u].archive.size /\ ~Refuses(store[u].archive)

\* _prune, "keep only the most recent imports": with two processes pruning by lists of their own, an
\* import only goes for as many that were recorded after it; and no more stay than that once all is done.
PruneKeepsNewest ==
  /\ \A p \in pruned : p[2] >= Keep
  /\ (\A u \in Uploads : store[u].pc \in {"none", "done"}) => Cardinality(Listed) <= Keep

\* "So the response can describe the pack": an install of an import that is still there goes ahead
\* just when the import said that it could.
InstallsAsShown == \A i \in Installs : install[i].pc \in {"goes", "refused"} => (install[i].pc = "goes") = install[i].shown

\* packs.py, "Many packs wrap everything in a single top-level folder": it makes no difference to what
\* is installed.
Wrapped(a) ==
  LET in(n) == <<"pack">> \o n
  IN [a EXCEPT !.names = [k \in DOMAIN a.names |-> in(a.names[k])],
               !.says = [n \in {in(m) : m \in DOMAIN a.says} |-> a.says[Tail(n)]]]
FolderMakesNoDifference ==
  \A u \in Uploads : At(u, "records") /\ Root(store[u].archive.names) = <<>>
    /\ (\E n \in ToSet(store[u].archive.names) : Last(n) = "manifest.json" \/ \E k \in 1 .. Len(n) - 1 : n[k] \in Markers)
    => Plan(Wrapped(store[u].archive)) = Plan(store[u].archive)

\* detect_kind, "a client export whose author hand-added jars": they are all installed.
HandAddedStay ==
  \A u \in Uploads : At(u, "records") /\ IsExport(store[u].archive)
    => \A n \in ToSet(store[u].archive.names) :
         Len(n) > 2 /\ n[Len(n) - 2] = "overrides" /\ n[Len(n) - 1] = "mods" => <<"mods", Last(n)>> \in Plan(store[u].archive).overlay
=============================================================================
