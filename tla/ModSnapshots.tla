----------------------------- MODULE ModSnapshots -----------------------------
(***************************************************************************)
(* Undo for what people do to the mods and the configuration of a server   *)
(* (app/backups.py): a list of the jars and whether each is switched on,   *)
(* with the bytes of a file that is about to be replaced, is kept before   *)
(* mods are switched in bulk (app/main.py, app/clientscan.py) or a file is *)
(* edited, and can be restored by renaming.  Requests overlap, calls of    *)
(* the node fail, and of the snapshots only so many are kept.              *)
(*                                                                         *)
(* The id of a snapshot is random: a new one may sort anywhere among those *)
(* that are there.                                                         *)
(***************************************************************************)
EXTENDS Integers, FiniteSets

CONSTANTS Jars,
          Requests,     \* requests that can be under way
          Ids,          \* bound: ids of snapshots, in the order in which they sort
          First,        \* the id of the snapshot that is there at the beginning
          Keep,         \* MAX_BACKUPS
          MaxVersions,  \* bound: edits of the file
          MaxChanges,   \* bound: requests that are made
          MaxTroubles   \* bound: calls of the node that fail

VARIABLES folder,       \* each jar is "on", "off" (renamed to .disabled) or "gone"
          file,         \* the version of the configuration file
          snaps,        \* what is kept under each id, or None
          req,
          saved,        \* ids that somebody was told are kept, the latest last
          changes, troubles

vars == <<folder, file, snaps, req, saved, changes, troubles>>

NoFile == 0 - 1
Unlisted == [j \in Jars |-> "gone"]
None == [mods |-> Unlisted, file |-> NoFile, there |-> FALSE]
Kinds == {"none", "switch", "edit", "restore"}
NoReq == [kind |-> "none", pc |-> "idle", want |-> Unlisted, left |-> {}, old |-> NoFile, list |-> Unlisted,
          snap |-> 0, undo |-> 0, before |-> Unlisted, missing |-> {}, failed |-> {}, others |-> {}]
PCs == {"idle", "read", "list", "store", "relist", "act", "file", "done"}
Under(q) == req[q].pc \notin {"idle", "done"}

TypeOK ==
  /\ folder \in [Jars -> {"on", "off", "gone"}] /\ file \in 0..MaxVersions
  /\ \A i \in Ids : snaps[i].there \in BOOLEAN /\ snaps[i].file \in NoFile..MaxVersions
  /\ \A q \in Requests :
       /\ req[q].kind \in Kinds /\ req[q].pc \in PCs
       /\ req[q].left \subseteq Jars /\ req[q].missing \cap req[q].failed = {}
       /\ req[q].snap \in Ids \cup {0} /\ req[q].undo \in Ids \cup {0}
  /\ saved \in Ids \cup {0} /\ changes \in 0..MaxChanges /\ troubles \in 0..MaxTroubles

Init ==
  /\ folder = [j \in Jars |-> "on"] /\ file = 1
  /\ snaps = [[i \in Ids |-> None] EXCEPT ![First] = [mods |-> [j \in Jars |-> "off"], file |-> 0, there |-> TRUE]]
  /\ req = [q \in Requests |-> NoReq]
  /\ saved = 0 /\ changes = 0 /\ troubles = 0

May == changes < MaxChanges /\ changes' = changes + 1
Trouble == troubles < MaxTroubles /\ troubles' = troubles + 1
\* A call of the node, which may fail.
Works(ok) == IF ok THEN UNCHANGED troubles ELSE Trouble
\* The others are told which jars somebody else has changed since they began.
Told(reqs, q, what) == [p \in Requests |-> IF p = q THEN reqs[p] ELSE [reqs[p] EXCEPT !.others = @ \cup what]]
Changed == {j \in Jars : folder'[j] # folder[j]}

-----------------------------------------------------------------------------
(* What is asked for.                                                      *)

\* bulk_toggle, apply_scan: more than one file, so there is a snapshot.
Switches(q, files, state) ==
  /\ May /\ ~Under(q) /\ Cardinality(files) > 1
  /\ req' = [req EXCEPT ![q] = [NoReq EXCEPT !.kind = "switch", !.pc = "list", !.left = files,
                                    !.want = [j \in Jars |-> state], !.before = folder]]
  /\ UNCHANGED <<folder, file, snaps, saved, troubles>>

\* write_config, files_write.
Edits(q) ==
  /\ May /\ ~Under(q) /\ file < MaxVersions
  /\ req' = [req EXCEPT ![q] = [NoReq EXCEPT !.kind = "edit", !.pc = "read", !.before = folder]]
  /\ UNCHANGED <<folder, file, snaps, saved, troubles>>

\* restore: the snapshot is read first.
Restores(q, i) ==
  /\ May /\ ~Under(q) /\ snaps[i].there
  /\ req' = [req EXCEPT ![q] = [NoReq EXCEPT !.kind = "restore", !.pc = "list", !.undo = i,
                                    !.want = snaps[i].mods, !.before = folder]]
  /\ UNCHANGED <<folder, file, snaps, saved, troubles>>

\* One jar is switched or deleted, which takes no snapshot.
Touches(j, state) ==
  /\ May /\ folder[j] \notin {"gone", state}
  /\ folder' = [folder EXCEPT ![j] = state]
  /\ req' = [q \in Requests |-> [req[q] EXCEPT !.others = @ \cup {j}]]
  /\ UNCHANGED <<file, snaps, saved, troubles>>

-----------------------------------------------------------------------------
(* snapshot.                                                               *)

\* The bytes that are about to be replaced; if they cannot be read there is no snapshot.
Reads(q, ok) ==
  /\ req[q].pc = "read" /\ Works(ok)
  /\ req' = [req EXCEPT ![q].pc = IF ok THEN "list" ELSE "act", ![q].old = IF ok THEN file ELSE NoFile]
  /\ UNCHANGED <<folder, file, snaps, saved, changes>>

\* list_dir: without an answer the snapshot is partial.
Lists(q, ok) ==
  /\ req[q].pc = "list" /\ Works(ok)
  /\ req' = [req EXCEPT ![q].pc = "store", ![q].list = IF ok THEN folder ELSE Unlisted]
  /\ UNCHANGED <<folder, file, snaps, saved, changes>>

\* _prune: sorted(glob("*.json"), reverse=True)[keep:].
Kept(all) ==
  LET there == {i \in Ids : all[i].there}
  IN  [i \in Ids |-> IF Keep = 0 \/ Cardinality({k \in there : k > i}) < Keep THEN all[i] ELSE None]

\* uuid4, write_state and _prune, in one go.
Stores(q) ==
  /\ req[q].pc = "store"
  /\ \E i \in {k \in Ids : ~snaps[k].there /\ \A p \in Requests : req[p].snap # k} :
       /\ snaps' = Kept([snaps EXCEPT ![i] = [mods |-> req[q].list, file |-> req[q].old, there |-> TRUE]])
       /\ saved' = i
       /\ req' = [req EXCEPT ![q].snap = i, ![q].pc = IF req[q].kind = "restore" THEN "relist" ELSE "act"]
  /\ UNCHANGED <<folder, file, changes, troubles>>

-----------------------------------------------------------------------------
(* The change itself.                                                      *)

\* set_enabled: a rename, which a jar that is already so does not need.
Switch(q, j, ok) ==
  /\ req[q].kind = "switch" /\ req[q].pc = "act" /\ j \in req[q].left
  /\ Works(ok \/ folder[j] = "gone")
  /\ folder' = IF ok /\ folder[j] # "gone" THEN [folder EXCEPT ![j] = req[q].want[j]] ELSE folder
  /\ req' = Told([req EXCEPT ![q].left = @ \ {j},
                             ![q].failed = IF ok /\ folder[j] # "gone" THEN @ ELSE @ \cup {j}], q, Changed)
  /\ UNCHANGED <<file, snaps, saved, changes>>

\* write_file.
Writes(q, ok) ==
  /\ req[q].kind = "edit" /\ req[q].pc = "act" /\ Works(ok)
  /\ file' = IF ok /\ file < MaxVersions THEN file + 1 ELSE file
  /\ req' = [req EXCEPT ![q].pc = "done"]
  /\ UNCHANGED <<folder, snaps, saved, changes>>

\* restore lists the folder again; if that fails so does the restore.
Relists(q, ok) ==
  /\ req[q].pc = "relist" /\ Works(ok)
  /\ req' = IF ok
            THEN [req EXCEPT ![q].pc = "act", ![q].list = folder,
                             ![q].left = {j \in Jars : req[q].want[j] # "gone"}]
            ELSE [req EXCEPT ![q] = NoReq]
  /\ UNCHANGED <<folder, file, snaps, saved, changes>>

\* A bug: a jar is looked for under the name that it had.
FoundByName(q, j) == req[q].list[j] = req[q].want[j]
\* by_base_have: the jar is there, switched on or off.
Found(q, j) == req[q].list[j] # "gone"

\* By the listing: what is not there is missing, what is right is left, the rest is renamed.
Renames(q, j, ok) ==
  LET r == req[q]
      renames == Found(q, j) /\ r.list[j] # r.want[j]
      works == renames /\ ok /\ folder[j] = r.list[j]
  IN  /\ r.kind = "restore" /\ r.pc = "act" /\ j \in r.left
      /\ IF renames /\ folder[j] = r.list[j] THEN Works(ok) ELSE ok /\ UNCHANGED troubles
      /\ folder' = IF works THEN [folder EXCEPT ![j] = r.want[j]] ELSE folder
      /\ req' = Told([req EXCEPT ![q].left = @ \ {j},
                                 ![q].missing = IF Found(q, j) THEN @ ELSE @ \cup {j},
                                 ![q].failed = IF renames /\ ~works THEN @ \cup {j} ELSE @], q, Changed)
      /\ UNCHANGED <<file, snaps, saved, changes>>

\* The bytes of the file, if they are still there.
Uploads(q, ok) ==
  /\ req[q].pc = "file"
  /\ LET s == snaps[req[q].undo]
         has == s.there /\ s.file # NoFile
     IN  /\ IF has THEN Works(ok) ELSE ok /\ UNCHANGED troubles
         /\ file' = IF has /\ ok THEN s.file ELSE file
         /\ req' = [req EXCEPT ![q].pc = "done", ![q].old = IF has /\ ~ok THEN NoFile ELSE file']
  /\ UNCHANGED <<folder, snaps, saved, changes>>

Ends(q) ==
  /\ req[q].kind \in {"switch", "restore"} /\ req[q].pc = "act" /\ req[q].left = {}
  /\ req' = [req EXCEPT ![q].pc = IF req[q].kind = "restore" THEN "file" ELSE "done"]
  /\ UNCHANGED <<folder, file, snaps, saved, changes, troubles>>

-----------------------------------------------------------------------------

Next ==
  \/ \E q \in Requests :
       \/ \E files \in SUBSET Jars, state \in {"on", "off"} : Switches(q, files, state)
       \/ Edits(q) \/ Stores(q) \/ Ends(q)
       \/ \E i \in Ids : Restores(q, i)
       \/ \E ok \in BOOLEAN : Reads(q, ok) \/ Lists(q, ok) \/ Writes(q, ok) \/ Relists(q, ok) \/ Uploads(q, ok)
       \/ \E ok \in BOOLEAN, j \in Jars : Switch(q, j, ok) \/ Renames(q, j, ok)
  \/ \E j \in Jars, state \in {"on", "off", "gone"} : Touches(j, state)

Spec == Init /\ [][Next]_vars

-----------------------------------------------------------------------------
(* Properties.                                                             *)

\* restore, "the mod set back the way the snapshot found it": when it ends, a jar of the snapshot
\* that nobody else has touched is as it was, or said to be missing or to have failed; what is
\* said to be missing is, and other jars are as before.
RestoreIsExact ==
  \A q \in Requests : LET r == req[q] IN
    r.kind = "restore" /\ r.pc \in {"file", "done"} =>
      \A j \in Jars \ r.others :
        /\ r.want[j] # "gone" => folder[j] = r.want[j] \/ j \in r.missing \cup r.failed
        /\ j \in r.missing => folder[j] = "gone"
        /\ r.want[j] = "gone" => folder[j] = r.before[j]

\* restore, "That makes an undo undoable": the snapshot a request has taken holds the jars that
\* nobody else has touched as they were before it, unless it is partial.
SnapshotIsBefore ==
  \A q \in Requests : LET r == req[q] IN
    r.snap # 0 /\ snaps[r.snap].there /\ snaps[r.snap].mods # Unlisted =>
      \A j \in Jars \ r.others : snaps[r.snap].mods[j] = r.before[j]

\* A file of the snapshot comes back, or the restore says that it failed; unless the snapshot has
\* been pruned since it was read.
FileComesBack ==
  \A q \in Requests : LET r == req[q] IN
    r.kind = "restore" /\ r.pc = "done" =>
      LET s == snaps[r.undo] IN s.there /\ s.file # NoFile => r.old \in {s.file, NoFile}

\* _prune, "Keep the most recent snapshots": the snapshot that was taken last is there.
\* Does not hold: see README, section 6.
LatestIsKept == saved # 0 => snaps[saved].there
=============================================================================
