-------------------------- MODULE BackupCatalogue ---------------------------
(***************************************************************************)
(* What the backups of one server promise: a catalogue of snapshots.  A    *)
(* snapshot appears as a whole, never changes, and whatever is in the      *)
(* catalogue can be read back.  WorldBackup is how that comes about.       *)
(***************************************************************************)
CONSTANTS Ids, Files, Contents

VARIABLE snaps     \* from the ids of snapshots to the files they hold

Init == snaps = <<>>

Publish(i) ==
  /\ i \notin DOMAIN snaps
  /\ \E copy \in [Files -> Contents] :
       snaps' = [x \in DOMAIN snaps \cup {i} |-> IF x = i THEN copy ELSE snaps[x]]

Forget(i) ==
  /\ i \in DOMAIN snaps
  /\ snaps' = [x \in DOMAIN snaps \ {i} |-> snaps[x]]

Next == \E i \in Ids : Publish(i) \/ Forget(i)

Spec == Init /\ [][Next]_snaps
=============================================================================
