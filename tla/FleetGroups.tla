---------------------------- MODULE FleetGroups -----------------------------
(***************************************************************************)
(* Racks and activity (app/fleetgroups.py): a layout that is kept in memory*)
(* and rewritten in the database after each change, one save at a time but *)
(* with changes by other requests between its statements; and what the     *)
(* polls of the browsers say of the servers.                               *)
(***************************************************************************)
EXTENDS Integers, FiniteSets

CONSTANTS
  Servers,
  RackIds,    \* ids a rack can get; one of a rack taken down is free again
  Yard,       \* on no rack
  Requests,   \* requests that are handled at once
  NoRequest,
  MaxChanges, \* bound on the changes and polls
  MaxTroubles \* bound on restarts, and on calls to the database that fail

VARIABLES
  groups, assign, activity,  \* _state
  persisted,                 \* _persisted
  db,       \* the tables
  save,     \* what each request's _save() does, and what it writes
  lock,     \* who holds _save_lock
  unsaved,  \* the last layout to be saved was not, or could not be read
  sighted,  \* servers a poll has found down since their record was made
  budget

memory == <<groups, assign, activity, sighted>>
vars == <<memory, persisted, db, save, lock, unsaved, budget>>

Records == {"none", "down", "unknown", "observed"}   \* the last two: up, and how that is known
Layout == [racks : SUBSET RackIds, members : [Servers -> RackIds \cup {Yard}], seen : [Servers -> Records],
           saw : SUBSET Servers]
NoServer == [s \in Servers |-> Yard]
Blank == [racks |-> {}, members |-> NoServer, seen |-> [s \in Servers |-> "none"], saw |-> {}]
Idle == [pc |-> "idle", all |-> FALSE, out |-> Blank]

TypeOK ==
  /\ groups \subseteq RackIds
  /\ assign \in [Servers -> RackIds \cup {Yard}]
  /\ activity \in [Servers -> Records]
  /\ persisted \in BOOLEAN /\ unsaved \in BOOLEAN
  /\ db \in Layout
  /\ save \in [Requests -> [pc : {"idle", "wait", "racks", "members", "activity", "commit"},
                            all : BOOLEAN, out : Layout]]
  /\ lock \in Requests \cup {NoRequest}
  /\ sighted \subseteq Servers
  /\ budget \in [changes : 0 .. MaxChanges, troubles : 0 .. MaxTroubles]

Init ==
  /\ groups = {} /\ assign = NoServer /\ activity = Blank.seen /\ sighted = {}
  /\ persisted = TRUE /\ unsaved = FALSE
  /\ db = Blank
  /\ save = [r \in Requests |-> Idle] /\ lock = NoRequest
  /\ budget = [changes |-> 0, troubles |-> 0]

Trouble == /\ budget.troubles < MaxTroubles
           /\ budget' = [budget EXCEPT !.troubles = @ + 1]

\* A change in memory; the request goes on to save all, or the activity alone.
Handles(r, all) ==
  /\ save[r].pc = "idle" /\ budget.changes < MaxChanges
  /\ budget' = [budget EXCEPT !.changes = @ + 1]
  /\ save' = [save EXCEPT ![r] = [Idle EXCEPT !.pc = "wait", !.all = all]]
  /\ UNCHANGED <<persisted, db, lock, unsaved>>

-----------------------------------------------------------------------------
(* Racks.                                                                  *)

\* save_group() and plan(): a rack under an id that is free, with some servers.
Hangs(r, g, servers) ==
  /\ g \notin groups /\ groups' = groups \cup {g}
  /\ assign' = [s \in Servers |-> IF s \in servers THEN g ELSE assign[s]]
  /\ UNCHANGED <<activity, sighted>> /\ Handles(r, TRUE)

\* delete_group().
TakesDown(r, g) ==
  /\ groups' = groups \ {g}
  /\ assign' = [s \in Servers |-> IF assign[s] = g THEN Yard ELSE assign[s]]
  /\ UNCHANGED <<activity, sighted>> /\ Handles(r, TRUE)

\* assign(): on a rack that is there, or back in the yard.
Assigns(r, servers, g) ==
  /\ g \in groups \cup {Yard}
  /\ assign' = [s \in Servers |-> IF s \in servers THEN g ELSE assign[s]]
  /\ UNCHANGED <<groups, activity, sighted>> /\ Handles(r, TRUE)

-----------------------------------------------------------------------------
(* Activity.                                                               *)

\* What a poll that finds s up makes of its record: the start was witnessed
\* only if the server was known and down.
FoundUp(s) ==
  CASE activity[s] = "none" -> "unknown"
    [] activity[s] = "down" -> "observed"
    [] OTHER -> activity[s]

\* observe(): a full sweep drops those it does not mention.  Only a start, a
\* new record and a dropped one are saved; that a server went down is not.
Observes(r, found, full) ==
  LET new == [s \in Servers |->
        CASE s \notin DOMAIN found -> IF full THEN "none" ELSE activity[s]
          [] s \in DOMAIN found /\ found[s] -> FoundUp(s)
          [] OTHER -> "down"]
      Notable(s) == new[s] # activity[s] /\ (new[s] # "down" \/ activity[s] = "none")
  IN  /\ DOMAIN found # {}
      /\ activity' = new
      /\ sighted' = {s \in Servers : new[s] = "down" \/ (s \in sighted /\ new[s] # "none")}
      /\ UNCHANGED <<groups, assign>>
      /\ IF \E s \in Servers : Notable(s) THEN Handles(r, FALSE)
         ELSE /\ save[r].pc = "idle" /\ budget.changes < MaxChanges
              /\ budget' = [budget EXCEPT !.changes = @ + 1]
              /\ UNCHANGED <<persisted, db, save, lock, unsaved>>

-----------------------------------------------------------------------------
(* _save(): one transaction, and awaits between its statements.            *)

\* A bug: nobody else's save is waited for.
BeginsBeside(r) ==
  /\ save[r].pc = "wait"
  /\ save' = [save EXCEPT ![r].pc = IF save[r].all THEN "racks" ELSE "activity", ![r].out = db]
  /\ UNCHANGED <<memory, persisted, db, lock, unsaved, budget>>

Begins(r) ==
  /\ save[r].pc = "wait" /\ lock = NoRequest
  /\ lock' = r
  /\ save' = [save EXCEPT ![r].pc = IF save[r].all THEN "racks" ELSE "activity", ![r].out = db]
  /\ UNCHANGED <<memory, persisted, db, unsaved, budget>>

Goes(r, from, to, out) ==
  /\ save[r].pc = from
  /\ save' = [save EXCEPT ![r].pc = to, ![r].out = out]
  /\ UNCHANGED <<memory, persisted, db, lock, unsaved, budget>>

WritesRacks(r) == Goes(r, "racks", "members", [save[r].out EXCEPT !.racks = groups, !.members = NoServer])

\* A server of a rack that was not there a statement ago is passed over.
WritesMembers(r) ==
  Goes(r, "members", "activity", [save[r].out EXCEPT !.members =
    [s \in Servers |-> IF assign[s] \in save[r].out.racks THEN assign[s] ELSE Yard]])

WritesActivity(r) == Goes(r, "activity", "commit", [save[r].out EXCEPT !.seen = activity, !.saw = sighted])

Leaves(r) == lock' = NoRequest /\ save' = [save EXCEPT ![r] = Idle]

Commits(r) ==
  /\ save[r].pc = "commit"
  /\ db' = save[r].out /\ persisted' = TRUE
  /\ unsaved' = (unsaved /\ ~save[r].all)
  /\ Leaves(r) /\ UNCHANGED <<memory, budget>>

\* Never raises: what failed is said with the answer.
SaveFails(r) ==
  /\ lock = r /\ Trouble
  /\ persisted' = FALSE /\ unsaved' = (unsaved \/ save[r].all)
  /\ Leaves(r) /\ UNCHANGED <<memory, db>>

\* The panel starts again, and reads the tables; or it cannot, and works on
\* without any layout.
PanelRestarts(reads) ==
  /\ Trouble
  /\ LET read == IF reads THEN db ELSE Blank
     IN  /\ groups' = read.racks /\ assign' = read.members /\ activity' = read.seen
         /\ sighted' = read.saw
  /\ persisted' = reads /\ unsaved' = ~reads
  /\ save' = [r \in Requests |-> Idle] /\ lock' = NoRequest
  /\ UNCHANGED db

Next ==
  \/ \E reads \in BOOLEAN : PanelRestarts(reads)
  \/ \E r \in Requests :
       \/ Begins(r) \/ WritesRacks(r) \/ WritesMembers(r) \/ WritesActivity(r) \/ Commits(r) \/ SaveFails(r)
       \/ \E g \in RackIds \cup {Yard}, servers \in SUBSET Servers :
            (g # Yard /\ Hangs(r, g, servers)) \/ Assigns(r, servers, g)
       \/ \E g \in groups : TakesDown(r, g)
       \/ \E some \in SUBSET Servers, full \in BOOLEAN : \E found \in [some -> BOOLEAN] : Observes(r, found, full)

Spec == Init /\ [][Next]_vars

-----------------------------------------------------------------------------
(* Properties.                                                             *)

\* _save(): whatever requests change the layout between the statements of each
\* other's saves, once none is under way the tables hold what is shown, unless
\* the last layout failed to be saved.
SavedIsShown ==
  (\A r \in Requests : save[r].pc = "idle") /\ ~unsaved
    => db.racks = groups /\ db.members = assign

\* delete_group(), document(): a server hangs on a rack that is there; one that
\* is hung later under the same id does not inherit servers.
NoGhostRack == \A s \in Servers : assign[s] \in groups \cup {Yard}

\* observe(): "An uptime is only honest when the down -> up edge was actually
\* witnessed", also with records dropped, read back or never saved.
HonestUptime == \A s \in Servers : activity[s] = "observed" => s \in sighted

\* The three together: whatever requests change the layout while it is being saved, it is kept.
LayoutHolds == SavedIsShown /\ NoGhostRack /\ HonestUptime
=============================================================================
