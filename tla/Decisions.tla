------------------------------- MODULE Decisions -------------------------------
(***************************************************************************)
(* What an operator decided about mods (app/whitelist.py): a list held in  *)
(* the memory of the panel, changed in place by each request and then      *)
(* written to the database as a whole, in the order of the requests.       *)
(*                                                                         *)
(* A list in memory is an object: a change alters the one everybody holds, *)
(* "replace" makes a new one, and a save writes what its list holds when   *)
(* its turn comes.  None is the id a jar does not have.                    *)
(***************************************************************************)
EXTENDS Integers, FiniteSets, SequencesExt

CONSTANTS Jars,        \* jars: a record of key, mod and project
          None,        \* no such id
          Server,      \* an instance with decisions of its own
          MaxChanges,  \* bound: requests that change the list
          MaxTroubles  \* bound: writes and reads that fail, restarts

VARIABLES lists,    \* the objects
          memory,   \* _cache: which of them is the list
          saves,    \* the saves that hold, or wait for, _save_lock: the list, and the entry they answer for
          db,
          last,     \* the latest decision, as long as nothing was changed after it
          told,     \* entries whose request was answered "persisted", until a request takes them back
          blind,    \* the list could not be read when the panel started
          changes, troubles

vars == <<lists, memory, saves, db, last, told, blind, changes, troubles>>

Scopes == {"global", Server}
Verdicts == {"allow", "block"}
Entries == [jar : Jars, scope : Scopes, verdict : Verdicts, at : 1..MaxChanges]   \* at: added_at
NoEntry == [jar |-> None]
Saves == [list : DOMAIN lists, answers : Entries \cup {NoEntry}]

TypeOK ==
  /\ lists \in Seq(SUBSET Entries) /\ memory \in DOMAIN lists
  /\ saves \in Seq(Saves) /\ db \subseteq Entries
  /\ last \in Entries \cup {NoEntry} /\ told \subseteq Entries /\ blind \in BOOLEAN
  /\ changes \in 0..MaxChanges /\ troubles \in 0..MaxTroubles

Init ==
  /\ lists = <<{}>> /\ memory = 1 /\ saves = <<>> /\ db = {} /\ last = NoEntry
  /\ told = {} /\ blind = FALSE /\ changes = 0 /\ troubles = 0

(***************************************************************************)
(* Pure functions of the list.                                             *)
(***************************************************************************)
Same(a, b) == a # None /\ a = b
Matches(e, jar) ==
  Same(e.jar.project, jar.project) \/ Same(e.jar.mod, jar.mod) \/ Same(e.jar.key, jar.key)

\* decide: a decision of the instance before a global one, a block before an allow.
Candidates(list, jar) == {e \in list : Matches(e, jar)}
Decided(list, jar) ==
  LET own == {e \in Candidates(list, jar) : e.scope # "global"}
      among == IF own # {} THEN own ELSE Candidates(list, jar)
      blocks == {e \in among : e.verdict = "block"}
  IN  IF blocks # {} THEN "block" ELSE IF among # {} THEN "allow" ELSE "none"

Added(list, e) == {o \in list : ~(o.scope = e.scope /\ Matches(o, e.jar))} \cup {e}

(***************************************************************************)
(* Requests.                                                               *)
(***************************************************************************)
Change == changes < MaxChanges /\ changes' = changes + 1
\* told keeps what the new list still has.
Alters(list, e) ==
  /\ lists' = [lists EXCEPT ![memory] = list]
  /\ saves' = Append(saves, [list |-> memory, answers |-> e])
  /\ told' = told \cap list
  /\ UNCHANGED <<memory, db, blind, troubles>>

Adds(e) ==
  /\ Change /\ Alters(Added(lists[memory], e), e) /\ last' = e

\* remove: by key, project or mod, in one scope or in all.
Removes(jar, scopes) ==
  LET kept == {e \in lists[memory] : ~(Matches(e, jar) /\ e.scope \in scopes)}
  IN  /\ Change /\ kept # lists[memory]
      /\ Alters(kept, NoEntry) /\ last' = NoEntry

Clears(scopes) ==
  /\ Change /\ Alters({e \in lists[memory] : e.scope \notin scopes}, NoEntry) /\ last' = NoEntry

\* import_entries with one entry: into the list, or into a new one in its place.
Imports(e, replace) ==
  /\ Change /\ last' = e
  /\ IF replace
     THEN /\ lists' = Append(lists, {e}) /\ memory' = Len(lists')
          /\ saves' = Append(saves, [list |-> memory', answers |-> e])
          /\ told' = told \cap {e} /\ UNCHANGED <<db, blind, troubles>>
     ELSE Alters(Added(lists[memory], e), e)

(***************************************************************************)
(* Saves: _save_lock is given in the order it was asked for.               *)
(***************************************************************************)
MayWriteAny == DOMAIN saves
MayWrite == {1} \cap DOMAIN saves

Saved(i) ==
  /\ i \in MayWrite
  /\ db' = lists[saves[i].list]
  /\ told' = told \cup ({saves[i].answers} \cap db' \cap lists[memory])
  /\ saves' = RemoveAt(saves, i)
  /\ UNCHANGED <<lists, memory, last, blind, changes, troubles>>

\* The transaction is rolled back and the request answered "persisted: false".
SaveFails(i) ==
  /\ i \in MayWrite /\ troubles < MaxTroubles /\ troubles' = troubles + 1
  /\ saves' = RemoveAt(saves, i)
  /\ UNCHANGED <<lists, memory, db, last, told, blind, changes>>

\* load() when the panel starts; a list that cannot be read is an empty one.
PanelRestarts(reads) ==
  /\ troubles < MaxTroubles /\ troubles' = troubles + 1
  /\ lists' = <<IF reads THEN db ELSE {}>> /\ memory' = 1 /\ saves' = <<>>
  /\ blind' = (blind \/ ~reads)
  /\ last' = NoEntry
  /\ UNCHANGED <<db, told, changes>>

Next ==
  \/ \E e \in [jar : Jars, scope : Scopes, verdict : Verdicts, at : {changes + 1}] :
       Adds(e) \/ \E replace \in BOOLEAN : Imports(e, replace)
  \/ \E jar \in Jars, scopes \in SUBSET Scopes \ {{}} : Removes(jar, scopes)
  \/ \E scopes \in SUBSET Scopes \ {{}} : Clears(scopes)
  \/ \E i \in DOMAIN saves : Saved(i) \/ SaveFails(i)
  \/ \E reads \in BOOLEAN : PanelRestarts(reads)

Spec == Init /\ [][Next]_vars

(***************************************************************************)
(* Properties.                                                             *)
(***************************************************************************)
\* add: "replacing any earlier one for the same mod": the latest decision is the one the review
\* goes by, under every id of the jar, unless the instance has one of its own.
LatestCounts ==
  LET list == lists[memory]
  IN  last # NoEntry =>
        \/ Decided(list, last.jar) = last.verdict
        \/ last.scope = "global" /\ \E e \in Candidates(list, last.jar) : e.scope = Server

\* "persisted": a decision that was answered so is in the database until a request takes it back,
\* whatever else is being saved, fails or restarts meanwhile.
PersistedStays == blind \/ told \subseteq db

\* When nothing is being saved, and no save failed, the list that will be read at the next start
\* is the list in force.
SavedIsInForce == saves = <<>> /\ troubles = 0 => db = lists[memory]

\* The three together: what was decided last is what counts, now and after a restart.
DecisionsHold == LatestCounts /\ PersistedStays /\ SavedIsInForce
=============================================================================
