---------------------------- MODULE PanelProofs -----------------------------
(***************************************************************************)
(* Proofs about what the panel promises, each for any number of those who  *)
(* change it at the same moment and of the servers, jars and jobs it is    *)
(* about.  Those about schedules, accounts and consoles are in modules of  *)
(* their own.                                                              *)
(***************************************************************************)
EXTENDS Panel, Integers, FiniteSetTheorems, SequenceTheorems, TLAPS

-----------------------------------------------------------------------------
(***************************************************************************)
(* FleetGroups: the tables hold the layout that is shown.                  *)
(***************************************************************************)
\* The constants of a real panel.
FleetSizes == NoRequest \notin Callers /\ MaxRacked \in Nat /\ MaxRackTroubles \in Nat

\* The one who holds _save_lock is the one between its statements.
Saving(r) == save[r].pc \in {"racks", "members", "activity", "commit"}
OneSaves ==
  /\ \A r \in Callers : Saving(r) <=> fleetLock = r
  /\ \A r \in Callers : save[r].pc \in {"racks", "members"} => save[r].all

\* Servers hang on racks that are there, in memory, in the tables and in what is being written;
\* and so do start times rest on a server that was seen down.
Hung(racks, members) == \A s \in Servers : members[s] \in racks \cup {Yard}
Witnessed(saw, downs) == \A s \in Servers : saw[s] \in {"down", "observed"} => s \in downs
Sound ==
  /\ Hung(groups, assign) /\ Hung(db.racks, db.members)
  /\ \A r \in Callers : Hung(save[r].out.racks, save[r].out.members)
  /\ Witnessed(activity, sighted) /\ Witnessed(db.seen, db.saw)
  /\ \A r \in Callers : Witnessed(save[r].out.seen, save[r].out.saw)

\* A save of the activity alone leaves the layout as the tables have it.
KeepsLayout ==
  \A r \in Callers : Saving(r) /\ ~save[r].all
    => save[r].out.racks = db.racks /\ save[r].out.members = db.members

\* Every change is still to be written: by a save that waits, or by the statements that the one
\* under way has before it; or the tables have it, or the last save of it failed.
Pending == \E r \in Callers : save[r].pc = "wait" /\ save[r].all
Catching(r) ==
  \/ save[r].pc = "racks"
  \/ save[r].pc = "members" /\ save[r].out.racks = groups
  \/ save[r].pc \in {"activity", "commit"} /\ save[r].out.racks = groups /\ save[r].out.members = assign
NothingIsLost ==
  \/ Pending
  \/ \E r \in Callers : Saving(r) /\ save[r].all /\ Catching(r)
  \/ /\ \A r \in Callers : Saving(r) => ~save[r].all
     /\ unsaved \/ (db.racks = groups /\ db.members = assign)

LayoutInv == Fleet!TypeOK /\ OneSaves /\ Sound /\ KeepsLayout /\ NothingIsLost

Saver == [pc : {"idle", "wait", "racks", "members", "activity", "commit"}, all : BOOLEAN, out : Fleet!Layout]

LEMMA BlankIsLayout == Fleet!Blank \in Fleet!Layout
BY DEF Fleet!Layout, Fleet!Blank, Fleet!NoServer, Fleet!Records

LEMMA Waiter ==
  ASSUME NEW all \in BOOLEAN
  PROVE  LET waiter == [Fleet!Idle EXCEPT !.pc = "wait", !.all = all]
         IN  waiter \in Saver /\ waiter.pc = "wait" /\ waiter.all = all /\ waiter.out = Fleet!Blank
<1>1. Fleet!Idle \in Saver /\ Fleet!Idle.out = Fleet!Blank
  BY BlankIsLayout DEF Saver, Fleet!Idle
<1> QED
  BY <1>1 DEF Saver

LEMMA LayoutBegins == ASSUME FleetSizes, Fleet!Init PROVE LayoutInv
<1>1. \A r \in Callers : save[r] = Fleet!Idle
  BY DEF Fleet!Init
<1>2. Fleet!TypeOK
  <2>1. /\ groups \subseteq RackIds /\ assign \in [Servers -> RackIds \cup {Yard}] /\ sighted \subseteq Servers
        /\ activity \in [Servers -> Fleet!Records] /\ db \in Fleet!Layout
    BY BlankIsLayout DEF Fleet!Init, Fleet!Blank, Fleet!NoServer, Fleet!Records
  <2>2. Fleet!Idle \in Saver
    BY BlankIsLayout DEF Fleet!Idle, Saver
  <2>3. fleetBudget \in [changes : 0 .. MaxRacked, troubles : 0 .. MaxRackTroubles]
    BY DEF FleetSizes, Fleet!Init
  <2> QED
    BY <2>1, <2>2, <2>3 DEF Fleet!Init, Fleet!TypeOK, Saver
<1>3. OneSaves /\ KeepsLayout
  BY <1>1 DEF OneSaves, KeepsLayout, Saving, Fleet!Idle, FleetSizes, Fleet!Init
<1>4. Sound
  BY <1>1 DEF Sound, Fleet!Idle, Fleet!Init, Hung, Witnessed, Fleet!Blank, Fleet!NoServer
<1>5. NothingIsLost
  BY <1>1 DEF NothingIsLost, Saving, Fleet!Idle, Fleet!Init, Fleet!Blank
<1> QED
  BY <1>2, <1>3, <1>4, <1>5 DEF LayoutInv

\* What a request needs that changes the layout or the activity and goes on to save it.
LEMMA Handled ==
  ASSUME FleetSizes, LayoutInv, NEW r \in Callers, NEW all \in BOOLEAN, Fleet!Handles(r, all),
         groups' \subseteq RackIds, assign' \in [Servers -> RackIds \cup {Yard}],
         activity' \in [Servers -> Fleet!Records], sighted' \subseteq Servers,
         Hung(groups', assign'), Witnessed(activity', sighted'),
         ~all => groups' = groups /\ assign' = assign
  PROVE  LayoutInv'
<1>1. Fleet!TypeOK'
  <2>1. /\ persisted' \in BOOLEAN /\ unsaved' \in BOOLEAN /\ db' \in Fleet!Layout
        /\ fleetLock' \in Callers \cup {NoRequest}
    BY DEF LayoutInv, Fleet!TypeOK, Fleet!Handles
  <2>3. save' \in [Callers -> Saver]
    BY Waiter DEF LayoutInv, Fleet!TypeOK, Fleet!Handles, Saver
  <2>4. fleetBudget' \in [changes : 0 .. MaxRacked, troubles : 0 .. MaxRackTroubles]
    BY DEF LayoutInv, Fleet!TypeOK, Fleet!Handles, FleetSizes
  <2> QED
    BY <2>1, <2>3, <2>4 DEF LayoutInv, Fleet!TypeOK, Saver
<1>2. /\ save' = [save EXCEPT ![r] = [Fleet!Idle EXCEPT !.pc = "wait", !.all = all]]
      /\ save[r].pc = "idle" /\ db' = db /\ fleetLock' = fleetLock /\ unsaved' = unsaved
  BY DEF Fleet!Handles
<1>3. /\ \A q \in Callers : q # r => save'[q] = save[q]
      /\ save'[r].pc = "wait" /\ save'[r].all = all /\ save'[r].out = Fleet!Blank
      /\ ~Saving(r) /\ ~Saving(r)'
  BY <1>2, Waiter DEF LayoutInv, Fleet!TypeOK, Saving
<1>4. OneSaves'
  BY <1>2, <1>3 DEF LayoutInv, OneSaves, Saving
<1>5. Sound'
  BY <1>2, <1>3 DEF LayoutInv, Sound, Hung, Witnessed, Fleet!Blank, Fleet!NoServer
<1>6. KeepsLayout'
  BY <1>2, <1>3 DEF LayoutInv, KeepsLayout, Saving
<1>7. NothingIsLost'
  <2>1. CASE all
    BY <2>1, <1>3 DEF NothingIsLost, Pending
  <2>2. CASE ~all
    <3>1. Pending => Pending'
      BY <1>2, <1>3 DEF Pending
    <3>2. ASSUME NEW q \in Callers, Saving(q), save[q].all, Catching(q)
          PROVE  Saving(q)' /\ save'[q].all /\ Catching(q)'
      BY <3>2, <1>3, <2>2 DEF Saving, Catching
    <3>3. ASSUME \A q \in Callers : Saving(q) => ~save[q].all
          PROVE  \A q \in Callers : Saving(q)' => ~save'[q].all
      BY <3>3, <1>3 DEF Saving
    <3> QED
      BY <3>1, <3>2, <3>3, <1>2, <2>2 DEF LayoutInv, NothingIsLost
  <2> QED
    BY <2>1, <2>2
<1> QED
  BY <1>1, <1>4, <1>5, <1>6, <1>7 DEF LayoutInv

\* A change of the layout or of the activity: it is hung and witnessed as before.
LEMMA Hangings ==
  ASSUME FleetSizes, LayoutInv, NEW r \in Callers, NEW g \in RackIds, NEW servers \in SUBSET Servers,
         Fleet!Hangs(r, g, servers)
  PROVE  LayoutInv'
<1>1. /\ groups' = groups \cup {g} /\ activity' = activity /\ sighted' = sighted
      /\ assign' = [s \in Servers |-> IF s \in servers THEN g ELSE assign[s]]
  BY DEF Fleet!Hangs
<1>2. Hung(groups', assign') /\ Witnessed(activity', sighted')
  BY <1>1 DEF LayoutInv, Sound, Hung, Witnessed
<1>3. /\ groups' \subseteq RackIds /\ assign' \in [Servers -> RackIds \cup {Yard}]
      /\ activity' \in [Servers -> Fleet!Records] /\ sighted' \subseteq Servers
  BY <1>1 DEF LayoutInv, Fleet!TypeOK
<1> QED
  BY <1>2, <1>3, Handled DEF Fleet!Hangs

LEMMA Takings ==
  ASSUME FleetSizes, LayoutInv, NEW r \in Callers, NEW g \in groups, Fleet!TakesDown(r, g)
  PROVE  LayoutInv'
<1>1. /\ groups' = groups \ {g} /\ activity' = activity /\ sighted' = sighted
      /\ assign' = [s \in Servers |-> IF assign[s] = g THEN Yard ELSE assign[s]]
  BY DEF Fleet!TakesDown
<1>2. Hung(groups', assign') /\ Witnessed(activity', sighted')
  BY <1>1 DEF LayoutInv, Sound, Hung, Witnessed
<1>3. /\ groups' \subseteq RackIds /\ assign' \in [Servers -> RackIds \cup {Yard}]
      /\ activity' \in [Servers -> Fleet!Records] /\ sighted' \subseteq Servers
  BY <1>1 DEF LayoutInv, Fleet!TypeOK
<1> QED
  BY <1>2, <1>3, Handled DEF Fleet!TakesDown

LEMMA Assignings ==
  ASSUME FleetSizes, LayoutInv, NEW r \in Callers, NEW g \in RackIds \cup {Yard},
         NEW servers \in SUBSET Servers, Fleet!Assigns(r, servers, g)
  PROVE  LayoutInv'
<1>1. /\ groups' = groups /\ activity' = activity /\ sighted' = sighted /\ g \in groups \cup {Yard}
      /\ assign' = [s \in Servers |-> IF s \in servers THEN g ELSE assign[s]]
  BY DEF Fleet!Assigns
<1>2. Hung(groups', assign') /\ Witnessed(activity', sighted')
  BY <1>1 DEF LayoutInv, Sound, Hung, Witnessed
<1>3. /\ groups' \subseteq RackIds /\ assign' \in [Servers -> RackIds \cup {Yard}]
      /\ activity' \in [Servers -> Fleet!Records] /\ sighted' \subseteq Servers
  BY <1>1 DEF LayoutInv, Fleet!TypeOK
<1> QED
  BY <1>2, <1>3, Handled DEF Fleet!Assigns

\* observe(): a start that counts as witnessed is of a server that was found down, or counted so.
LEMMA Observings ==
  ASSUME FleetSizes, LayoutInv, NEW r \in Callers, NEW some \in SUBSET Servers,
         NEW found \in [some -> BOOLEAN], NEW full \in BOOLEAN, Fleet!Observes(r, found, full)
  PROVE  LayoutInv'
<1> DEFINE new == [s \in Servers |->
      CASE s \notin DOMAIN found -> IF full THEN "none" ELSE activity[s]
        [] s \in DOMAIN found /\ found[s] -> Fleet!FoundUp(s)
        [] OTHER -> "down"]
    Notable(s) == new[s] # activity[s] /\ (new[s] # "down" \/ activity[s] = "none")
<1> HIDE DEF Notable
<1>1. /\ activity' = new /\ groups' = groups /\ assign' = assign
      /\ sighted' = {s \in Servers : new[s] = "down" \/ (s \in sighted /\ new[s] # "none")}
      /\ IF \E s \in Servers : Notable(s) THEN Fleet!Handles(r, FALSE)
         ELSE /\ fleetBudget.changes < MaxRacked
              /\ fleetBudget' = [fleetBudget EXCEPT !.changes = @ + 1]
              /\ UNCHANGED <<persisted, db, save, fleetLock, unsaved>>
  BY DEF Fleet!Observes, Notable
<1>2. \A s \in Servers : activity[s] \in Fleet!Records
  BY DEF LayoutInv, Fleet!TypeOK
<1>3. ASSUME NEW s \in Servers
      PROVE  new[s] \in Fleet!Records /\ (new[s] = "observed" => activity[s] \in {"down", "observed"})
  <2>1. Fleet!FoundUp(s) \in Fleet!Records
        /\ (Fleet!FoundUp(s) = "observed" => activity[s] \in {"down", "observed"})
    BY <1>2 DEF Fleet!FoundUp, Fleet!Records
  <2>2. CASE s \notin DOMAIN found
    BY <2>2, <1>2 DEF Fleet!Records
  <2>3. CASE s \in DOMAIN found /\ found[s]
    BY <2>3, <2>1
  <2>4. CASE s \in DOMAIN found /\ ~found[s]
    BY <2>4 DEF Fleet!Records
  <2> QED
    BY <2>2, <2>3, <2>4
<1>4. Witnessed(activity', sighted')
  <2> SUFFICES ASSUME NEW s \in Servers, new[s] \in {"down", "observed"} PROVE s \in sighted'
    BY <1>1 DEF Witnessed
  <2>1. new[s] = "observed" => s \in sighted
    BY <1>3 DEF LayoutInv, Sound, Witnessed
  <2> HIDE DEF new
  <2> QED
    BY <1>1, <2>1
<1>5. /\ activity' \in [Servers -> Fleet!Records] /\ sighted' \subseteq Servers
      /\ groups' \subseteq RackIds /\ assign' \in [Servers -> RackIds \cup {Yard}]
  BY <1>1, <1>3 DEF LayoutInv, Fleet!TypeOK
<1>6. Hung(groups', assign')
  BY <1>1 DEF LayoutInv, Sound, Hung
<1>7. CASE \E s \in Servers : Notable(s)
  BY <1>1, <1>4, <1>5, <1>6, <1>7, Handled
<1>8. CASE ~ \E s \in Servers : Notable(s)
  <2>1. /\ fleetBudget.changes < MaxRacked /\ fleetBudget' = [fleetBudget EXCEPT !.changes = @ + 1]
        /\ UNCHANGED <<persisted, db, save, fleetLock, unsaved, groups, assign>>
    BY <1>1, <1>8
  <2>2. Fleet!TypeOK'
    BY <2>1, <1>5 DEF LayoutInv, Fleet!TypeOK, FleetSizes
  <2>3. OneSaves' /\ KeepsLayout'
    BY <2>1 DEF LayoutInv, OneSaves, KeepsLayout, Saving
  <2>4. Sound'
    BY <2>1, <1>4 DEF LayoutInv, Sound, Hung, Witnessed
  <2>5. NothingIsLost'
    BY <2>1 DEF LayoutInv, NothingIsLost, Pending, Saving, Catching
  <2> QED
    BY <2>2, <2>3, <2>4, <2>5 DEF LayoutInv
<1> QED
  BY <1>7, <1>8

\* A statement of a save: it is still the only one, and catches what it has not written yet.
LEMMA Savings ==
  ASSUME FleetSizes, LayoutInv, NEW r \in Callers, UNCHANGED <<groups, assign, activity, sighted>>,
         \/ Fleet!Begins(r) \/ Fleet!WritesRacks(r) \/ Fleet!WritesMembers(r) \/ Fleet!WritesActivity(r)
  PROVE  LayoutInv'
<1>1. PICK to, out : /\ save' = [save EXCEPT ![r].pc = to, ![r].out = out]
                     /\ to \in {"racks", "members", "activity", "commit"} /\ out \in Fleet!Layout
                     /\ UNCHANGED <<persisted, db, unsaved, fleetBudget>>
                     /\ Hung(out.racks, out.members) /\ Witnessed(out.seen, out.saw)
                     /\ to \in {"racks", "members"} => save[r].all
                     /\ ~save[r].all => out.racks = db.racks /\ out.members = db.members
  <2>1. CASE Fleet!Begins(r)
    <3> WITNESS IF save[r].all THEN "racks" ELSE "activity", db
    <3> QED
      BY <2>1 DEF Fleet!Begins, LayoutInv, Fleet!TypeOK, Sound
  <2>2. CASE Fleet!WritesRacks(r)
    <3> DEFINE out == [save[r].out EXCEPT !.racks = groups, !.members = Fleet!NoServer]
    <3>1. out \in Fleet!Layout /\ out.racks = groups /\ out.members = [s \in Servers |-> Yard]
          /\ out.seen = save[r].out.seen /\ out.saw = save[r].out.saw
      BY DEF LayoutInv, Fleet!TypeOK, Fleet!Layout, Fleet!NoServer
    <3>2. Hung(out.racks, out.members) /\ Witnessed(out.seen, out.saw)
      BY <3>1 DEF LayoutInv, Sound, Hung
    <3>3. save[r].all
      BY <2>2 DEF LayoutInv, OneSaves, Fleet!WritesRacks, Fleet!Goes
    <3> QED
      BY <2>2, <3>1, <3>2, <3>3 DEF Fleet!WritesRacks, Fleet!Goes
  <2>3. CASE Fleet!WritesMembers(r)
    <3> DEFINE out == [save[r].out EXCEPT !.members =
                  [s \in Servers |-> IF assign[s] \in save[r].out.racks THEN assign[s] ELSE Yard]]
    <3>1. out \in Fleet!Layout /\ out.racks = save[r].out.racks
          /\ out.members = [s \in Servers |-> IF assign[s] \in save[r].out.racks THEN assign[s] ELSE Yard]
          /\ out.seen = save[r].out.seen /\ out.saw = save[r].out.saw
      BY DEF LayoutInv, Fleet!TypeOK, Fleet!Layout
    <3>2. Hung(out.racks, out.members) /\ Witnessed(out.seen, out.saw)
      BY <3>1 DEF LayoutInv, Sound, Hung
    <3>3. save[r].all
      BY <2>3 DEF LayoutInv, OneSaves, Fleet!WritesMembers, Fleet!Goes
    <3> QED
      BY <2>3, <3>1, <3>2, <3>3 DEF Fleet!WritesMembers, Fleet!Goes
  <2>4. CASE Fleet!WritesActivity(r)
    <3> DEFINE out == [save[r].out EXCEPT !.seen = activity, !.saw = sighted]
    <3>1. out \in Fleet!Layout /\ out.racks = save[r].out.racks /\ out.members = save[r].out.members
          /\ out.seen = activity /\ out.saw = sighted
      BY DEF LayoutInv, Fleet!TypeOK, Fleet!Layout
    <3>2. Hung(out.racks, out.members) /\ Witnessed(out.seen, out.saw)
      BY <3>1 DEF LayoutInv, Sound
    <3>3. ~save[r].all => out.racks = db.racks /\ out.members = db.members
      BY <2>4, <3>1 DEF LayoutInv, KeepsLayout, Saving, Fleet!WritesActivity, Fleet!Goes
    <3> QED
      BY <2>4, <3>1, <3>2, <3>3 DEF Fleet!WritesActivity, Fleet!Goes
  <2> QED
    BY <2>1, <2>2, <2>3, <2>4
<1>2. /\ fleetLock' = r /\ fleetLock' \in Callers
      /\ \A q \in Callers : q # r => ~Saving(q)
  BY DEF LayoutInv, OneSaves, Saving, Fleet!Begins, Fleet!WritesRacks, Fleet!WritesMembers,
    Fleet!WritesActivity, Fleet!Goes, FleetSizes
<1>3. /\ \A q \in Callers : q # r => save'[q] = save[q]
      /\ save'[r].pc = to /\ save'[r].all = save[r].all /\ save'[r].out = out
      /\ Saving(r)' /\ save'[r] \in Saver
  BY <1>1 DEF LayoutInv, Fleet!TypeOK, Saving, Saver
<1>4. Fleet!TypeOK'
  <2>1. save' \in [Callers -> Saver]
    BY <1>1 DEF LayoutInv, Fleet!TypeOK, Saver
  <2> QED
    BY <1>1, <1>2, <2>1 DEF LayoutInv, Fleet!TypeOK, Saver
<1>5. OneSaves'
  BY <1>1, <1>2, <1>3 DEF LayoutInv, OneSaves, Saving
<1>6. Sound'
  BY <1>1, <1>3 DEF LayoutInv, Sound, Hung, Witnessed
<1>7. KeepsLayout'
  BY <1>1, <1>2, <1>3 DEF KeepsLayout, Saving
<1>8. NothingIsLost'
  <2>1. CASE Fleet!Begins(r)
    <3>1. to = IF save[r].all THEN "racks" ELSE "activity"
      BY <2>1, <1>3 DEF Fleet!Begins, LayoutInv, Fleet!TypeOK
    <3>2. CASE save[r].all
      BY <3>1, <3>2, <1>3 DEF NothingIsLost, Catching
    <3>3. CASE ~save[r].all
      <4>1. \A q \in Callers : ~Saving(q)
        BY <2>1 DEF Fleet!Begins, LayoutInv, OneSaves, FleetSizes
      <4>2. \A q \in Callers : Saving(q)' => ~save'[q].all
        BY <4>1, <3>3, <1>3 DEF Saving
      <4>3. Pending => Pending'
        BY <3>3, <1>3 DEF Pending
      <4> QED
        BY <4>1, <4>2, <4>3, <1>1 DEF LayoutInv, NothingIsLost
    <3> QED
      BY <3>2, <3>3
  <2>2. CASE ~Fleet!Begins(r)
    <3>1. save[r].pc # "wait" /\ Saving(r)
      BY <2>2 DEF Fleet!WritesRacks, Fleet!WritesMembers, Fleet!WritesActivity, Fleet!Goes, Saving
    <3>2. Pending => Pending'
      BY <3>1, <1>3 DEF Pending
    <3>3. CASE ~Pending /\ save[r].all
      <4>1. Catching(r)
        BY <3>3, <3>1, <1>2 DEF LayoutInv, NothingIsLost
      <4>2. CASE Fleet!WritesRacks(r)
        <5>1. to = "members" /\ out.racks = groups
          BY <4>2, <1>3 DEF Fleet!WritesRacks, Fleet!Goes, LayoutInv, Fleet!TypeOK, Fleet!Layout
        <5> QED
          BY <5>1, <3>3, <1>3 DEF NothingIsLost, Catching
      <4>3. CASE Fleet!WritesMembers(r)
        <5>1. to = "activity" /\ save[r].pc = "members"
          BY <4>3, <1>3 DEF Fleet!WritesMembers, Fleet!Goes, LayoutInv, Fleet!TypeOK
        <5>2. /\ out.racks = save[r].out.racks
              /\ out.members = [s \in Servers |-> IF assign[s] \in save[r].out.racks THEN assign[s] ELSE Yard]
          BY <4>3, <1>3 DEF Fleet!WritesMembers, Fleet!Goes, LayoutInv, Fleet!TypeOK, Fleet!Layout
        <5>3. save[r].out.racks = groups
          BY <4>1, <5>1 DEF Catching
        <5>4. assign \in [Servers -> RackIds \cup {Yard}]
              /\ \A s \in Servers : assign[s] \in groups \cup {Yard}
          BY DEF LayoutInv, Fleet!TypeOK, Sound, Hung
        <5>5. out.members = assign
          BY <5>2, <5>3, <5>4
        <5> QED
          BY <5>1, <5>2, <5>3, <5>5, <3>3, <1>3 DEF NothingIsLost, Catching
      <4>4. CASE Fleet!WritesActivity(r)
        <5>1. to = "commit" /\ save[r].pc = "activity"
          BY <4>4, <1>3 DEF Fleet!WritesActivity, Fleet!Goes, LayoutInv, Fleet!TypeOK
        <5>2. out.racks = save[r].out.racks /\ out.members = save[r].out.members
          BY <4>4, <1>3 DEF Fleet!WritesActivity, Fleet!Goes, LayoutInv, Fleet!TypeOK, Fleet!Layout
        <5> QED
          BY <4>1, <5>1, <5>2, <3>3, <1>3 DEF NothingIsLost, Catching
      <4> QED
        BY <2>2, <4>2, <4>3, <4>4
    <3>4. CASE ~Pending /\ ~save[r].all
      <4>1. unsaved \/ (db.racks = groups /\ db.members = assign)
        BY <3>4, <1>2 DEF LayoutInv, NothingIsLost
      <4> QED
        BY <4>1, <3>4, <1>1, <1>2, <1>3 DEF NothingIsLost, Saving
    <3> QED
      BY <3>2, <3>3, <3>4 DEF NothingIsLost
  <2> QED
    BY <2>1, <2>2
<1> QED
  BY <1>4, <1>5, <1>6, <1>7, <1>8 DEF LayoutInv

\* The end of a save: it is done, and the tables have what it wrote; or it is not, and that is known.
LEMMA Endings ==
  ASSUME FleetSizes, LayoutInv, NEW r \in Callers, Fleet!Commits(r) \/ Fleet!SaveFails(r)
  PROVE  LayoutInv'
<1>1. Saving(r) /\ \A q \in Callers : q # r => ~Saving(q)
  BY DEF LayoutInv, OneSaves, Saving, Fleet!Commits, Fleet!SaveFails
<1>2. /\ save' = [save EXCEPT ![r] = Fleet!Idle] /\ fleetLock' = NoRequest
      /\ UNCHANGED <<groups, assign, activity, sighted>>
      /\ persisted' \in BOOLEAN
      /\ \/ db' = save[r].out /\ unsaved' = (unsaved /\ ~save[r].all) /\ save[r].pc = "commit"
         \/ db' = db /\ unsaved' = (unsaved \/ save[r].all)
  BY DEF Fleet!Commits, Fleet!SaveFails, Fleet!Leaves, Fleet!memory
<1>3. fleetBudget' = fleetBudget \/ Fleet!Trouble
  BY DEF Fleet!Commits, Fleet!SaveFails
<1>4. save[r] \in Saver /\ Fleet!Idle \in Saver /\ Fleet!Idle.pc = "idle" /\ Fleet!Idle.out = Fleet!Blank
  BY BlankIsLayout DEF LayoutInv, Fleet!TypeOK, Saver, Fleet!Idle
<1>5. /\ \A q \in Callers : q # r => save'[q] = save[q]
      /\ save'[r].pc = "idle" /\ save'[r].out = Fleet!Blank
      /\ \A q \in Callers : ~Saving(q)'
  BY <1>1, <1>2, <1>4 DEF LayoutInv, Fleet!TypeOK, Saving
<1>6. Fleet!TypeOK'
  <2>1. save' \in [Callers -> Saver]
    BY <1>2, <1>4 DEF LayoutInv, Fleet!TypeOK, Saver
  <2>2. fleetBudget' \in [changes : 0 .. MaxRacked, troubles : 0 .. MaxRackTroubles]
    BY <1>3 DEF LayoutInv, Fleet!TypeOK, Fleet!Trouble, FleetSizes
  <2>3. db' \in Fleet!Layout /\ unsaved' \in BOOLEAN
    BY <1>2, <1>4 DEF LayoutInv, Fleet!TypeOK, Saver
  <2> QED
    BY <1>2, <2>1, <2>2, <2>3 DEF LayoutInv, Fleet!TypeOK, Saver
<1>7. OneSaves'
  BY <1>2, <1>5 DEF OneSaves, FleetSizes, Saving
<1>8. Sound'
  BY <1>2, <1>5 DEF LayoutInv, Sound, Hung, Witnessed, Fleet!Blank, Fleet!NoServer
<1>9. KeepsLayout'
  BY <1>5 DEF KeepsLayout
<1>10. NothingIsLost'
  <2>1. Pending => Pending'
    BY <1>1, <1>5 DEF Pending, Saving
  <2>2. ASSUME ~Pending PROVE unsaved' \/ (db'.racks = groups /\ db'.members = assign)
    <3>1. CASE save[r].all
      <4>1. Catching(r)
        BY <2>2, <3>1, <1>1 DEF LayoutInv, NothingIsLost
      <4> QED
        BY <4>1, <3>1, <1>2 DEF Catching
    <3>2. CASE ~save[r].all
      <4>1. unsaved \/ (db.racks = groups /\ db.members = assign)
        BY <2>2, <3>2, <1>1 DEF LayoutInv, NothingIsLost
      <4>2. save[r].out.racks = db.racks /\ save[r].out.members = db.members
        BY <3>2, <1>1 DEF LayoutInv, KeepsLayout
      <4> QED
        BY <4>1, <4>2, <3>2, <1>2
    <3> QED
      BY <3>1, <3>2
  <2> QED
    BY <2>1, <2>2, <1>2, <1>5 DEF NothingIsLost
<1> QED
  BY <1>6, <1>7, <1>8, <1>9, <1>10 DEF LayoutInv

\* The panel starts again with the tables as its layout, or knows that it has none.
LEMMA Restarts ==
  ASSUME FleetSizes, LayoutInv, NEW reads \in BOOLEAN, Fleet!PanelRestarts(reads)
  PROVE  LayoutInv'
<1>1. /\ save' = [q \in Callers |-> Fleet!Idle] /\ fleetLock' = NoRequest /\ db' = db
      /\ persisted' = reads /\ unsaved' = ~reads
  BY DEF Fleet!PanelRestarts
<1>2. PICK read \in {db, Fleet!Blank} :
        /\ groups' = read.racks /\ assign' = read.members /\ activity' = read.seen /\ sighted' = read.saw
        /\ reads => read = db
  BY DEF Fleet!PanelRestarts
<1>3. read \in Fleet!Layout /\ Hung(read.racks, read.members) /\ Witnessed(read.seen, read.saw)
  <2>1. CASE read = db
    BY <2>1 DEF LayoutInv, Fleet!TypeOK, Sound
  <2>2. CASE read = Fleet!Blank
    <3>1. Hung(Fleet!Blank.racks, Fleet!Blank.members) /\ Witnessed(Fleet!Blank.seen, Fleet!Blank.saw)
      BY DEF Hung, Witnessed, Fleet!Blank, Fleet!NoServer
    <3> QED
      BY <2>2, <3>1, BlankIsLayout
  <2> QED
    BY <2>1, <2>2
<1>4. Fleet!Idle \in Saver /\ Fleet!Idle.pc = "idle" /\ Fleet!Idle.out = Fleet!Blank
  BY BlankIsLayout DEF Saver, Fleet!Idle
<1>5. \A q \in Callers : save'[q] = Fleet!Idle /\ ~Saving(q)'
  BY <1>1, <1>4 DEF Saving
<1>6. Fleet!TypeOK'
  <2>1. fleetBudget' \in [changes : 0 .. MaxRacked, troubles : 0 .. MaxRackTroubles]
    BY DEF LayoutInv, Fleet!TypeOK, Fleet!Trouble, FleetSizes, Fleet!PanelRestarts
  <2>2. save' \in [Callers -> Saver]
    BY <1>1, <1>4
  <2> QED
    BY <1>1, <1>2, <1>3, <2>1, <2>2 DEF LayoutInv, Fleet!TypeOK, Saver, Fleet!Layout
<1>7. OneSaves' /\ KeepsLayout'
  BY <1>1, <1>4, <1>5 DEF OneSaves, KeepsLayout, Saving, FleetSizes
<1>8. Sound'
  BY <1>1, <1>2, <1>3, <1>4, <1>5 DEF LayoutInv, Sound, Hung, Witnessed, Fleet!Blank, Fleet!NoServer
<1>9. NothingIsLost'
  BY <1>1, <1>2, <1>5 DEF NothingIsLost
<1> QED
  BY <1>6, <1>7, <1>8, <1>9 DEF LayoutInv

LEMMA LayoutSteps == ASSUME FleetSizes, LayoutInv, [Fleet!Next]_(Fleet!vars) PROVE LayoutInv'
<1>1. CASE UNCHANGED Fleet!vars
  BY <1>1 DEF Fleet!vars, Fleet!memory, LayoutInv, Fleet!TypeOK, OneSaves, Sound, KeepsLayout, NothingIsLost,
    Saving, Pending, Catching, Hung, Witnessed
<1>2. CASE Fleet!Next
  <2>1. ASSUME NEW r \in Callers,
               \/ Fleet!Begins(r) \/ Fleet!WritesRacks(r) \/ Fleet!WritesMembers(r) \/ Fleet!WritesActivity(r)
        PROVE  LayoutInv'
    <3>1. UNCHANGED <<groups, assign, activity, sighted>>
      BY <2>1 DEF Fleet!Begins, Fleet!WritesRacks, Fleet!WritesMembers, Fleet!WritesActivity, Fleet!Goes,
        Fleet!memory
    <3> QED
      BY <2>1, <3>1, Savings
  <2>2. ASSUME NEW r \in Callers, NEW some \in SUBSET Servers, NEW full \in BOOLEAN,
               NEW found \in [some -> BOOLEAN], Fleet!Observes(r, found, full)
        PROVE  LayoutInv'
    BY <2>2, Observings
  <2> QED
    BY <1>2, <2>1, <2>2, Endings, Restarts, Hangings, Takings, Assignings DEF Fleet!Next
<1> QED
  BY <1>1, <1>2

\* _save(), delete_group(), observe(): whatever requests change the layout between the statements of
\* each other's saves, the tables hold what is shown once none is under way, no server is left on a
\* rack that is gone, and a start that counts as witnessed was.
THEOREM LayoutIsKept == ASSUME FleetSizes PROVE Fleet!Spec => []Fleet!LayoutHolds
<1>1. LayoutInv => Fleet!LayoutHolds
  BY DEF LayoutInv, NothingIsLost, Pending, Saving, Sound, Hung, Witnessed, Fleet!LayoutHolds,
    Fleet!SavedIsShown, Fleet!NoGhostRack, Fleet!HonestUptime
<1> QED
  BY <1>1, LayoutBegins, LayoutSteps, PTL DEF Fleet!Spec

-----------------------------------------------------------------------------
(***************************************************************************)
(* SignIn: what an account remembers of the codes it accepted.             *)
(***************************************************************************)
\* The constants of a real panel; a recovery code is none of the codes of an app.
CodeSizes ==
  /\ MaxFailures \in Nat \ {0} /\ Lockout \in Nat /\ ChallengeTtl \in Nat /\ Skew \in Nat
  /\ MaxSteps \in Nat /\ MaxSecrets \in Nat \ {0} /\ MaxHeld \in Nat
  /\ Recovery \cap Int = {}

AccountRows ==
  [password : 1 .. MaxSecrets, secret : {0} \cup SigningIn!Secrets, made : {0} \cup SigningIn!Secrets,
   on : BOOLEAN, since : 0 .. MaxSteps, last : SigningIn!Steps \cup {SigningIn!NoStep},
   left : SUBSET Recovery, failures : 0 .. MaxFailures - 1, locked : 0 .. MaxSteps + Lockout]
Accepted == [SigningIn!Secrets -> SUBSET (SigningIn!Steps \cup Recovery)]

\* What the row of an account remembers of the codes that were accepted: those of the app are of
\* no later step than the last one, recovery codes are not left, nothing was accepted of a secret
\* that is not made or still being set up, and something of the one in force.
Remembers(r, sp) ==
  /\ r.secret # 0 => /\ \A c \in sp[r.secret] : c \in SigningIn!Steps => c <= r.last
                     /\ \A c \in sp[r.secret] : c \notin r.left
  /\ r.secret <= r.made
  /\ \A s \in SigningIn!Secrets : s > r.made => sp[s] = {}
  /\ r.on => r.secret # 0 /\ sp[r.secret] \cap SigningIn!Steps # {}
  /\ ~r.on /\ r.secret # 0 => sp[r.secret] = {}

CodesInv ==
  /\ SigningIn!TypeOK /\ row \in AccountRows /\ spent \in Accepted
  /\ Remembers(row, spent)
  /\ ~again /\ streak = row.failures

LEMMA Bounds ==
  ASSUME CodeSizes
  PROVE  /\ MaxFailures \in Nat \ {0} /\ 0 \in 0 .. MaxFailures - 1 /\ 0 \in 0 .. MaxFailures
         /\ 0 \in 0 .. MaxSteps /\ 0 \in 0 .. MaxSteps + Lockout /\ 1 \in 1 .. MaxSecrets
         /\ SigningIn!Secrets \subseteq Nat \ {0} /\ SigningIn!Steps \subseteq Int
         /\ SigningIn!NoStep \in Int /\ \A s \in SigningIn!Steps : s > SigningIn!NoStep
         /\ Recovery \cap SigningIn!Steps = {}
BY DEF CodeSizes, SigningIn!Secrets, SigningIn!Steps, SigningIn!NoStep

LEMMA Ranges ==
  ASSUME CodeSizes, NEW r \in AccountRows
  PROVE  /\ r.password \in 1 .. MaxSecrets /\ r.password \in Nat /\ MaxSecrets \in Nat
         /\ r.made \in Nat /\ r.made <= MaxSecrets /\ r.since \in 0 .. MaxSteps
         /\ MaxSteps \in Nat /\ ChallengeTtl \in Nat
BY DEF CodeSizes, AccountRows, SigningIn!Secrets

LEMMA CodesBegin == ASSUME CodeSizes, SigningIn!Init PROVE CodesInv
<1>1. row \in AccountRows
  BY Bounds DEF SigningIn!Init, AccountRows
<1>2. spent \in Accepted /\ signClock \in 0 .. MaxSteps /\ held = {} /\ again = FALSE /\ streak = 0
  BY Bounds DEF SigningIn!Init, Accepted
<1>3. SigningIn!TypeOK
  BY <1>1, <1>2, Bounds DEF SigningIn!TypeOK, AccountRows, Accepted
<1>4. row.secret = 0 /\ row.made = 0 /\ row.on = FALSE /\ row.failures = 0
  BY DEF SigningIn!Init
<1>5. Remembers(row, spent)
  BY <1>4 DEF Remembers, SigningIn!Init
<1> QED
  BY <1>1, <1>2, <1>3, <1>4, <1>5 DEF CodesInv

\* What a step has to leave behind.
LEMMA Left ==
  ASSUME CodeSizes, CodesInv, row' \in AccountRows, spent' \in Accepted, ~again', again' \in BOOLEAN,
         streak' = row'.failures, Remembers(row', spent'), signClock' \in 0 .. MaxSteps,
         held' \subseteq [until : 0 .. MaxSteps + ChallengeTtl, password : 1 .. MaxSecrets, since : 0 .. MaxSteps]
  PROVE  CodesInv'
<1>1. streak' \in 0 .. MaxFailures
  BY Bounds DEF AccountRows
<1> QED
  BY <1>1 DEF CodesInv, SigningIn!TypeOK, AccountRows, Accepted

\* Clearing the count of wrong answers forgets nothing else.
LEMMA Clears ==
  ASSUME CodeSizes, NEW r \in AccountRows, NEW sp \in Accepted, Remembers(r, sp)
  PROVE  /\ SigningIn!Cleared(r) \in AccountRows /\ Remembers(SigningIn!Cleared(r), sp)
         /\ SigningIn!Cleared(r).failures = 0
<1>1. SigningIn!Cleared(r) \in AccountRows /\ SigningIn!Cleared(r).failures = 0
  BY Bounds DEF SigningIn!Cleared, AccountRows
<1>2. /\ SigningIn!Cleared(r).secret = r.secret /\ SigningIn!Cleared(r).made = r.made
      /\ SigningIn!Cleared(r).last = r.last /\ SigningIn!Cleared(r).left = r.left
      /\ SigningIn!Cleared(r).on = r.on
  BY DEF SigningIn!Cleared, AccountRows
<1> QED
  BY <1>1, <1>2 DEF Remembers

\* A wrong answer: the count and the streak move together.
LEMMA Failing ==
  ASSUME CodeSizes, CodesInv, SigningIn!Fails
  PROVE  row' \in AccountRows /\ streak' = row'.failures /\ Remembers(row', spent)
<1>1. /\ row.failures \in 0 .. MaxFailures - 1 /\ signClock \in 0 .. MaxSteps /\ MaxFailures \in Nat
      /\ MaxSteps \in Nat /\ Lockout \in Nat
  BY DEF CodesInv, SigningIn!TypeOK, CodeSizes
<1>2. CASE row.failures + 1 = MaxFailures
  <2>1. row' = [row EXCEPT !.failures = 0, !.locked = signClock + Lockout]
    BY <1>2 DEF SigningIn!Fails, SigningIn!CountsFailure
  <2>2. signClock + Lockout \in 0 .. MaxSteps + Lockout
    BY <1>1
  <2>3. row' \in AccountRows /\ row'.failures = 0
    BY <2>1, <2>2, Bounds DEF CodesInv, AccountRows
  <2>4. Remembers(row', spent)
    BY <2>1 DEF CodesInv, AccountRows, Remembers
  <2> QED
    BY <2>3, <2>4 DEF SigningIn!Fails
<1>3. CASE row.failures + 1 # MaxFailures
  <2>1. row' = [row EXCEPT !.failures = @ + 1]
    BY <1>3 DEF SigningIn!Fails, SigningIn!CountsFailure
  <2>2. row.failures + 1 \in 0 .. MaxFailures - 1
    BY <1>1, <1>3
  <2>3. row' \in AccountRows /\ row'.failures = row.failures + 1
    BY <2>1, <2>2 DEF CodesInv, AccountRows
  <2>4. Remembers(row', spent)
    BY <2>1 DEF CodesInv, AccountRows, Remembers
  <2> QED
    BY <1>1, <2>3, <2>4 DEF SigningIn!Fails, CodesInv
<1> QED
  BY <1>2, <1>3

\* A right code was never accepted before, and will not be again.
LEMMA Accepting ==
  ASSUME CodeSizes, CodesInv, row.on, NEW code \in SigningIn!Codes, SigningIn!SecondRight(code)
  PROVE  LET sp == [spent EXCEPT ![row.secret] = @ \cup {code}]
         IN  /\ code \notin spent[row.secret] /\ row.secret \in SigningIn!Secrets
             /\ sp \in Accepted
             /\ SigningIn!Used(row, code) \in AccountRows
             /\ SigningIn!Used(row, code).failures = row.failures
             /\ SigningIn!Used(row, code).made = row.made /\ SigningIn!Used(row, code).secret = row.secret
             /\ SigningIn!Used(row, code).on = row.on
             /\ code \in SigningIn!Steps => code <= SigningIn!Used(row, code).last
             /\ row.last <= SigningIn!Used(row, code).last
             /\ Remembers(SigningIn!Used(row, code), sp)
<1> DEFINE sp == [spent EXCEPT ![row.secret] = @ \cup {code}]
           r == SigningIn!Used(row, code)
<1>1. /\ row \in AccountRows /\ spent \in Accepted /\ Remembers(row, spent)
      /\ row.secret \in SigningIn!Secrets /\ row.last \in Int /\ row.left \subseteq Recovery
  BY Bounds DEF CodesInv, AccountRows, Remembers
<1>2. CASE code \in Recovery
  <2>1. code \in row.left /\ code \notin SigningIn!Steps
    BY <1>2, Bounds DEF SigningIn!SecondRight
  <2>2. r = [row EXCEPT !.left = @ \ {code}]
    BY <1>2 DEF SigningIn!Used
  <2>3. /\ r \in AccountRows /\ r.failures = row.failures /\ r.made = row.made /\ r.secret = row.secret
        /\ r.on = row.on /\ r.last = row.last /\ r.left = row.left \ {code}
    BY <1>1, <2>2 DEF AccountRows
  <2>4. code \notin spent[row.secret]
    BY <1>1, <2>1, Bounds DEF Remembers
  <2>5. sp \in Accepted /\ sp[row.secret] = spent[row.secret] \cup {code}
        /\ \A s \in SigningIn!Secrets : s # row.secret => sp[s] = spent[s]
    BY <1>1, <1>2 DEF Accepted
  <2>6. Remembers(r, sp)
    <3> HIDE DEF r, sp
    <3>1. row.secret # 0 /\ row.on
      BY <1>1, Bounds
    <3>2. \A c \in sp[row.secret] : (c \in SigningIn!Steps => c <= r.last) /\ c \notin r.left
      BY <1>1, <2>1, <2>3, <2>5, <3>1 DEF Remembers
    <3>3. sp[row.secret] \cap SigningIn!Steps # {}
      BY <1>1, <2>5, <3>1 DEF Remembers
    <3>4. \A s \in SigningIn!Secrets : s > row.made => sp[s] = {}
      BY <1>1, <2>5, Bounds DEF Remembers, AccountRows
    <3> QED
      BY <1>1, <2>3, <3>1, <3>2, <3>3, <3>4 DEF Remembers
  <2> QED
    BY <1>1, <2>1, <2>3, <2>4, <2>5, <2>6
<1>3. CASE code \notin Recovery
  <2>1. code \in SigningIn!Steps /\ code > row.last /\ code \in Int
    BY <1>3, Bounds DEF SigningIn!SecondRight, SigningIn!Matches
  <2>2. r = [row EXCEPT !.last = code]
    BY <1>3 DEF SigningIn!Used
  <2>3. /\ r \in AccountRows /\ r.failures = row.failures /\ r.made = row.made /\ r.secret = row.secret
        /\ r.on = row.on /\ r.last = code /\ r.left = row.left
    BY <1>1, <2>1, <2>2 DEF AccountRows
  <2>4. code \notin spent[row.secret]
    BY <1>1, <2>1, Bounds DEF Remembers
  <2>5. sp \in Accepted /\ sp[row.secret] = spent[row.secret] \cup {code}
        /\ \A s \in SigningIn!Secrets : s # row.secret => sp[s] = spent[s]
    BY <1>1, <2>1 DEF Accepted
  <2>6. Remembers(r, sp)
    <3> HIDE DEF r, sp
    <3>1. row.secret # 0 /\ row.on
      BY <1>1, Bounds
    <3>2. \A c \in sp[row.secret] : (c \in SigningIn!Steps => c <= r.last) /\ c \notin r.left
      <4>1. \A c \in spent[row.secret] : (c \in SigningIn!Steps => c <= row.last) /\ c \notin row.left
        <5> USE <1>1, <3>1 DEF Remembers
        <5> QED
          OBVIOUS
      <4>2. \A c \in SigningIn!Steps : c <= row.last => c <= code
        BY <1>1, <2>1, Bounds
      <4> QED
        <5> SUFFICES ASSUME NEW c \in sp[row.secret] PROVE (c \in SigningIn!Steps => c <= r.last) /\ c \notin r.left
          OBVIOUS
        <5>1. CASE c = code
          BY <5>1, <1>1, <1>3, <2>1, <2>3
        <5>2. CASE c \in spent[row.secret]
          BY <5>2, <2>3, <4>1, <4>2
        <5> QED
          BY <5>1, <5>2, <2>5
    <3>3. sp[row.secret] \cap SigningIn!Steps # {}
      BY <2>1, <2>5
    <3>4. \A s \in SigningIn!Secrets : s > row.made => sp[s] = {}
      BY <1>1, <2>5, Bounds DEF Remembers, AccountRows
    <3> QED
      BY <1>1, <2>3, <3>1, <3>2, <3>3, <3>4 DEF Remembers
  <2> QED
    BY <1>1, <2>1, <2>3, <2>4, <2>5, <2>6
<1> QED
  BY <1>2, <1>3

LEMMA Here ==
  ASSUME CodeSizes, CodesInv
  PROVE  /\ row \in AccountRows /\ spent \in Accepted /\ Remembers(row, spent) /\ ~again /\ again = FALSE
         /\ streak = row.failures /\ signClock \in 0 .. MaxSteps
         /\ held \subseteq [until : 0 .. MaxSteps + ChallengeTtl, password : 1 .. MaxSecrets, since : 0 .. MaxSteps]
BY DEF CodesInv, SigningIn!TypeOK

LEMMA Passwords ==
  ASSUME CodeSizes, CodesInv, SigningIn!RightPassword \/ SigningIn!WrongPassword
  PROVE  CodesInv'
<1>1. CASE SigningIn!RightPassword /\ row.on
  <2>1. /\ held' = held \cup {[until |-> signClock + ChallengeTtl, password |-> row.password, since |-> row.since]}
        /\ UNCHANGED <<row, streak, signClock, spent, again>>
    BY <1>1 DEF SigningIn!RightPassword
  <2>2. [until |-> signClock + ChallengeTtl, password |-> row.password, since |-> row.since]
          \in [until : 0 .. MaxSteps + ChallengeTtl, password : 1 .. MaxSecrets, since : 0 .. MaxSteps]
    <3>1. signClock + ChallengeTtl \in 0 .. MaxSteps + ChallengeTtl
      BY Here, Ranges
    <3> QED
      BY <3>1, Here, Ranges
  <2> QED
    BY <2>1, <2>2, Here, Left
<1>2. CASE SigningIn!RightPassword /\ ~row.on
  <2>1. row' = SigningIn!Cleared(row) /\ streak' = 0 /\ UNCHANGED <<held, signClock, spent, again>>
    BY <1>2 DEF SigningIn!RightPassword
  <2> QED
    BY <2>1, Here, Clears, Left
<1>3. CASE SigningIn!WrongPassword
  <2>1. SigningIn!Fails /\ UNCHANGED <<signClock, held, spent, again>>
    BY <1>3 DEF SigningIn!WrongPassword
  <2> QED
    BY <2>1, Here, Failing, Left
<1> QED
  BY <1>1, <1>2, <1>3

LEMMA Answering ==
  ASSUME CodeSizes, CodesInv, NEW challenge \in held, NEW code \in SigningIn!Codes,
         SigningIn!Answers(challenge, code)
  PROVE  CodesInv'
<1>1. row.on /\ UNCHANGED <<signClock, held>>
  BY DEF SigningIn!Answers
<1>2. CASE SigningIn!SecondRight(code)
  <2>1. /\ row' = SigningIn!Cleared(SigningIn!Used(row, code)) /\ streak' = 0
        /\ again' = (again \/ code \in spent[row.secret])
        /\ spent' = [spent EXCEPT ![row.secret] = @ \cup {code}]
    BY <1>2 DEF SigningIn!Answers, SigningIn!Spends
  <2>2. /\ code \notin spent[row.secret] /\ spent' \in Accepted
        /\ SigningIn!Used(row, code) \in AccountRows /\ Remembers(SigningIn!Used(row, code), spent')
    BY <1>1, <1>2, <2>1, Accepting
  <2>3. row' \in AccountRows /\ Remembers(row', spent') /\ row'.failures = 0
    BY <2>1, <2>2, Clears
  <2>4. ~again' /\ again' \in BOOLEAN
    BY <2>1, <2>2, Here
  <2> QED
    BY <1>1, <2>1, <2>2, <2>3, <2>4, Here, Left
<1>3. CASE ~SigningIn!SecondRight(code)
  <2>1. SigningIn!Fails /\ UNCHANGED <<spent, again>>
    BY <1>3 DEF SigningIn!Answers
  <2> QED
    BY <1>1, <2>1, Here, Failing, Left
<1> QED
  BY <1>2, <1>3

\* begin_setup(), enable(): the codes of a new secret are all still to be used.
LEMMA SettingUp ==
  ASSUME CodeSizes, CodesInv, SigningIn!BeginsSetup
  PROVE  CodesInv'
<1>1. /\ ~row.on /\ row.made < MaxSecrets /\ UNCHANGED <<signClock, held, streak, spent, again>>
      /\ row' = [row EXCEPT !.secret = row.made + 1, !.made = @ + 1, !.last = SigningIn!NoStep]
  BY DEF SigningIn!BeginsSetup, SigningIn!Setting
<1>2. row.made \in Nat /\ row.made + 1 \in SigningIn!Secrets
  BY <1>1, Here, Ranges DEF SigningIn!Secrets
<1>3. /\ row' \in AccountRows /\ row'.secret = row.made + 1 /\ row'.made = row.made + 1
      /\ row'.on = row.on /\ row'.failures = row.failures
  BY <1>1, <1>2, Here DEF AccountRows
<1>4. spent[row.made + 1] = {}
  BY <1>2, Here DEF Remembers
<1>5. \A s \in SigningIn!Secrets : s > row.made + 1 => spent[s] = {}
  BY <1>2, Here, Bounds DEF Remembers
<1>6. Remembers(row', spent)
  BY <1>1, <1>2, <1>3, <1>4, <1>5 DEF Remembers
<1> QED
  BY <1>1, <1>3, <1>6, Here, Left

LEMMA Enabling ==
  ASSUME CodeSizes, CodesInv, NEW code \in SigningIn!Codes, SigningIn!Enables(code)
  PROVE  CodesInv'
<1>1. /\ ~row.on /\ row.secret # 0 /\ code \in SigningIn!Steps /\ UNCHANGED <<signClock, held, streak>>
      /\ row' = [row EXCEPT !.on = TRUE, !.since = signClock, !.last = code, !.left = Recovery]
      /\ again' = (again \/ code \in spent[row.secret])
      /\ spent' = [spent EXCEPT ![row.secret] = @ \cup {code}]
  BY DEF SigningIn!Enables, SigningIn!Setting, SigningIn!Spends
<1>2. row.secret \in SigningIn!Secrets /\ spent[row.secret] = {} /\ row.made \in Nat
  BY <1>1, Here, Bounds DEF AccountRows, Remembers
<1>3. /\ row' \in AccountRows /\ row'.secret = row.secret /\ row'.made = row.made /\ row'.on = TRUE
      /\ row'.last = code /\ row'.left = Recovery /\ row'.failures = row.failures
  BY <1>1, Here DEF AccountRows
<1>4. /\ spent' \in Accepted /\ spent'[row.secret] = {code}
      /\ \A s \in SigningIn!Secrets : s # row.secret => spent'[s] = spent[s]
  BY <1>1, <1>2, Here DEF Accepted
<1>5. code \notin Recovery /\ code \in Int
  BY <1>1, Bounds
<1>6. \A s \in SigningIn!Secrets : s > row.made => spent'[s] = {}
  BY <1>2, <1>4, Here, Bounds DEF Remembers
<1>7. Remembers(row', spent')
  BY <1>1, <1>2, <1>3, <1>4, <1>5, <1>6, Here DEF Remembers
<1>8. ~again' /\ again' \in BOOLEAN
  BY <1>1, <1>2, Here
<1> QED
  BY <1>1, <1>3, <1>4, <1>7, <1>8, Here, Left

\* disable() and admin_reset() forget the secret and with it everything that was accepted of it.
LEMMA Forgetting ==
  ASSUME CodeSizes, CodesInv, NEW sp \in Accepted, 
         \A s \in SigningIn!Secrets : s # row.secret => sp[s] = spent[s]
  PROVE  /\ SigningIn!Clear(row) \in AccountRows /\ SigningIn!Clear(row).failures = row.failures
         /\ row.secret # 0 \/ sp = spent => Remembers(SigningIn!Clear(row), sp)
<1>1. /\ SigningIn!Clear(row) \in AccountRows /\ SigningIn!Clear(row).failures = row.failures
      /\ SigningIn!Clear(row).secret = 0 /\ SigningIn!Clear(row).made = row.made
      /\ SigningIn!Clear(row).on = FALSE
  BY Here, Bounds DEF AccountRows, SigningIn!Clear
<1>2. \A s \in SigningIn!Secrets : s > row.made => sp[s] = {}
  BY Here, Bounds DEF Remembers, AccountRows
<1>3. row.made >= 0
  BY Here, Bounds DEF AccountRows
<1> QED
  BY <1>1, <1>2, <1>3 DEF Remembers

LEMMA Disabling ==
  ASSUME CodeSizes, CodesInv, NEW code \in SigningIn!Codes, SigningIn!Disables(code)
  PROVE  CodesInv'
<1>1. UNCHANGED <<signClock, held, streak>>
  BY DEF SigningIn!Disables, SigningIn!Setting
<1>2. CASE row.on
  <2>1. /\ SigningIn!SecondRight(code) /\ row' = SigningIn!Clear(row)
        /\ again' = (again \/ code \in spent[row.secret])
        /\ spent' = [spent EXCEPT ![row.secret] = @ \cup {code}]
    BY <1>2 DEF SigningIn!Disables, SigningIn!Spends
  <2>2. code \notin spent[row.secret] /\ spent' \in Accepted /\ row.secret # 0
    BY <1>2, <2>1, Accepting, Bounds
  <2>3. \A s \in SigningIn!Secrets : s # row.secret => spent'[s] = spent[s]
    BY <2>1, Here DEF Accepted
  <2>4. row' \in AccountRows /\ row'.failures = row.failures /\ Remembers(row', spent')
    BY <2>1, <2>2, <2>3, Forgetting
  <2>5. ~again' /\ again' \in BOOLEAN
    BY <2>1, <2>2, Here
  <2> QED
    BY <1>1, <2>2, <2>4, <2>5, Here, Left
<1>3. CASE ~row.on
  <2>1. row' = [row EXCEPT !.secret = 0] /\ UNCHANGED <<spent, again>>
    BY <1>3 DEF SigningIn!Disables
  <2>2. /\ row' \in AccountRows /\ row'.failures = row.failures /\ row'.secret = 0 /\ row'.on = row.on
        /\ row'.made = row.made /\ row.made >= 0
    BY <2>1, Here, Bounds DEF AccountRows
  <2>3. Remembers(row', spent)
    BY <1>3, <2>2, Here DEF Remembers
  <2> QED
    BY <1>1, <2>1, <2>2, <2>3, Here, Left
<1> QED
  BY <1>2, <1>3

\* regenerate_recovery(): the new codes are none of those that were accepted.
LEMMA Regenerating ==
  ASSUME CodeSizes, CodesInv, NEW code \in SigningIn!Codes, SigningIn!Regenerates(code)
  PROVE  CodesInv'
<1> DEFINE r == SigningIn!Used(row, code)
           sp == [spent EXCEPT ![row.secret] = @ \cup {code}]
<1>1. /\ row.on /\ SigningIn!SecondRight(code) /\ UNCHANGED <<signClock, held, streak>>
      /\ row' = [r EXCEPT !.left = Recovery]
      /\ again' = (again \/ code \in spent[row.secret])
      /\ spent' = [spent EXCEPT ![row.secret] = (@ \cup {code}) \ Recovery]
  BY DEF SigningIn!Regenerates, SigningIn!Setting
<1>2. /\ code \notin spent[row.secret] /\ row.secret \in SigningIn!Secrets /\ sp \in Accepted
      /\ r \in AccountRows /\ r.failures = row.failures /\ r.made = row.made
      /\ r.secret = row.secret /\ r.on = row.on /\ Remembers(r, sp)
  BY <1>1, Accepting
<1> HIDE DEF r
<1>3. /\ row' \in AccountRows /\ row'.failures = row.failures /\ row'.made = row.made
      /\ row'.secret = row.secret /\ row'.on = row.on /\ row'.left = Recovery /\ row'.last = r.last
  BY <1>1, <1>2 DEF AccountRows
<1>4. /\ spent' \in Accepted /\ spent'[row.secret] = sp[row.secret] \ Recovery
      /\ \A s \in SigningIn!Secrets : s # row.secret => spent'[s] = sp[s]
  BY <1>1, <1>2, Here DEF Accepted
<1> HIDE DEF sp
<1>5. Remembers(row', spent')
  <2>1. row'.secret # 0 /\ row'.on /\ r.on /\ r.secret # 0
    BY <1>1, <1>2, <1>3, Bounds
  <2>2. \A c \in spent'[row.secret] : (c \in SigningIn!Steps => c <= row'.last) /\ c \notin row'.left
    BY <1>2, <1>3, <1>4, <2>1 DEF Remembers
  <2>3. spent'[row.secret] \cap SigningIn!Steps # {}
    BY <1>2, <1>4, <2>1, Bounds DEF Remembers
  <2>4. \A s \in SigningIn!Secrets : s > row.made => spent'[s] = {}
    BY <1>2, <1>4, Bounds DEF Remembers
  <2>5. row'.secret <= row'.made
    BY <1>2, <1>3 DEF Remembers
  <2> QED
    BY <1>3, <2>1, <2>2, <2>3, <2>4, <2>5 DEF Remembers
<1>6. ~again' /\ again' \in BOOLEAN
  BY <1>1, <1>2, Here
<1> QED
  BY <1>1, <1>3, <1>4, <1>5, <1>6, Here, Left

LEMMA Settings ==
  ASSUME CodeSizes, CodesInv, SigningIn!SetsPassword \/ SigningIn!AdminResets \/ SigningIn!Unlocks
  PROVE  CodesInv'
<1>1. CASE SigningIn!SetsPassword
  <2>1. /\ row' = [SigningIn!Cleared(row) EXCEPT !.password = @ + 1] /\ row.password < MaxSecrets
        /\ streak' = 0 /\ UNCHANGED <<signClock, held, spent, again>>
    BY <1>1 DEF SigningIn!SetsPassword
  <2>2. /\ SigningIn!Cleared(row) \in AccountRows /\ Remembers(SigningIn!Cleared(row), spent)
        /\ SigningIn!Cleared(row).failures = 0 /\ SigningIn!Cleared(row).password = row.password
    BY Clears, Here DEF SigningIn!Cleared, AccountRows
  <2>3. row.password + 1 \in 1 .. MaxSecrets
    BY <2>1, Here, Ranges
  <2>4. row' \in AccountRows /\ row'.failures = 0 /\ Remembers(row', spent)
    BY <2>1, <2>2, <2>3 DEF AccountRows, Remembers
  <2> QED
    BY <2>1, <2>4, Here, Left
<1>2. CASE SigningIn!AdminResets
  <2>1. row' = SigningIn!Clear(row) /\ UNCHANGED <<signClock, held, streak, spent, again>>
    BY <1>2 DEF SigningIn!AdminResets, SigningIn!Setting
  <2> QED
    BY <2>1, Here, Forgetting, Left
<1>3. CASE SigningIn!Unlocks
  <2>1. row' = SigningIn!Cleared(row) /\ streak' = 0 /\ UNCHANGED <<signClock, held, spent, again>>
    BY <1>3 DEF SigningIn!Unlocks
  <2> QED
    BY <2>1, Here, Clears, Left
<1> QED
  BY <1>1, <1>2, <1>3

LEMMA Passing == ASSUME CodeSizes, CodesInv, SigningIn!TimePasses PROVE CodesInv'
<1>1. /\ signClock' \in 0 .. MaxSteps /\ held' \subseteq held /\ UNCHANGED <<spent, again, streak>>
      /\ row' = row \/ row' = [row EXCEPT !.locked = 0]
  <2>1. signClock < MaxSteps /\ signClock' = signClock + 1 /\ MaxSteps \in Nat
    BY DEF SigningIn!TimePasses, CodeSizes
  <2>2. held' \subseteq held
    BY DEF SigningIn!TimePasses
  <2> QED
    BY <2>1, <2>2, Here DEF SigningIn!TimePasses
<1>2. row' \in AccountRows /\ row'.failures = row.failures /\ Remembers(row', spent)
  <2>1. CASE row' = row
    BY <2>1, Here
  <2>2. CASE row' = [row EXCEPT !.locked = 0]
    BY <2>2, Here, Bounds DEF AccountRows, Remembers
  <2> QED
    BY <1>1, <2>1, <2>2
<1> QED
  BY <1>1, <1>2, Here, Left

LEMMA CodesStep == ASSUME CodeSizes, CodesInv, [SigningIn!Next]_(SigningIn!vars) PROVE CodesInv'
<1>1. CASE UNCHANGED SigningIn!vars
  BY <1>1 DEF SigningIn!vars, CodesInv, SigningIn!TypeOK
<1>2. CASE SigningIn!Next
  BY <1>2, Passwords, Answering, SettingUp, Enabling, Disabling, Regenerating, Settings, Passing
    DEF SigningIn!Next
<1> QED
  BY <1>1, <1>2

\* match_code(), authenticate(), begin_setup(): a code works once wherever it is typed, wrong answers
\* that no sign-in came between lock the account, and a second factor is asked for only once a
\* code of it is known to work.
THEOREM SignInIsGuarded == ASSUME CodeSizes PROVE SigningIn!Spec => []SigningIn!AccountsHold
<1>1. CodesInv => SigningIn!AccountsHold
  BY DEF CodesInv, AccountRows, Remembers, CodeSizes, SigningIn!AccountsHold, SigningIn!CodeOnce,
    SigningIn!WrongAnswersLock, SigningIn!NobodyLockedOut
<1> QED
  BY <1>1, CodesBegin, CodesStep, PTL DEF SigningIn!Spec

-----------------------------------------------------------------------------
(***************************************************************************)
(* Decisions: the list in memory, the lists still to be written, the tables. *)
(***************************************************************************)
\* The constants of a real panel: every jar has a key, whatever else it is known by.
DecisionSizes ==
  /\ MaxDecisions \in Nat /\ MaxReviewTroubles \in Nat /\ \A jar \in Jars : jar.key # Unnamed

\* The list is the newest object, and saves wait in the order of the objects.
SavesInOrder ==
  /\ memory = Len(lists)
  /\ \A i \in DOMAIN saves : saves[i].list \in 1 .. memory
  /\ \A i, j \in DOMAIN saves : i < j => saves[i].list <= saves[j].list

\* No entry is in two objects: each is of a change of its own.
Apart ==
  /\ \A k \in DOMAIN lists : \A e \in lists[k] : e.at <= decisions
  /\ \A e \in reviewDb : e.at <= decisions
  /\ \A j, k \in DOMAIN lists : j # k => lists[j] \cap lists[k] = {}

\* What was answered "persisted" is in force and in the tables; and as long as an object that was
\* replaced is still to be written, nothing was answered so.
ToldIsKept ==
  ~blind => /\ reviewTold \subseteq reviewDb \cap lists[memory]
            /\ \A i \in DOMAIN saves : saves[i].list # memory => reviewTold = {}

\* Unless something failed, the list in force is in the tables or is written last.
InForce ==
  reviewTroubles = 0 =>
    IF saves = <<>> THEN reviewDb = lists[memory] ELSE saves[Len(saves)].list = memory

\* The latest decision is the only one of its scope on its jar.
LatestAlone ==
  last # Reviewing!NoEntry =>
    /\ last \in lists[memory]
    /\ \A e \in lists[memory] : e.scope = last.scope /\ Reviewing!Matches(e, last.jar) => e = last

DecisionsInv == Reviewing!TypeOK /\ SavesInOrder /\ Apart /\ ToldIsKept /\ InForce /\ LatestAlone

LEMMA DecisionsBegin == ASSUME DecisionSizes, Reviewing!Init PROVE DecisionsInv
<1>1. /\ lists = <<{}>> /\ memory = 1 /\ saves = <<>> /\ reviewDb = {} /\ last = Reviewing!NoEntry
      /\ reviewTold = {} /\ blind = FALSE /\ decisions = 0 /\ reviewTroubles = 0
  BY DEF Reviewing!Init
<1>2. /\ Len(lists) = 1 /\ DOMAIN lists = {1} /\ lists[1] = {} /\ lists \in Seq(SUBSET Reviewing!Entries)
      /\ DOMAIN saves = {} /\ saves \in Seq(Reviewing!Saves)
  BY <1>1
<1>3. Reviewing!TypeOK
  <2>1. decisions \in 0 .. MaxDecisions /\ reviewTroubles \in 0 .. MaxReviewTroubles
    BY <1>1 DEF DecisionSizes
  <2>2. last \in Reviewing!Entries \cup {Reviewing!NoEntry} /\ memory \in DOMAIN lists
    BY <1>1, <1>2
  <2> QED
    BY <1>1, <1>2, <2>1, <2>2 DEF Reviewing!TypeOK
<1> QED
  BY <1>1, <1>2, <1>3 DEF DecisionsInv, SavesInOrder, Apart, ToldIsKept, InForce, LatestAlone

LEMMA Typed ==
  ASSUME DecisionSizes, DecisionsInv
  PROVE  /\ lists \in Seq(SUBSET Reviewing!Entries) /\ memory = Len(lists) /\ memory \in DOMAIN lists
         /\ memory \in Nat \ {0} /\ DOMAIN lists = 1 .. memory
         /\ saves \in Seq(Reviewing!Saves) /\ reviewDb \subseteq Reviewing!Entries
         /\ Len(saves) \in Nat /\ DOMAIN saves = 1 .. Len(saves)
         /\ last \in Reviewing!Entries \cup {Reviewing!NoEntry} /\ reviewTold \subseteq Reviewing!Entries
         /\ blind \in BOOLEAN /\ decisions \in 0 .. MaxDecisions /\ reviewTroubles \in 0 .. MaxReviewTroubles
         /\ \A e \in Reviewing!Entries : e.at \in Int
         /\ MaxDecisions \in Nat /\ MaxReviewTroubles \in Nat
BY DEF DecisionsInv, Reviewing!TypeOK, SavesInOrder, DecisionSizes, Reviewing!Entries

\* A request that changes the list in place, to one of what it had and of what is new.
LEMMA Altering ==
  ASSUME DecisionSizes, DecisionsInv, NEW list \in SUBSET Reviewing!Entries,
         NEW e \in Reviewing!Entries \cup {Reviewing!NoEntry},
         Reviewing!Alters(list, e), Reviewing!Change,
         \A o \in list : o \in lists[memory] \/ o.at = decisions + 1,
         last' \in Reviewing!Entries \cup {Reviewing!NoEntry},
         last' # Reviewing!NoEntry =>
           /\ last' \in list
           /\ \A o \in list : o.scope = last'.scope /\ Reviewing!Matches(o, last'.jar) => o = last'
  PROVE  DecisionsInv'
<1> USE Typed
<1>1. /\ lists' = [lists EXCEPT ![memory] = list] /\ saves' = Append(saves, [list |-> memory, answers |-> e])
      /\ reviewTold' = reviewTold \cap list /\ decisions < MaxDecisions /\ decisions' = decisions + 1
      /\ UNCHANGED <<memory, reviewDb, blind, reviewTroubles>>
  BY DEF Reviewing!Alters, Reviewing!Change
<1>2. /\ lists' \in Seq(SUBSET Reviewing!Entries) /\ Len(lists') = memory /\ DOMAIN lists' = 1 .. memory
      /\ lists'[memory] = list /\ \A k \in 1 .. memory : k # memory => lists'[k] = lists[k]
  BY <1>1
<1>3. /\ saves' \in Seq(Reviewing!Saves)' /\ Len(saves') = Len(saves) + 1
      /\ DOMAIN saves' = 1 .. Len(saves) + 1
      /\ \A i \in 1 .. Len(saves) : saves'[i] = saves[i]
      /\ saves'[Len(saves) + 1].list = memory
  <2>1. Reviewing!Saves' = Reviewing!Saves
    BY <1>2 DEF Reviewing!Saves, Reviewing!Entries, Reviewing!NoEntry
  <2>2. [list |-> memory, answers |-> e] \in Reviewing!Saves
    BY DEF Reviewing!Saves
  <2> QED
    BY <1>1, <2>1, <2>2
<1>4. Reviewing!TypeOK'
  <2>1. decisions' \in 0 .. MaxDecisions
    BY <1>1
  <2> QED
    BY <1>1, <1>2, <1>3, <2>1 DEF Reviewing!TypeOK, Reviewing!Entries, Reviewing!NoEntry
<1>5. SavesInOrder'
  <2>1. \A i \in 1 .. Len(saves) : saves[i].list \in 1 .. memory
    BY DEF DecisionsInv, SavesInOrder
  <2>2. \A i \in DOMAIN saves' : saves'[i].list \in 1 .. memory
    <3>1. memory \in 1 .. memory /\ Len(saves) \in Nat
      OBVIOUS
    <3>2. \A i \in DOMAIN saves' : i = Len(saves) + 1 \/ i \in 1 .. Len(saves)
      BY <3>1, <1>3
    <3> QED
      BY <2>1, <3>1, <3>2, <1>3
  <2>3. \A i, j \in DOMAIN saves' : i < j => saves'[i].list <= saves'[j].list
    <3> SUFFICES ASSUME NEW i \in DOMAIN saves', NEW j \in DOMAIN saves', i < j
                 PROVE  saves'[i].list <= saves'[j].list
      OBVIOUS
    <3>1. CASE j = Len(saves) + 1
      BY <3>1, <2>2, <1>3
    <3>2. CASE j # Len(saves) + 1
      BY SMTT(30), <3>2, <1>3 DEF DecisionsInv, SavesInOrder
    <3> QED
      BY <3>1, <3>2
  <2> QED
    BY <1>1, <1>2, <2>2, <2>3 DEF SavesInOrder
<1>6. Apart'
  <2>1. \A o \in list : o.at <= decisions + 1
    BY DEF DecisionsInv, Apart
  <2>2. \A k \in 1 .. memory : k # memory => \A o \in lists[k] : o.at <= decisions /\ o \notin lists[memory]
    BY DEF DecisionsInv, Apart
  <2>3. \A k \in 1 .. memory : k # memory => lists[k] \cap list = {}
    <3> SUFFICES ASSUME NEW k \in 1 .. memory, k # memory, NEW o \in lists[k], o \in list PROVE FALSE
      OBVIOUS
    <3>1. o.at \in Int /\ o.at <= decisions /\ o \notin lists[memory]
      BY <2>2
    <3> QED
      BY <3>1
  <2>4. \A o \in reviewDb : o.at <= decisions + 1
    BY DEF DecisionsInv, Apart
  <2>5. \A k \in 1 .. memory : \A o \in lists'[k] : o.at <= decisions + 1
    BY <1>2, <2>1, <2>2
  <2>6. \A j, k \in 1 .. memory : j # k => lists'[j] \cap lists'[k] = {}
    <3> SUFFICES ASSUME NEW j \in 1 .. memory, NEW k \in 1 .. memory, j # k PROVE lists'[j] \cap lists'[k] = {}
      OBVIOUS
    <3>1. CASE j # memory /\ k # memory
      BY <3>1, <1>2 DEF DecisionsInv, Apart
    <3>2. CASE j = memory \/ k = memory
      BY <3>2, <1>2, <2>3
    <3> QED
      BY <3>1, <3>2
  <2> QED
    BY <1>1, <1>2, <2>4, <2>5, <2>6 DEF Apart
<1>7. ToldIsKept'
  <2>1. ~blind => reviewTold \subseteq reviewDb
    BY DEF DecisionsInv, ToldIsKept
  <2>2. ASSUME ~blind, NEW i \in DOMAIN saves', saves'[i].list # memory PROVE reviewTold = {}
    <3>1. i \in 1 .. Len(saves)
      BY <2>2, <1>3
    <3> QED
      BY <3>1, <2>2, <1>3 DEF DecisionsInv, ToldIsKept
  <2> QED
    BY <1>1, <1>2, <2>1, <2>2 DEF ToldIsKept
<1>8. InForce'
  BY <1>1, <1>3 DEF InForce
<1>9. LatestAlone'
  BY <1>1, <1>2 DEF LatestAlone, Reviewing!NoEntry, Reviewing!Matches, Reviewing!Same
<1> QED
  BY <1>4, <1>5, <1>6, <1>7, <1>8, <1>9 DEF DecisionsInv

LEMMA Fresh ==
  ASSUME DecisionSizes, DecisionsInv, Reviewing!Change,
         NEW e \in [jar : Jars, scope : Reviewing!Scopes, verdict : Reviewing!Verdicts, at : {decisions + 1}]
  PROVE  e \in Reviewing!Entries /\ e.at = decisions + 1
<1>1. decisions + 1 \in 1 .. MaxDecisions
  BY Typed DEF Reviewing!Change
<1> QED
  BY <1>1 DEF Reviewing!Entries

\* add(), and import_entries() into the list: the new entry is the only one left of its scope.
LEMMA Adding ==
  ASSUME DecisionSizes, DecisionsInv, Reviewing!Change,
         NEW e \in [jar : Jars, scope : Reviewing!Scopes, verdict : Reviewing!Verdicts, at : {decisions + 1}],
         last' = e,
         Reviewing!Alters(Reviewing!Added(lists[memory], e), e)
  PROVE  DecisionsInv'
<1> DEFINE list == Reviewing!Added(lists[memory], e)
<1>1. e \in Reviewing!Entries /\ e.at = decisions + 1
  BY Fresh
<1>2. /\ list \subseteq Reviewing!Entries /\ e \in list
      /\ \A o \in list : o \in lists[memory] \/ o = e
      /\ \A o \in list : o.scope = e.scope /\ Reviewing!Matches(o, e.jar) => o = e
  BY <1>1, Typed DEF Reviewing!Added
<1> QED
  BY <1>1, <1>2, Altering

\* remove(), clear(): nothing is added.
LEMMA Taking ==
  ASSUME DecisionSizes, DecisionsInv, Reviewing!Change, NEW list, list \subseteq lists[memory],
         Reviewing!Alters(list, Reviewing!NoEntry), last' = Reviewing!NoEntry
  PROVE  DecisionsInv'
<1>1. list \in SUBSET Reviewing!Entries
  BY Typed
<1> QED
  BY <1>1, Altering

\* import_entries() in place of the list: a new object, and nothing of the old one was told to stay.
LEMMA Replacing ==
  ASSUME DecisionSizes, DecisionsInv, Reviewing!Change,
         NEW e \in [jar : Jars, scope : Reviewing!Scopes, verdict : Reviewing!Verdicts, at : {decisions + 1}],
         last' = e,
         lists' = Append(lists, {e}), memory' = Len(lists'),
         saves' = Append(saves, [list |-> memory', answers |-> e]), reviewTold' = reviewTold \cap {e},
         UNCHANGED <<reviewDb, blind, reviewTroubles>>
  PROVE  DecisionsInv'
<1> USE Typed
<1>1. e \in Reviewing!Entries /\ e.at = decisions + 1 /\ decisions' = decisions + 1 /\ decisions < MaxDecisions
  BY Fresh DEF Reviewing!Change
<1>2. /\ lists' \in Seq(SUBSET Reviewing!Entries) /\ Len(lists') = memory + 1 /\ memory' = memory + 1
      /\ DOMAIN lists' = 1 .. memory + 1 /\ lists'[memory + 1] = {e}
      /\ \A k \in 1 .. memory : lists'[k] = lists[k]
  BY <1>1
<1>3. /\ saves' \in Seq(Reviewing!Saves)' /\ Len(saves') = Len(saves) + 1
      /\ DOMAIN saves' = 1 .. Len(saves) + 1
      /\ \A i \in 1 .. Len(saves) : saves'[i] = saves[i]
      /\ saves'[Len(saves) + 1].list = memory + 1
  <2>1. Reviewing!Saves \subseteq Reviewing!Saves'
    BY <1>2 DEF Reviewing!Saves, Reviewing!Entries, Reviewing!NoEntry
  <2>3. saves \in Seq(Reviewing!Saves')
    BY <2>1, SeqMonotonic
  <2>2. [list |-> memory', answers |-> e] \in Reviewing!Saves'
    BY <1>1, <1>2 DEF Reviewing!Saves, Reviewing!Entries, Reviewing!NoEntry
  <2> QED
    BY <1>2, <2>2, <2>3
<1>4. reviewTold' = {} \/ blind
  <2>1. ~blind => \A o \in reviewTold : o.at <= decisions /\ o.at \in Int
    BY DEF DecisionsInv, ToldIsKept, Apart
  <2> QED
    BY <2>1, <1>1
<1>5. Reviewing!TypeOK'
  <2>1. decisions' \in 0 .. MaxDecisions /\ reviewTold' \subseteq Reviewing!Entries
    BY <1>1
  <2> QED
    BY <1>1, <1>2, <1>3, <2>1 DEF Reviewing!TypeOK, Reviewing!Entries, Reviewing!NoEntry
<1>6. SavesInOrder'
  <2>1. \A i \in 1 .. Len(saves) : saves[i].list \in 1 .. memory
    BY DEF DecisionsInv, SavesInOrder
  <2>2. \A i \in DOMAIN saves' : saves'[i].list \in 1 .. memory + 1
    BY <2>1, <1>3
  <2>3. \A i, j \in DOMAIN saves' : i < j => saves'[i].list <= saves'[j].list
    <3> SUFFICES ASSUME NEW i \in DOMAIN saves', NEW j \in DOMAIN saves', i < j
                 PROVE  saves'[i].list <= saves'[j].list
      OBVIOUS
    <3>1. CASE j = Len(saves) + 1
      BY <3>1, <2>2, <1>3
    <3>2. CASE j # Len(saves) + 1
      BY <3>2, <1>3 DEF DecisionsInv, SavesInOrder
    <3> QED
      BY <3>1, <3>2
  <2> QED
    BY <1>2, <2>2, <2>3 DEF SavesInOrder
<1>7. Apart'
  <2>1. \A k \in 1 .. memory : \A o \in lists[k] : o.at <= decisions /\ o.at \in Int
    BY DEF DecisionsInv, Apart
  <2>2. \A o \in reviewDb : o.at <= decisions + 1
    BY DEF DecisionsInv, Apart
  <2>3. \A k \in 1 .. memory + 1 : \A o \in lists'[k] : o.at <= decisions + 1
    BY <1>1, <1>2, <2>1
  <2>4. \A k \in 1 .. memory : lists'[k] \cap {e} = {}
    BY <1>1, <1>2, <2>1
  <2>5. \A j, k \in 1 .. memory + 1 : j # k => lists'[j] \cap lists'[k] = {}
    <3> SUFFICES ASSUME NEW j \in 1 .. memory + 1, NEW k \in 1 .. memory + 1, j # k
                 PROVE  lists'[j] \cap lists'[k] = {}
      OBVIOUS
    <3>1. CASE j # memory + 1 /\ k # memory + 1
      BY <3>1, <1>2 DEF DecisionsInv, Apart
    <3>2. CASE j = memory + 1 \/ k = memory + 1
      BY <3>2, <1>2, <2>4
    <3> QED
      BY <3>1, <3>2
  <2> QED
    BY <1>1, <1>2, <2>2, <2>3, <2>5 DEF Apart
<1>8. ToldIsKept'
  BY <1>4 DEF ToldIsKept
<1>9. InForce'
  BY <1>2, <1>3 DEF InForce
<1>10. LatestAlone'
  BY <1>1, <1>2 DEF LatestAlone, Reviewing!NoEntry, Reviewing!Matches, Reviewing!Same
<1> QED
  BY <1>5, <1>6, <1>7, <1>8, <1>9, <1>10 DEF DecisionsInv

\* The save whose turn it is, written or not: the others wait as before.
LEMMA Turn ==
  ASSUME DecisionSizes, DecisionsInv, NEW i \in Reviewing!MayWrite, saves' = Reviewing!RemoveAt(saves, i),
         UNCHANGED <<lists, memory>>
  PROVE  /\ i = 1 /\ Len(saves) > 0 /\ saves' \in Seq(Reviewing!Saves) /\ Len(saves') = Len(saves) - 1
         /\ \A k \in 1 .. Len(saves) - 1 : saves'[k] = saves[k + 1]
         /\ DOMAIN saves' = 1 .. Len(saves) - 1 /\ saves[1].list \in 1 .. memory
         /\ SavesInOrder'
<1> USE Typed
<1>1. i = 1 /\ Len(saves) > 0
  BY DEF Reviewing!MayWrite
<1>2. saves' = Tail(saves)
  <2>1. saves' = SubSeq(saves, 1, 0) \o SubSeq(saves, 2, Len(saves))
    BY <1>1 DEF Reviewing!RemoveAt
  <2>2. SubSeq(saves, 1, 0) = <<>> /\ SubSeq(saves, 2, Len(saves)) = Tail(saves)
    BY <1>1
  <2> QED
    BY <1>1, <2>1, <2>2
<1>3. /\ saves' \in Seq(Reviewing!Saves) /\ Len(saves') = Len(saves) - 1
      /\ \A k \in 1 .. Len(saves) - 1 : saves'[k] = saves[k + 1]
      /\ DOMAIN saves' = 1 .. Len(saves) - 1
  <2>1. saves # <<>>
    BY <1>1
  <2>2. saves \in Seq(Reviewing!Saves) /\ Len(saves) \in Nat
    OBVIOUS
  <2>3. /\ Tail(saves) \in Seq(Reviewing!Saves) /\ Len(Tail(saves)) = Len(saves) - 1
        /\ \A k \in 1 .. Len(Tail(saves)) : Tail(saves)[k] = saves[k + 1]
    BY <2>1, <2>2, HeadTailProperties, Zenon
  <2>4. DOMAIN Tail(saves) = 1 .. Len(Tail(saves))
    BY <2>3, LenProperties
  <2> QED
    BY <1>2, <2>3, <2>4
<1>4. \A k \in DOMAIN saves : saves[k].list \in 1 .. memory
  BY DEF DecisionsInv, SavesInOrder
<1>5. SavesInOrder'
  <2>1. \A k \in DOMAIN saves' : k + 1 \in DOMAIN saves /\ saves'[k] = saves[k + 1]
    BY <1>3
  <2>2. \A j, k \in DOMAIN saves' : j < k => saves'[j].list <= saves'[k].list
    <3> SUFFICES ASSUME NEW j \in DOMAIN saves', NEW k \in DOMAIN saves', j < k
                 PROVE  saves'[j].list <= saves'[k].list
      OBVIOUS
    <3>1. j + 1 < k + 1
      BY <1>3
    <3> QED
      BY <2>1, <3>1 DEF DecisionsInv, SavesInOrder
  <2> QED
    BY <1>4, <2>1, <2>2 DEF SavesInOrder
<1>6. saves[1].list \in 1 .. memory
  BY <1>1, <1>4
<1> QED
  BY <1>1, <1>3, <1>5, <1>6

LEMMA Writing ==
  ASSUME DecisionSizes, DecisionsInv, NEW i \in DOMAIN saves, Reviewing!Saved(i)
  PROVE  DecisionsInv'
<1> USE Typed
<1>1. /\ i \in Reviewing!MayWrite /\ saves' = Reviewing!RemoveAt(saves, i)
      /\ reviewDb' = lists[saves[i].list]
      /\ reviewTold' = reviewTold \cup ({saves[i].answers} \cap reviewDb' \cap lists[memory])
      /\ UNCHANGED <<lists, memory, last, blind, decisions, reviewTroubles>>
  BY DEF Reviewing!Saved
<1>2. /\ i = 1 /\ Len(saves) > 0 /\ saves' \in Seq(Reviewing!Saves) /\ Len(saves') = Len(saves) - 1
      /\ \A k \in 1 .. Len(saves) - 1 : saves'[k] = saves[k + 1]
      /\ DOMAIN saves' = 1 .. Len(saves) - 1 /\ saves[1].list \in 1 .. memory
      /\ SavesInOrder'
  BY <1>1, Turn
<1>3. reviewDb' \subseteq Reviewing!Entries
  <2>1. saves[1].list \in DOMAIN lists /\ reviewDb' = lists[saves[1].list]
    BY <1>1, <1>2
  <2>2. lists[saves[1].list] \in SUBSET Reviewing!Entries
    BY <2>1, ElementOfSeq
  <2> QED
    BY <2>1, <2>2
<1>4. Reviewing!TypeOK'
  BY <1>1, <1>2, <1>3 DEF Reviewing!TypeOK, Reviewing!Saves, Reviewing!Entries, Reviewing!NoEntry
<1>5. Apart'
  BY <1>1, <1>2 DEF DecisionsInv, Apart
<1>6. ToldIsKept'
  <2> SUFFICES ASSUME ~blind PROVE /\ reviewTold' \subseteq reviewDb' \cap lists[memory]
                                   /\ \A k \in DOMAIN saves' : saves'[k].list # memory => reviewTold' = {}
    BY <1>1 DEF ToldIsKept
  <2>1. CASE saves[1].list = memory
    <3>1. \A k \in DOMAIN saves' : saves'[k].list = memory
      <4> SUFFICES ASSUME NEW k \in DOMAIN saves' PROVE saves'[k].list = memory
        OBVIOUS
      <4>1. k + 1 \in DOMAIN saves /\ 1 \in DOMAIN saves /\ 1 < k + 1 /\ saves'[k] = saves[k + 1]
        BY <1>2
      <4>2. saves[1].list <= saves[k + 1].list /\ saves[k + 1].list \in 1 .. memory
        BY <4>1 DEF DecisionsInv, SavesInOrder
      <4> QED
        BY <2>1, <4>1, <4>2
    <3>2. reviewTold \subseteq lists[memory]
      BY DEF DecisionsInv, ToldIsKept
    <3> QED
      BY <1>1, <1>2, <2>1, <3>1, <3>2
  <2>2. CASE saves[1].list # memory
    <3>1. reviewTold = {}
      BY <2>2, <1>2 DEF DecisionsInv, ToldIsKept
    <3>2. lists[saves[1].list] \cap lists[memory] = {}
      BY <2>2, <1>2 DEF DecisionsInv, Apart
    <3> QED
      BY <1>1, <1>2, <3>1, <3>2
  <2> QED
    BY <2>1, <2>2
<1>7. InForce'
  <2> SUFFICES ASSUME reviewTroubles = 0
               PROVE  IF saves' = <<>> THEN reviewDb' = lists[memory] ELSE saves'[Len(saves')].list = memory
    BY <1>1 DEF InForce
  <2>1. saves[Len(saves)].list = memory
    BY <1>2 DEF DecisionsInv, InForce
  <2>2. CASE Len(saves) = 1
    BY <2>1, <2>2, <1>1, <1>2
  <2>3. CASE Len(saves) # 1
    <3>1. Len(saves) - 1 \in 1 .. Len(saves) - 1 /\ saves' # <<>>
      BY <2>3, <1>2
    <3>2. saves'[Len(saves')] = saves[Len(saves)]
      BY <3>1, <1>2
    <3> QED
      BY <2>1, <3>1, <3>2
  <2> QED
    BY <2>2, <2>3
<1>8. LatestAlone'
  BY <1>1 DEF DecisionsInv, LatestAlone, Reviewing!NoEntry, Reviewing!Matches, Reviewing!Same
<1> QED
  BY <1>2, <1>4, <1>5, <1>6, <1>7, <1>8 DEF DecisionsInv

LEMMA NotSaving ==
  ASSUME DecisionSizes, DecisionsInv, NEW i \in DOMAIN saves, Reviewing!SaveFails(i)
  PROVE  DecisionsInv'
<1> USE Typed
<1>1. /\ i \in Reviewing!MayWrite /\ saves' = Reviewing!RemoveAt(saves, i)
      /\ reviewTroubles < MaxReviewTroubles /\ reviewTroubles' = reviewTroubles + 1
      /\ UNCHANGED <<lists, memory, reviewDb, last, reviewTold, blind, decisions>>
  BY DEF Reviewing!SaveFails
<1>2. /\ saves' \in Seq(Reviewing!Saves) /\ Len(saves') = Len(saves) - 1
      /\ \A k \in 1 .. Len(saves) - 1 : saves'[k] = saves[k + 1]
      /\ DOMAIN saves' = 1 .. Len(saves) - 1 /\ SavesInOrder'
  BY <1>1, Turn
<1>3. reviewTroubles' \in 0 .. MaxReviewTroubles /\ reviewTroubles' # 0
  BY <1>1
<1>4. Reviewing!TypeOK'
  BY <1>1, <1>2, <1>3 DEF Reviewing!TypeOK, Reviewing!Saves, Reviewing!Entries, Reviewing!NoEntry
<1>5. Apart' /\ InForce'
  BY <1>1, <1>3 DEF DecisionsInv, Apart, InForce
<1>6. ToldIsKept'
  <2>1. \A k \in DOMAIN saves' : k + 1 \in DOMAIN saves /\ saves'[k] = saves[k + 1]
    BY <1>2
  <2> QED
    BY <1>1, <2>1 DEF DecisionsInv, ToldIsKept
<1>7. LatestAlone'
  BY <1>1 DEF DecisionsInv, LatestAlone, Reviewing!NoEntry, Reviewing!Matches, Reviewing!Same
<1> QED
  BY <1>2, <1>4, <1>5, <1>6, <1>7 DEF DecisionsInv

LEMMA Rereading ==
  ASSUME DecisionSizes, DecisionsInv, NEW reads \in BOOLEAN, Reviewing!PanelRestarts(reads)
  PROVE  DecisionsInv'
<1> USE Typed
<1>1. /\ reviewTroubles < MaxReviewTroubles /\ reviewTroubles' = reviewTroubles + 1
      /\ lists' = <<IF reads THEN reviewDb ELSE {}>> /\ memory' = 1 /\ saves' = <<>>
      /\ blind' = (blind \/ ~reads) /\ last' = Reviewing!NoEntry
      /\ UNCHANGED <<reviewDb, reviewTold, decisions>>
  BY DEF Reviewing!PanelRestarts
<1>2. /\ lists' \in Seq(SUBSET Reviewing!Entries) /\ Len(lists') = 1 /\ DOMAIN lists' = {1}
      /\ lists'[1] \subseteq reviewDb /\ (reads => lists'[1] = reviewDb)
  BY <1>1
<1>3. saves' \in Seq(Reviewing!Saves') /\ DOMAIN saves' = {}
  BY <1>1
<1>4. reviewTroubles' \in 0 .. MaxReviewTroubles /\ reviewTroubles' # 0 /\ blind' \in BOOLEAN
  BY <1>1
<1>5. Reviewing!TypeOK'
  BY <1>1, <1>2, <1>3, <1>4 DEF Reviewing!TypeOK, Reviewing!Entries, Reviewing!NoEntry
<1>6. SavesInOrder' /\ InForce'
  BY <1>1, <1>2, <1>3, <1>4 DEF SavesInOrder, InForce
<1>7. Apart'
  BY <1>1, <1>2 DEF DecisionsInv, Apart
<1>8. ToldIsKept'
  BY <1>1, <1>2, <1>3 DEF DecisionsInv, ToldIsKept
<1>9. LatestAlone'
  BY <1>1 DEF LatestAlone, Reviewing!NoEntry
<1> QED
  BY <1>5, <1>6, <1>7, <1>8, <1>9 DEF DecisionsInv

LEMMA DecisionsStep == ASSUME DecisionSizes, DecisionsInv, [Reviewing!Next]_(Reviewing!vars) PROVE DecisionsInv'
<1>1. CASE UNCHANGED Reviewing!vars
  BY <1>1 DEF Reviewing!vars, DecisionsInv, Reviewing!TypeOK, SavesInOrder, Apart, ToldIsKept, InForce, LatestAlone,
    Reviewing!Saves, Reviewing!Entries, Reviewing!NoEntry, Reviewing!Matches, Reviewing!Same
<1>2. ASSUME NEW e \in [jar : Jars, scope : Reviewing!Scopes, verdict : Reviewing!Verdicts, at : {decisions + 1}],
             Reviewing!Adds(e) \/ \E replace \in BOOLEAN : Reviewing!Imports(e, replace)
      PROVE  DecisionsInv'
  <2>1. CASE Reviewing!Adds(e)
    BY <2>1, Adding DEF Reviewing!Adds
  <2>2. ASSUME NEW replace \in BOOLEAN, Reviewing!Imports(e, replace), replace PROVE DecisionsInv'
    BY <2>2, Replacing DEF Reviewing!Imports
  <2>3. ASSUME NEW replace \in BOOLEAN, Reviewing!Imports(e, replace), ~replace PROVE DecisionsInv'
    BY <2>3, Adding DEF Reviewing!Imports
  <2> QED
    BY <1>2, <2>1, <2>2, <2>3
<1>3. ASSUME NEW jar \in Jars, NEW scopes \in SUBSET Reviewing!Scopes \ {{}}, Reviewing!Removes(jar, scopes)
      PROVE  DecisionsInv'
  BY <1>3, Taking DEF Reviewing!Removes
<1>4. ASSUME NEW scopes \in SUBSET Reviewing!Scopes \ {{}}, Reviewing!Clears(scopes) PROVE DecisionsInv'
  BY <1>4, Taking DEF Reviewing!Clears
<1>5. CASE Reviewing!Next
  BY <1>5, <1>2, <1>3, <1>4, Writing, NotSaving, Rereading DEF Reviewing!Next
<1> QED
  BY <1>1, <1>5

\* The latest decision is what the review goes by: it is all there is of its scope.
LEMMA LatestDecides == ASSUME DecisionSizes, DecisionsInv PROVE Reviewing!LatestCounts
<1> DEFINE list == lists[memory]
           own == {e \in Reviewing!Candidates(list, last.jar) : e.scope # "global"}
<1> SUFFICES ASSUME last # Reviewing!NoEntry,
                    ~(last.scope = "global" /\ \E e \in Reviewing!Candidates(list, last.jar) : e.scope = OneServer)
             PROVE  Reviewing!Decided(list, last.jar) = last.verdict
  BY DEF Reviewing!LatestCounts
<1>1. last \in list /\ \A e \in list : e.scope = last.scope /\ Reviewing!Matches(e, last.jar) => e = last
  BY DEF DecisionsInv, LatestAlone
<1>2. /\ last.jar \in Jars /\ last.jar.key # Unnamed /\ last.scope \in {"global", OneServer}
      /\ last.verdict \in {"allow", "block"} /\ \A e \in list : e.scope \in {"global", OneServer}
  BY Typed DEF DecisionSizes, Reviewing!Entries, Reviewing!Scopes, Reviewing!Verdicts
<1>3. last \in Reviewing!Candidates(list, last.jar)
  BY <1>1, <1>2 DEF Reviewing!Candidates, Reviewing!Matches, Reviewing!Same
<1>4. \A e \in Reviewing!Candidates(list, last.jar) : e.scope = last.scope => e = last
  BY <1>1 DEF Reviewing!Candidates
<1>5. /\ last.scope # "global" => own = {last}
      /\ last.scope = "global" => own = {} /\ Reviewing!Candidates(list, last.jar) = {last}
  BY <1>2, <1>3, <1>4 DEF Reviewing!Candidates
<1>6. (IF own # {} THEN own ELSE Reviewing!Candidates(list, last.jar)) = {last}
  BY <1>5
<1> HIDE DEF own, list
<1>7. Reviewing!Decided(list, last.jar) =
        IF {e \in {last} : e.verdict = "block"} # {} THEN "block" ELSE IF {last} # {} THEN "allow" ELSE "none"
  BY <1>6 DEF Reviewing!Decided, own
<1> QED
  BY <1>7, <1>2

\* add(), load(), "persisted": the latest decision is the one the review goes by, a decision that was
\* answered "persisted" is in the tables until a request takes it back, and once all is saved the
\* tables hold the list that is in force.
THEOREM DecisionsAreKept == ASSUME DecisionSizes PROVE Reviewing!Spec => []Reviewing!DecisionsHold
<1>1. DecisionsInv => Reviewing!DecisionsHold
  BY LatestDecides DEF DecisionsInv, ToldIsKept, InForce, Reviewing!DecisionsHold, Reviewing!PersistedStays,
    Reviewing!SavedIsInForce
<1> QED
  BY <1>1, DecisionsBegin, DecisionsStep, PTL DEF Reviewing!Spec

-----------------------------------------------------------------------------
(***************************************************************************)
(* DesiredState: the row of a server, and the spec its agent holds.         *)
(***************************************************************************)
DesiredSizes == Servers # {} /\ MaxDesired \in Nat /\ MaxDesiredTroubles \in Nat

WorksOn(r, s) == request[r].pc # "idle" /\ request[r].server = s

\* A request whose server is not excused is the only one there, and what it has done so far and
\* what it will do make row and spec agree.
OnItsWay(r, s) ==
  /\ request[r].pc # "undo"
  /\ \A q \in Callers : WorksOn(q, s) => q = r
  /\ request[r].pc = "call" /\ request[r].op # "delete" => desiredRow[s] = request[r].state
  /\ request[r].pc = "drop" => spec[s] = Desiring!Nothing

Agreeing(s) ==
  /\ \A r \in Callers : WorksOn(r, s) =>
       /\ request[r].op = "delete" => request[r].state = Desiring!Nothing
       /\ request[r].pc = "drop" => request[r].op = "delete"
       /\ s \notin excused => OnItsWay(r, s)
  /\ \A c \in late : c.server = s => s \in excused
  /\ s \notin excused /\ ~Desiring!Overlaps(s) => spec[s] = desiredRow[s]
  /\ agent \in {"got", "settled"} /\ s \notin mixed =>
       /\ ~Desiring!Overlaps(s) /\ desiredRow[s] = desired[s]
       /\ agent = "settled" /\ desiredRow[s] # Desiring!Nothing => spec[s] = desiredRow[s]

DesiredInv == Desiring!TypeOK /\ \A s \in Servers : Agreeing(s)

\* A step that has nothing to do with s, or after which more may differ there.
Untouched(s) ==
  /\ desiredRow'[s] = desiredRow[s] /\ spec'[s] = spec[s] /\ desired' = desired /\ agent' = agent
  /\ s \in excused' <=> s \in excused
  /\ s \in mixed => s \in mixed'
  /\ \A q \in Callers : WorksOn(q, s) \/ WorksOn(q, s)' => request'[q] = request[q]
  /\ \A c : c.server = s => (c \in late' <=> c \in late)

LEMMA UntouchedStaysSound ==
  ASSUME NEW s \in Servers, Agreeing(s), Untouched(s)
  PROVE  Agreeing(s)'
<1>1. \A q \in Callers : WorksOn(q, s)' <=> WorksOn(q, s)
  BY DEF Untouched, WorksOn
<1>2. Desiring!Overlaps(s)' <=> Desiring!Overlaps(s)
  BY <1>1 DEF Untouched, Desiring!Overlaps, Desiring!Busy, WorksOn
<1>3. ASSUME NEW r \in Callers, WorksOn(r, s)'
      PROVE  /\ request'[r].op = "delete" => request'[r].state = Desiring!Nothing
             /\ request'[r].pc = "drop" => request'[r].op = "delete"
             /\ s \notin excused' => OnItsWay(r, s)'
  BY <1>1, <1>3 DEF Untouched, Agreeing, OnItsWay
<1> QED
  BY <1>2, <1>3 DEF Untouched, Agreeing

\* A request begins: what it overlaps is excused from now on.
LEMMA ChangeBegins ==
  ASSUME DesiredInv, NEW r \in Callers, NEW s \in Servers, NEW op, NEW state, Desiring!Begins(r, op, s, state),
         op = "delete" => state = Desiring!Nothing /\ desiredRow' = desiredRow,
         op # "delete" => desiredRow' = [desiredRow EXCEPT ![s] = state],
         UNCHANGED <<spec, late, agent, desired>>
  PROVE  \A x \in Servers : Agreeing(x)'
<1> USE DEF DesiredInv, Desiring!TypeOK
<1>1. /\ request[r].pc = "idle"
      /\ request'[r].op = op /\ request'[r].server = s /\ request'[r].state = state
      /\ request'[r].pc = "call"
      /\ \A q \in Callers \ {r} : request'[q] = request[q]
  BY DEF Desiring!Begins, Desiring!Idle
<1>2. ASSUME NEW x \in Servers, x # s
      PROVE  Agreeing(x)'
  <2>1. desiredRow'[x] = desiredRow[x]
    BY <1>2
  <2>2. (x \in excused' <=> x \in excused) /\ (x \in mixed => x \in mixed')
    BY <1>2 DEF Desiring!Begins
  <2>3. \A q \in Callers : WorksOn(q, x) \/ WorksOn(q, x)' => request'[q] = request[q]
    BY <1>1, <1>2 DEF WorksOn
  <2> QED
    BY <2>1, <2>2, <2>3, UntouchedStaysSound DEF Untouched
<1>3. Agreeing(s)'
  <2>1. Desiring!Overlaps(s) => s \in excused'
    BY DEF Desiring!Begins
  <2>2. s \in mixed' /\ Desiring!Overlaps(s)'
    BY <1>1 DEF Desiring!Begins, Desiring!Overlaps, Desiring!Busy
  <2>3. ASSUME NEW q \in Callers, WorksOn(q, s)'
        PROVE  /\ request'[q].op = "delete" => request'[q].state = Desiring!Nothing
               /\ request'[q].pc = "drop" => request'[q].op = "delete"
    BY <1>1, <2>3 DEF Agreeing, WorksOn
  <2>4. ASSUME NEW q \in Callers, WorksOn(q, s)', s \notin excused'
        PROVE  OnItsWay(q, s)'
    <3>1. \A p \in Callers : WorksOn(p, s)' => p = r
      BY <1>1, <2>1, <2>4 DEF WorksOn, Desiring!Overlaps, Desiring!Busy
    <3>2. request'[r].op # "delete" => desiredRow'[s] = request'[r].state
      BY <1>1
    <3> QED
      BY <1>1, <2>4, <3>1, <3>2 DEF OnItsWay
  <2>5. \A c \in late' : c.server = s => s \in excused'
    BY <2>1 DEF Desiring!Overlaps
  <2> QED
    BY <2>2, <2>3, <2>4, <2>5 DEF Agreeing
<1> QED
  BY <1>2, <1>3

\* The request r of s goes on or ends: everything else is as it was, but for what it does to s.
OneMoves(r, s) ==
  /\ request[r].server = s /\ request[r].pc # "idle"
  /\ \A q \in Callers \ {r} : request'[q] = request[q]
  /\ \A x \in Servers \ {s} : desiredRow'[x] = desiredRow[x] /\ spec'[x] = spec[x]
  /\ desired' = desired /\ agent' = agent /\ mixed' = mixed
  /\ request'[r] = Desiring!Idle \/ (WorksOn(r, s)' /\ request'[r].op = request[r].op
                            /\ request'[r].state = request[r].state)

LEMMA OtherServers ==
  ASSUME NEW r \in Callers, NEW s \in Servers, OneMoves(r, s), \A x \in Servers : Agreeing(x),
         excused' = excused \/ excused' = excused \cup {s},
         \A c : c.server # s => (c \in late' <=> c \in late)
  PROVE  \A x \in Servers \ {s} : Agreeing(x)'
<1> SUFFICES ASSUME NEW x \in Servers, x # s PROVE Agreeing(x)'
  OBVIOUS
<1>1. \A q \in Callers : WorksOn(q, x) \/ WorksOn(q, x)' => request'[q] = request[q]
  BY DEF OneMoves, WorksOn, Desiring!Idle
<1> QED
  BY <1>1, UntouchedStaysSound DEF Untouched, OneMoves

\* The spec is what the request put; of requests that did not overlap, the row is too.
LEMMA CallIsAnswered ==
  ASSUME DesiredInv, NEW r \in Callers, Desiring!Answered(r)
  PROVE  \A x \in Servers : Agreeing(x)'
<1> DEFINE s == request[r].server
<1> USE DEF DesiredInv, Desiring!TypeOK
<1>1. s \in Servers /\ request[r].pc = "call" /\ WorksOn(r, s)
  BY DEF Desiring!Answered, WorksOn
<1>2. /\ \A q \in Callers \ {r} : request'[q] = request[q]
      /\ \/ request[r].op = "delete" /\ request'[r] = [request[r] EXCEPT !.pc = "drop"]
         \/ request[r].op # "delete" /\ request'[r] = Desiring!Idle
  BY DEF Desiring!Answered, Desiring!Goes, Desiring!Ends
<1>3. /\ spec'[s] = request[r].state /\ \A x \in Servers \ {s} : spec'[x] = spec[x]
      /\ UNCHANGED <<desiredRow, late, agent, desired, excused, mixed>>
  BY <1>1 DEF Desiring!Answered
<1>4. PICK y \in Servers : y = s
  BY <1>1
<1>5. OneMoves(r, y)
  <2>1. CASE request'[r] = Desiring!Idle
    BY <1>1, <1>2, <1>3, <1>4, <2>1 DEF OneMoves
  <2>2. CASE request'[r] = [request[r] EXCEPT !.pc = "drop"]
    BY <1>1, <1>2, <1>3, <1>4, <2>2 DEF OneMoves, WorksOn
  <2> QED
    BY <1>2, <2>1, <2>2
<1>6. \A x \in Servers \ {y} : Agreeing(x)'
  BY <1>3, <1>5, OtherServers
<1>7. Agreeing(y)'
  <2>0. Agreeing(y)
    OBVIOUS
  <2>1. y \in mixed' \/ agent' \notin {"got", "settled"}
    BY <1>1, <1>3, <1>4, <2>0 DEF Agreeing, Desiring!Overlaps, Desiring!Busy, WorksOn
  <2>2. \A c \in late' : c.server = y => y \in excused'
    BY <1>3, <2>0 DEF Agreeing
  <2>3. ASSUME y \notin excused'
        PROVE  OnItsWay(r, y) /\ \A q \in Callers : WorksOn(q, y)' => q = r
    BY <1>1, <1>2, <1>3, <1>4, <2>0, <2>3 DEF Agreeing, OnItsWay, WorksOn
  <2>4. CASE request[r].op = "delete" /\ request'[r] = [request[r] EXCEPT !.pc = "drop"]
    <3>1. /\ request'[r].op = "delete" /\ request'[r].pc = "drop" /\ request'[r].server = y
          /\ request'[r].state = request[r].state /\ request[r].state = Desiring!Nothing
      BY <1>1, <1>4, <2>0, <2>4 DEF Agreeing
    <3>2. Desiring!Overlaps(y)'
      BY <3>1 DEF Desiring!Overlaps, Desiring!Busy
    <3>3. ASSUME NEW q \in Callers, WorksOn(q, y)'
          PROVE  /\ request'[q].op = "delete" => request'[q].state = Desiring!Nothing
                 /\ request'[q].pc = "drop" => request'[q].op = "delete"
                 /\ y \notin excused' => OnItsWay(q, y)'
      BY <1>2, <1>3, <1>4, <2>0, <2>3, <3>1, <3>3 DEF Agreeing, OnItsWay, WorksOn
    <3> QED
      BY <2>1, <2>2, <3>2, <3>3 DEF Agreeing
  <2>5. CASE request[r].op # "delete" /\ request'[r] = Desiring!Idle
    <3>1. ~WorksOn(r, y)'
      BY <2>5 DEF WorksOn, Desiring!Idle
    <3>2. ASSUME y \notin excused'
          PROVE  spec'[y] = desiredRow'[y]
      BY <1>1, <1>3, <1>4, <2>3, <2>5, <3>2 DEF OnItsWay
    <3>3. ASSUME NEW q \in Callers, WorksOn(q, y)'
          PROVE  /\ request'[q].op = "delete" => request'[q].state = Desiring!Nothing
                 /\ request'[q].pc = "drop" => request'[q].op = "delete"
                 /\ y \notin excused' => OnItsWay(q, y)'
      BY <1>2, <2>0, <2>3, <3>1, <3>3 DEF Agreeing, WorksOn
    <3> QED
      BY <2>1, <2>2, <3>2, <3>3 DEF Agreeing
  <2> QED
    BY <1>2, <2>4, <2>5
<1> QED
  BY <1>6, <1>7

\* Whatever becomes of the call, its server is excused.
LEMMA CallIsUnanswered ==
  ASSUME DesiredInv, NEW r \in Callers, NEW fate, Desiring!Unanswered(r, fate)
  PROVE  \A x \in Servers : Agreeing(x)'
<1> USE DEF DesiredInv, Desiring!TypeOK
<1>1. PICK s \in Servers : s = request[r].server /\ request[r].pc = "call" /\ WorksOn(r, s)
  BY DEF Desiring!Unanswered, WorksOn
<1>2. /\ \A q \in Callers \ {r} : request'[q] = request[q]
      /\ request'[r] = [request[r] EXCEPT !.pc = "undo"] \/ request'[r] = Desiring!Idle
  BY DEF Desiring!Unanswered, Desiring!Goes, Desiring!Ends
<1>3. /\ \A x \in Servers \ {s} : spec'[x] = spec[x]
      /\ UNCHANGED <<desiredRow, agent, desired, mixed>> /\ excused' = excused \cup {s}
      /\ \A c : c.server # s => (c \in late' <=> c \in late)
  BY <1>1 DEF Desiring!Unanswered, Desiring!Excuses
<1>4. OneMoves(r, s)
  <2>1. CASE request'[r] = Desiring!Idle
    BY <1>1, <1>2, <1>3, <2>1 DEF OneMoves
  <2>2. CASE request'[r] = [request[r] EXCEPT !.pc = "undo"]
    BY <1>1, <1>2, <1>3, <2>2 DEF OneMoves, WorksOn
  <2> QED
    BY <1>2, <2>1, <2>2
<1>5. \A x \in Servers \ {s} : Agreeing(x)'
  BY <1>3, <1>4, OtherServers
<1>6. Agreeing(s)'
  <2>0. Agreeing(s)
    OBVIOUS
  <2>1. s \in excused' /\ (s \in mixed' \/ agent' \notin {"got", "settled"})
    BY <1>1, <1>3, <2>0 DEF Agreeing, Desiring!Overlaps, Desiring!Busy, WorksOn
  <2>2. ASSUME NEW q \in Callers, WorksOn(q, s)'
        PROVE  /\ request'[q].op = "delete" => request'[q].state = Desiring!Nothing
               /\ request'[q].pc = "drop" => request'[q].op = "delete"
    BY <1>1, <1>2, <2>0, <2>2 DEF Agreeing, WorksOn, Desiring!Idle
  <2> QED
    BY <2>1, <2>2 DEF Agreeing
<1> QED
  BY <1>5, <1>6

\* A create that failed takes its row back; a delete that was answered drops it.
LEMMA RowIsRemoved ==
  ASSUME DesiredInv, NEW r \in Callers, Desiring!Undo(r) \/ Desiring!Drop(r)
  PROVE  \A x \in Servers : Agreeing(x)'
<1> USE DEF DesiredInv, Desiring!TypeOK
<1>1. PICK s \in Servers : s = request[r].server /\ request[r].pc \in {"undo", "drop"} /\ WorksOn(r, s)
  BY DEF Desiring!Undo, Desiring!Drop, WorksOn
<1>2. /\ \A q \in Callers \ {r} : request'[q] = request[q]
      /\ request'[r] = Desiring!Idle
  BY DEF Desiring!Undo, Desiring!Drop, Desiring!Ends
<1>7. ~WorksOn(r, s)'
  BY <1>2 DEF WorksOn, Desiring!Idle
<1>3. /\ desiredRow'[s] = Desiring!Nothing /\ \A x \in Servers \ {s} : desiredRow'[x] = desiredRow[x]
      /\ UNCHANGED <<spec, late, agent, desired, excused, mixed>>
  BY <1>1 DEF Desiring!Undo, Desiring!Drop
<1>4. OneMoves(r, s)
  BY <1>1, <1>2, <1>3 DEF OneMoves
<1>5. \A x \in Servers \ {s} : Agreeing(x)'
  BY <1>3, <1>4, OtherServers
<1>6. Agreeing(s)'
  <2>0. Agreeing(s)
    OBVIOUS
  <2>1. s \in mixed' \/ agent' \notin {"got", "settled"}
    BY <1>1, <1>3, <2>0 DEF Agreeing, Desiring!Overlaps, Desiring!Busy, WorksOn
  <2>2. ASSUME s \notin excused'
        PROVE  spec'[s] = desiredRow'[s] /\ \A q \in Callers : ~WorksOn(q, s)'
    BY <1>1, <1>2, <1>3, <1>7, <2>0, <2>2 DEF Agreeing, OnItsWay, WorksOn
  <2>3. ASSUME NEW q \in Callers, WorksOn(q, s)'
        PROVE  /\ request'[q].op = "delete" => request'[q].state = Desiring!Nothing
               /\ request'[q].pc = "drop" => request'[q].op = "delete"
    BY <1>2, <1>7, <2>0, <2>3 DEF Agreeing, WorksOn
  <2> QED
    BY <1>3, <2>0, <2>1, <2>2, <2>3 DEF Agreeing
<1> QED
  BY <1>5, <1>6

\* What a late call puts is of an excused server, and no reconcile relies on it.
LEMMA LateCallArrives ==
  ASSUME DesiredInv, NEW c \in late, Desiring!Arrives(c)
  PROVE  \A x \in Servers : Agreeing(x)'
<1> USE DEF DesiredInv, Desiring!TypeOK, Desiring!Calls
<1>1. PICK s \in Servers : s = c.server
  OBVIOUS
<1>2. /\ \A x \in Servers \ {s} : spec'[x] = spec[x]
      /\ UNCHANGED <<desiredRow, request, agent, desired, excused>>
      /\ mixed' = mixed \cup {s} /\ late' = late \ {c}
  BY <1>1 DEF Desiring!Arrives
<1>3. \A x \in Servers \ {s} : Agreeing(x)'
  BY <1>1, <1>2, UntouchedStaysSound DEF Untouched
<1>4. Agreeing(s)'
  <2>0. Agreeing(s)
    OBVIOUS
  <2>1. s \in excused' /\ s \in mixed'
    BY <1>1, <1>2, <2>0 DEF Agreeing
  <2> QED
    BY <1>2, <2>0, <2>1 DEF Agreeing, WorksOn
<1> QED
  BY <1>3, <1>4

\* The panel or the agent stops or starts, the agent asks and reconciles.
LEMMA ProcessMoves ==
  ASSUME DesiredInv, Desiring!PanelStops \/ Desiring!AgentStarts \/ Desiring!AgentStops \/ Desiring!Fetches \/ Desiring!Reconciles,
         NEW s \in Servers
  PROVE  Agreeing(s)'
<1> USE DEF DesiredInv, Desiring!TypeOK
<1>0. Agreeing(s)
  OBVIOUS
<1>1. CASE Desiring!PanelStops
  <2>1. /\ \A q \in Callers : ~WorksOn(q, s)'
        /\ s \in excused' <=> s \in excused \/ Desiring!Busy(s)
        /\ UNCHANGED <<desiredRow, spec, late, agent, desired, mixed>>
    BY <1>1 DEF Desiring!PanelStops, WorksOn, Desiring!Idle
  <2>2. Desiring!Overlaps(s)' => Desiring!Overlaps(s)
    BY <2>1 DEF Desiring!Overlaps, Desiring!Busy, WorksOn
  <2>3. ~Desiring!Overlaps(s)' => ~Desiring!Overlaps(s) \/ s \in excused'
    BY <2>1 DEF Desiring!Overlaps
  <2> QED
    BY <1>0, <2>1, <2>2, <2>3 DEF Agreeing
<1>2. CASE Desiring!AgentStarts \/ Desiring!AgentStops
  <2>1. /\ UNCHANGED <<desiredRow, spec, request, late, desired, excused, mixed>>
        /\ agent' \notin {"got", "settled"}
    BY <1>2 DEF Desiring!AgentStarts, Desiring!AgentStops
  <2> QED
    BY <1>0, <2>1 DEF Agreeing, WorksOn, OnItsWay, Desiring!Overlaps, Desiring!Busy
<1>3. CASE Desiring!Fetches
  <2>1. /\ UNCHANGED <<desiredRow, spec, request, late, excused>> /\ agent' = "got" /\ desired' = desiredRow
        /\ s \in mixed' <=> Desiring!Overlaps(s)
    BY <1>3 DEF Desiring!Fetches
  <2> QED
    BY <1>0, <2>1 DEF Agreeing, WorksOn, OnItsWay, Desiring!Overlaps, Desiring!Busy
<1>4. CASE Desiring!Reconciles
  <2>1. /\ UNCHANGED <<desiredRow, request, late, desired, mixed>> /\ agent = "got" /\ agent' = "settled"
        /\ spec'[s] = Desiring!Taken(s)
        /\ s \in excused' <=> s \in excused \cup mixed /\ (desired[s] = Desiring!Nothing \/ s \in mixed)
    BY <1>4 DEF Desiring!Reconciles
  <2>2. (Desiring!Overlaps(s)' <=> Desiring!Overlaps(s)) /\ \A q \in Callers : WorksOn(q, s)' <=> WorksOn(q, s)
    BY <2>1 DEF Desiring!Overlaps, Desiring!Busy, WorksOn
  <2>3. CASE s \in mixed
    BY <1>0, <2>1, <2>2, <2>3 DEF Agreeing
  <2>4. CASE s \notin mixed
    <3>1. ~Desiring!Overlaps(s) /\ desiredRow[s] = desired[s] /\ \A q \in Callers : ~WorksOn(q, s)
      BY <1>0, <2>1, <2>4 DEF Agreeing, Desiring!Overlaps, Desiring!Busy, WorksOn
    <3>2. \A c \in late' : c.server # s
      BY <2>1, <3>1 DEF Desiring!Overlaps
    <3>3. s \notin excused' => spec'[s] = desiredRow'[s]
      BY <1>0, <2>1, <2>4, <3>1 DEF Agreeing, Desiring!Taken
    <3>4. desiredRow'[s] # Desiring!Nothing => spec'[s] = desiredRow'[s]
      BY <2>1, <3>1 DEF Desiring!Taken
    <3> QED
      BY <2>1, <2>2, <3>1, <3>2, <3>3, <3>4 DEF Agreeing
  <2> QED
    BY <2>3, <2>4
<1> QED
  BY <1>1, <1>2, <1>3, <1>4

\* Types, and the two facts about steps and the beginning that the theorems combine.
LEMMA DesiredTypes == DesiredSizes /\ Desiring!TypeOK /\ [Desiring!Next]_(Desiring!vars) => Desiring!TypeOK'
<1> SUFFICES ASSUME DesiredSizes, Desiring!TypeOK, [Desiring!Next]_(Desiring!vars) PROVE Desiring!TypeOK'
  OBVIOUS
<1> USE DEF DesiredSizes, Desiring!States, Desiring!Nothing
<1>0. Desiring!Idle \in [op : {"none", "create", "update", "delete"}, server : Servers,
                state : Desiring!States, pc : {"idle", "call", "undo", "drop"}]
  BY DEF Desiring!Idle
<1>1. ASSUME NEW r \in Callers, NEW s \in Servers, Desiring!Create(r, s) \/ Desiring!Update(r, s) \/ Desiring!Delete(r, s)
      PROVE  Desiring!TypeOK'
  <2>1. desiredChanges' \in 1 .. MaxDesired
    BY <1>1 DEF Desiring!TypeOK, Desiring!Create, Desiring!Update, Desiring!Delete, Desiring!Change
  <2>2. \E op \in {"create", "update", "delete"}, state \in Desiring!States : Desiring!Begins(r, op, s, state)
    BY <1>1, <2>1 DEF Desiring!Create, Desiring!Update, Desiring!Delete
  <2>3. /\ request' \in [Callers -> [op : {"none", "create", "update", "delete"}, server : Servers,
                         state : Desiring!States, pc : {"idle", "call", "undo", "drop"}]]
        /\ excused' \subseteq Servers /\ mixed' \subseteq Servers
    BY <2>2 DEF Desiring!TypeOK, Desiring!Begins
  <2> QED
    BY <1>1, <2>1, <2>3 DEF Desiring!TypeOK, Desiring!Create, Desiring!Update, Desiring!Delete
<1>2. ASSUME NEW r \in Callers, Desiring!Answered(r) \/ Desiring!Undo(r) \/ Desiring!Drop(r)
      PROVE  Desiring!TypeOK'
  <2>1. request' \in [Callers -> [op : {"none", "create", "update", "delete"}, server : Servers,
                      state : Desiring!States, pc : {"idle", "call", "undo", "drop"}]]
    BY <1>0, <1>2 DEF Desiring!TypeOK, Desiring!Answered, Desiring!Undo, Desiring!Drop, Desiring!Goes, Desiring!Ends
  <2> QED
    BY <1>2, <2>1 DEF Desiring!TypeOK, Desiring!Answered, Desiring!Undo, Desiring!Drop
<1>3. ASSUME NEW r \in Callers, NEW fate \in {"lost", "handled", "late"}, Desiring!Unanswered(r, fate)
      PROVE  Desiring!TypeOK'
  <2>1. request' \in [Callers -> [op : {"none", "create", "update", "delete"}, server : Servers,
                      state : Desiring!States, pc : {"idle", "call", "undo", "drop"}]]
    BY <1>0, <1>3 DEF Desiring!TypeOK, Desiring!Unanswered, Desiring!Goes, Desiring!Ends
  <2>2. [server |-> request[r].server, state |-> request[r].state] \in Desiring!Calls
    BY DEF Desiring!TypeOK, Desiring!Calls
  <2>3. desiredTroubles' \in 0 .. MaxDesiredTroubles
    BY <1>3 DEF Desiring!TypeOK, Desiring!Unanswered, Desiring!Trouble
  <2> QED
    BY <1>3, <2>1, <2>2, <2>3 DEF Desiring!TypeOK, Desiring!Unanswered, Desiring!Excuses
<1>4. ASSUME NEW c \in late, Desiring!Arrives(c)
      PROVE  Desiring!TypeOK'
  BY <1>4 DEF Desiring!TypeOK, Desiring!Arrives, Desiring!Calls
<1>5. CASE Desiring!PanelStops
  BY <1>0, <1>5 DEF Desiring!TypeOK, Desiring!PanelStops, Desiring!Trouble
<1>6. CASE Desiring!AgentStarts \/ Desiring!AgentStops \/ Desiring!Fetches
  BY <1>6 DEF Desiring!TypeOK, Desiring!AgentStarts, Desiring!AgentStops, Desiring!Fetches, Desiring!Trouble
<1>7. CASE Desiring!Reconciles
  BY <1>7 DEF Desiring!TypeOK, Desiring!Reconciles, Desiring!Taken
<1>8. CASE UNCHANGED Desiring!vars
  BY <1>8 DEF Desiring!TypeOK, Desiring!vars
<1> QED
  BY <1>1, <1>2, <1>3, <1>4, <1>5, <1>6, <1>7, <1>8 DEF Desiring!Next

LEMMA DesiredStep == DesiredSizes /\ DesiredInv /\ [Desiring!Next]_(Desiring!vars) => DesiredInv'
<1> SUFFICES ASSUME DesiredSizes, DesiredInv, [Desiring!Next]_(Desiring!vars) PROVE \A x \in Servers : Agreeing(x)'
  BY DesiredTypes DEF DesiredInv
<1>1. ASSUME NEW r \in Callers, NEW s \in Servers, Desiring!Create(r, s) \/ Desiring!Update(r, s)
      PROVE  \A x \in Servers : Agreeing(x)'
  BY <1>1, ChangeBegins DEF Desiring!Create, Desiring!Update
<1>2. ASSUME NEW r \in Callers, NEW s \in Servers, Desiring!Delete(r, s)
      PROVE  \A x \in Servers : Agreeing(x)'
  BY <1>2, ChangeBegins DEF Desiring!Delete
<1>3. CASE UNCHANGED Desiring!vars
  BY <1>3, UntouchedStaysSound DEF DesiredInv, Untouched, Desiring!vars
<1> QED
  BY <1>1, <1>2, <1>3, CallIsAnswered, CallIsUnanswered, RowIsRemoved, LateCallArrives, ProcessMoves
  DEF Desiring!Next

LEMMA DesiredInit == DesiredSizes /\ Desiring!Init => DesiredInv
<1> SUFFICES ASSUME DesiredSizes, Desiring!Init PROVE DesiredInv
  OBVIOUS
<1>1. Desiring!TypeOK
  BY DEF DesiredSizes, Desiring!Init, Desiring!TypeOK, Desiring!Idle, Desiring!States, Desiring!Nothing
<1> QED
  BY <1>1 DEF Desiring!Init, DesiredInv, Agreeing, WorksOn, Desiring!Idle

\* With nothing under way, panel and node agree on a server that is not excused (QuietAgrees:
\* app/engine/agent.py, agent/main.py _reconcile), whatever is lost, late or stopped, for any
\* number of servers and of requests at once.
THEOREM RowAndSpecAgree ==
  ASSUME DesiredSizes
  PROVE  Desiring!Spec => []Desiring!QuietAgrees
<1>1. DesiredInv => Desiring!QuietAgrees
  BY DEF DesiredInv, Agreeing, Desiring!QuietAgrees
<1>2. DesiredInv /\ [Desiring!Next]_(Desiring!vars) => DesiredInv'
  BY DesiredStep
<1>3. Desiring!Init => DesiredInv
  BY DesiredInit
<1> QED
  BY <1>1, <1>2, <1>3, PTL DEF Desiring!Spec

\* An agent that has reconciled holds every server of the panel that nobody worked on since it
\* asked, as the panel has it (NothingMissing).
THEOREM ReconciledIsWhole ==
  ASSUME DesiredSizes
  PROVE  Desiring!Spec => []Desiring!NothingMissing
<1>1. DesiredInv => Desiring!NothingMissing
  BY DEF DesiredInv, Agreeing, Desiring!NothingMissing
<1>2. DesiredInv /\ [Desiring!Next]_(Desiring!vars) => DesiredInv'
  BY DesiredStep
<1>3. Desiring!Init => DesiredInv
  BY DesiredInit
<1> QED
  BY <1>1, <1>2, <1>3, PTL DEF Desiring!Spec

\* The two together, as the run of the panel checks them (DecisionsHold).
THEOREM NodesDoAsDecided == ASSUME DesiredSizes PROVE Desiring!Spec => []Desiring!DecisionsHold
<1>1. Desiring!QuietAgrees /\ Desiring!NothingMissing => Desiring!DecisionsHold
  BY DEF Desiring!DecisionsHold
<1> QED
  BY <1>1, RowAndSpecAgree, ReconciledIsWhole, PTL

-----------------------------------------------------------------------------
(***************************************************************************)
(* FleetPage: what a page hears, and the reading it is shown.              *)
(***************************************************************************)
\* The constants of a real panel: a page has room for an event at least.
PageSizes ==
  /\ PageQueue \in Nat \ {0} /\ MaxGets \in Nat /\ MaxNews \in Nat /\ MaxNumbers \in Nat
  /\ MaxPageTroubles \in Nat

\* A fetch that has its reading has one of after the shared one grew old; so has what is shared
\* and not marked; and nobody fetches while what is shared is fresh.
Recent ==
  /\ fence <= now /\ viewTold <= now
  /\ \A g \in Viewing!Requests : gets[g].fence <= fence
  /\ ent.fresh => ent.task = "none"
  /\ ent.task = "read" => ent.got >= fence
  /\ ent.fresh /\ ent.last.ok => ent.last.n >= fence

PageInv == Viewing!TypeOK /\ Viewing!GapsAreTold /\ Recent /\ Viewing!UnmarkedIsRecent

Notices == {"change", "numbers", "lagged"}
Streams == [open : BOOLEAN, queue : Seq(Notices), gap : BOOLEAN]
Ents == [last : Viewing!Reading, fresh : BOOLEAN, task : {"none", "asked", "read"},
         got : Viewing!States \cup {Viewing!None}]
Gets == [pc : {"none", "asked", "waits", "answer"}, fence : Viewing!States, out : Viewing!Reading]
Tabs == [shown : Viewing!Reading, due : BOOLEAN, hidden : BOOLEAN]
Budgets == [events : 0 .. MaxNumbers, troubles : 0 .. MaxPageTroubles]

LEMMA Pieces ==
  ASSUME PageSizes, PageInv
  PROVE  /\ now \in Viewing!States /\ viewTold \in 0 .. MaxNews /\ fence \in Viewing!States
         /\ ent \in Ents /\ viewStream \in Streams /\ Len(viewStream.queue) <= PageQueue
         /\ page \in Tabs /\ gets \in [Viewing!Requests -> Gets] /\ viewBudget \in Budgets
         /\ Viewing!States \subseteq Int /\ Viewing!None \in Int /\ Viewing!Unreachable \in Viewing!Reading
         /\ 0 \in Viewing!States /\ PageQueue \in Nat \ {0} /\ MaxNews \in Nat
BY DEF PageInv, Viewing!TypeOK, Ents, Streams, Notices, Tabs, Gets, Budgets, PageSizes, Viewing!States,
  Viewing!None, Viewing!Unreachable, Viewing!Reading

LEMMA Together ==
  ASSUME PageSizes,
         now' \in Viewing!States, viewTold' \in 0 .. MaxNews, fence' \in Viewing!States,
         ent' \in Ents, viewStream' \in Streams, Len(viewStream'.queue) <= PageQueue,
         page' \in Tabs, gets' \in [Viewing!Requests -> Gets], viewBudget' \in Budgets
  PROVE  Viewing!TypeOK'
BY DEF Viewing!TypeOK, Ents, Streams, Notices, Tabs, Gets, Budgets, Viewing!States, Viewing!None, Viewing!Reading

LEMMA PageBegins == ASSUME PageSizes, Viewing!Init PROVE PageInv
<1>1. now = 0 /\ viewTold = 0 /\ fence = 0 /\ viewBudget = [events |-> 0, troubles |-> 0]
  BY DEF Viewing!Init
<1>2. Viewing!Unreachable \in Viewing!Reading /\ 0 \in Viewing!States /\ Viewing!None = -1
      /\ Viewing!Unreachable.ok = FALSE
  BY DEF Viewing!Unreachable, Viewing!Reading, Viewing!States, Viewing!None, PageSizes
<1>3. ent \in Ents /\ ent.fresh = FALSE /\ ent.task = "none" /\ ent.last = Viewing!Unreachable
  BY <1>2 DEF Viewing!Init, Ents
<1>4. viewStream \in Streams /\ viewStream.gap = FALSE /\ Len(viewStream.queue) = 0
  BY DEF Viewing!Init, Streams
<1>5. page \in Tabs /\ viewBudget \in Budgets
  BY <1>1, <1>2 DEF Viewing!Init, Tabs, Budgets, PageSizes
<1>6. Viewing!NoGet \in Gets /\ Viewing!NoGet.fence = 0 /\ Viewing!NoGet.out = Viewing!Unreachable
  BY <1>2 DEF Viewing!NoGet, Gets
<1>7. gets \in [Viewing!Requests -> Gets] /\ \A g \in Viewing!Requests : gets[g] = Viewing!NoGet
  BY <1>6 DEF Viewing!Init
<1>8. Viewing!TypeOK
  BY <1>1, <1>2, <1>3, <1>4, <1>5, <1>7 DEF Viewing!TypeOK, Ents, Streams, Notices, Tabs, Gets, Budgets, PageSizes
<1>9. Viewing!GapsAreTold /\ Recent /\ Viewing!UnmarkedIsRecent
  BY <1>1, <1>2, <1>3, <1>4, <1>6, <1>7 DEF Viewing!GapsAreTold, Recent, Viewing!UnmarkedIsRecent
<1> QED
  BY <1>8, <1>9 DEF PageInv

\* An event for a full queue takes the place of what was in it, and tells of it.
LEMMA Publishing ==
  ASSUME PageSizes, PageInv, NEW kind \in Notices, viewStream' = Viewing!Published(kind)
  PROVE  viewStream' \in Streams /\ Len(viewStream'.queue) <= PageQueue /\ Viewing!GapsAreTold'
<1>1. viewStream \in Streams /\ Len(viewStream.queue) <= PageQueue /\ PageQueue \in Nat \ {0}
  BY Pieces
<1>2. CASE ~viewStream.open
  BY <1>1, <1>2 DEF Viewing!Published, PageInv, Viewing!GapsAreTold
<1>3. CASE viewStream.open /\ Len(viewStream.queue) < PageQueue
  <2>1. viewStream' = [viewStream EXCEPT !.queue = Append(@, kind)]
    BY <1>3 DEF Viewing!Published
  <2>2. viewStream.queue \in Seq(Notices) /\ Len(viewStream.queue) \in Nat
    BY <1>1 DEF Streams
  <2>3. /\ viewStream'.queue = Append(viewStream.queue, kind) /\ viewStream'.gap = viewStream.gap
        /\ viewStream' \in Streams
    <3>1. Append(viewStream.queue, kind) \in Seq(Notices)
      BY <2>2
    <3> QED
      BY <1>1, <2>1, <3>1 DEF Streams
  <2>4. /\ Len(viewStream'.queue) = Len(viewStream.queue) + 1
        /\ DOMAIN viewStream.queue = 1 .. Len(viewStream.queue)
        /\ DOMAIN viewStream'.queue = 1 .. Len(viewStream.queue) + 1
        /\ \A i \in DOMAIN viewStream.queue : viewStream'.queue[i] = viewStream.queue[i]
    BY <2>2, <2>3
  <2> QED
    BY <1>1, <1>3, <2>2, <2>3, <2>4 DEF PageInv, Viewing!GapsAreTold
<1>4. CASE viewStream.open /\ ~(Len(viewStream.queue) < PageQueue)
  <2>1. viewStream' = [viewStream EXCEPT !.queue = <<"lagged">>, !.gap = TRUE]
    BY <1>4 DEF Viewing!Published
  <2>2. <<"lagged">> \in Seq(Notices) /\ Len(<<"lagged">>) = 1 /\ DOMAIN <<"lagged">> = {1}
    BY DEF Notices
  <2>3. viewStream' \in Streams /\ viewStream'.queue = <<"lagged">>
    BY <1>1, <2>1, <2>2 DEF Streams
  <2> QED
    BY <1>1, <2>2, <2>3 DEF Viewing!GapsAreTold
<1> QED
  BY <1>2, <1>3, <1>4

LEMMA Clocks ==
  ASSUME PageSizes, PageInv
  PROVE  /\ now \in Int /\ fence \in Int /\ 0 <= fence /\ fence <= now /\ now \in 0 .. MaxNews
         /\ viewTold \in 0 .. MaxNews /\ viewTold <= now /\ MaxNews \in Nat
         /\ Viewing!States = 0 .. MaxNews
BY Pieces DEF PageInv, Recent, Viewing!States

LEMMA Shared ==
  ASSUME PageSizes, PageInv
  PROVE  /\ ent.fresh \in BOOLEAN /\ ent.last \in Viewing!Reading /\ ent.last.n \in Int /\ ent.got \in Int
         /\ ent.fresh => ent.task = "none"
         /\ ent.task = "read" => ent.got >= fence
         /\ ent.fresh /\ ent.last.ok => ent.last.n >= fence
BY Pieces DEF PageInv, Recent, Ents, Viewing!Reading, Viewing!States, Viewing!None

LEMMA OneGet ==
  ASSUME PageSizes, PageInv, NEW g \in Viewing!Requests
  PROVE  /\ gets[g] \in Gets /\ gets[g].fence \in Int /\ gets[g].out.n \in Int /\ gets[g].fence <= fence
         /\ gets[g].out.ok => gets[g].out.n >= gets[g].fence
<1>1. gets[g] \in Gets
  BY Pieces
<1>2. gets[g].fence \in Int /\ gets[g].out.n \in Int
  BY <1>1, Pieces DEF Gets, Viewing!Reading
<1>3. gets[g].fence <= fence /\ (gets[g].out.ok => gets[g].out.n >= gets[g].fence)
  BY DEF PageInv, Recent, Viewing!UnmarkedIsRecent
<1> QED
  BY <1>1, <1>2, <1>3

\* A step after which the requests are as they were, or answered with what is recent, keeps Recent.
LEMMA StaysRecent ==
  ASSUME fence' <= now', viewTold' <= now',
         \A g \in Viewing!Requests : /\ gets'[g].fence <= fence'
                                     /\ gets'[g].out.ok => gets'[g].out.n >= gets'[g].fence,
         ent'.fresh => ent'.task = "none",
         ent'.task = "read" => ent'.got >= fence',
         ent'.fresh /\ ent'.last.ok => ent'.last.n >= fence'
  PROVE  Recent' /\ Viewing!UnmarkedIsRecent'
BY DEF Recent, Viewing!UnmarkedIsRecent, Viewing!Requests

LEMMA NewsComes ==
  ASSUME PageSizes, PageInv, Viewing!Changes \/ Viewing!PanelHears \/ Viewing!NumbersCome
  PROVE  PageInv'
<1>1. /\ now' \in 0 .. MaxNews /\ now <= now' /\ viewTold' \in 0 .. MaxNews /\ viewTold' <= now'
      /\ viewBudget' \in Budgets /\ UNCHANGED <<ent, page, gets, fence>>
      /\ viewStream' = viewStream \/ \E kind \in Notices : viewStream' = Viewing!Published(kind)
  <2>1. CASE Viewing!Changes
    <3>1. /\ now < MaxNews /\ now' = now + 1
          /\ viewTold' = viewTold + 1 - 0 \/ viewTold' = viewTold + 1 - 1
      BY <2>1 DEF Viewing!Changes
    <3>2. now' \in 0 .. MaxNews /\ now <= now' /\ viewTold' <= now' /\ viewTold' \in 0 .. MaxNews
      BY <3>1, Clocks
    <3> QED
      BY <2>1, <3>2, Pieces DEF Viewing!Changes
  <2>2. CASE Viewing!PanelHears
    <3>1. viewTold > 0 /\ viewTold' = viewTold - 1 /\ UNCHANGED <<now, ent, page, gets, fence, viewBudget>>
          /\ viewStream' = Viewing!Published("change")
      BY <2>2 DEF Viewing!PanelHears
    <3>2. viewTold' \in 0 .. MaxNews /\ viewTold' <= now
      BY <3>1, Clocks
    <3> QED
      BY <3>1, <3>2, Clocks, Pieces DEF Notices
  <2>3. CASE Viewing!NumbersCome
    <3>1. /\ viewBudget.events < MaxNumbers /\ viewBudget' = [viewBudget EXCEPT !.events = @ + 1]
          /\ viewStream' = Viewing!Published("numbers") /\ UNCHANGED <<now, viewTold, ent, page, gets, fence>>
      BY <2>3 DEF Viewing!NumbersCome
    <3>2. viewBudget' \in Budgets
      BY <3>1, Pieces DEF Budgets, PageSizes
    <3> QED
      BY <3>1, <3>2, Clocks DEF Notices
  <2> QED
    BY <2>1, <2>2, <2>3
<1>2. viewStream' \in Streams /\ Len(viewStream'.queue) <= PageQueue /\ Viewing!GapsAreTold'
  BY <1>1, Pieces, Publishing DEF PageInv, Viewing!GapsAreTold
<1>3. Viewing!TypeOK'
  BY <1>1, <1>2, Pieces, Clocks, Together
<1>4. Recent' /\ Viewing!UnmarkedIsRecent'
  <2>1. fence' = fence /\ fence' <= now' /\ viewTold' <= now' /\ ent' = ent /\ gets' = gets
    BY <1>1, Clocks
  <2> QED
    BY <2>1, OneGet, Shared, StaysRecent
<1> QED
  BY <1>2, <1>3, <1>4 DEF PageInv

LEMMA Troubled ==
  ASSUME PageSizes, PageInv, Viewing!Trouble PROVE viewBudget' \in Budgets
BY Pieces DEF Viewing!Trouble, Budgets, PageSizes

\* The stream and the timers of the page change no reading.
LEMMA StreamMoves ==
  ASSUME PageSizes, PageInv, Viewing!Opens \/ Viewing!Loses \/ Viewing!Takes
  PROVE  PageInv'
<1>1. UNCHANGED <<now, viewTold, ent, gets, fence>> /\ viewBudget' \in Budgets
  BY Troubled, Pieces DEF Viewing!Opens, Viewing!Loses, Viewing!Takes
<1>2. page' \in Tabs
  BY Pieces DEF Viewing!Opens, Viewing!Loses, Viewing!Takes, Tabs
<1>3. viewStream' \in Streams /\ Len(viewStream'.queue) <= PageQueue /\ Viewing!GapsAreTold'
  <2>1. CASE Viewing!Opens \/ Viewing!Loses
    <3>1. \E open \in BOOLEAN : viewStream' = [open |-> open, queue |-> <<>>, gap |-> FALSE]
      BY <2>1 DEF Viewing!Opens, Viewing!Loses
    <3>2. viewStream' \in Streams /\ viewStream'.gap = FALSE /\ Len(viewStream'.queue) = 0
      BY <3>1 DEF Streams
    <3> QED
      BY <3>2, Pieces DEF Viewing!GapsAreTold
  <2>2. CASE Viewing!Takes
    <3>1. /\ viewStream.queue # <<>>
          /\ viewStream' = [viewStream EXCEPT !.queue = Tail(@), !.gap = @ /\ Head(viewStream.queue) # "lagged"]
      BY <2>2 DEF Viewing!Takes
    <3>2. viewStream.queue \in Seq(Notices) /\ viewStream \in Streams
      BY Pieces DEF Streams
    <3>3. /\ Tail(viewStream.queue) \in Seq(Notices) /\ Len(Tail(viewStream.queue)) = Len(viewStream.queue) - 1
          /\ \A i \in 1 .. Len(Tail(viewStream.queue)) : Tail(viewStream.queue)[i] = viewStream.queue[i + 1]
      BY <3>1, <3>2, HeadTailProperties, Zenon
    <3>4. /\ viewStream' \in Streams /\ viewStream'.queue = Tail(viewStream.queue)
          /\ viewStream'.gap => viewStream.gap /\ viewStream.queue[1] # "lagged"
      <4>1. Head(viewStream.queue) = viewStream.queue[1]
        BY <3>1, <3>2
      <4>2. (viewStream.gap /\ Head(viewStream.queue) # "lagged") \in BOOLEAN
        BY <3>2 DEF Streams
      <4>3. viewStream' \in Streams /\ viewStream'.queue = Tail(viewStream.queue)
            /\ viewStream'.gap = (viewStream.gap /\ Head(viewStream.queue) # "lagged")
        BY <3>1, <3>2, <3>3, <4>2 DEF Streams
      <4> QED
        BY <4>1, <4>3
    <3>5. /\ Len(viewStream.queue) \in Nat /\ DOMAIN viewStream.queue = 1 .. Len(viewStream.queue)
          /\ DOMAIN Tail(viewStream.queue) = 1 .. Len(viewStream.queue) - 1
      BY <3>2, <3>3, LenProperties
    <3>6. ASSUME viewStream'.gap PROVE \E i \in DOMAIN viewStream'.queue : viewStream'.queue[i] = "lagged"
      <4>1. PICK i \in 1 .. Len(viewStream.queue) : viewStream.queue[i] = "lagged"
        BY <3>4, <3>5, <3>6 DEF PageInv, Viewing!GapsAreTold
      <4>2. i - 1 \in 1 .. Len(viewStream.queue) - 1 /\ (i - 1) + 1 = i
        BY <3>4, <3>5, <3>6, <4>1
      <4>3. Tail(viewStream.queue)[i - 1] = viewStream.queue[i]
        BY <3>3, <4>2
      <4> QED
        BY <3>4, <3>5, <4>1, <4>2, <4>3
    <3>7. Len(viewStream'.queue) <= PageQueue
      BY <3>3, <3>4, <3>5, Pieces
    <3> QED
      BY <3>4, <3>6, <3>7 DEF Viewing!GapsAreTold
  <2> QED
    BY <2>1, <2>2
<1>4. Viewing!TypeOK'
  BY <1>1, <1>2, <1>3, Pieces, Together
<1>5. Recent' /\ Viewing!UnmarkedIsRecent'
  BY <1>1 DEF PageInv, Recent, Viewing!UnmarkedIsRecent
<1> QED
  BY <1>3, <1>4, <1>5 DEF PageInv

\* A request of the page: it is of now, and has nothing yet.
LEMMA Asking ==
  ASSUME PageSizes, PageInv, Viewing!Rereads \/ Viewing!Polls \/ Viewing!Turns
  PROVE  PageInv'
<1>1. UNCHANGED <<now, viewTold, ent, viewStream, fence>> /\ viewBudget' \in Budgets
  BY Troubled, Pieces DEF Viewing!Rereads, Viewing!Polls, Viewing!Turns
<1>2. page' \in Tabs
  BY Pieces DEF Viewing!Rereads, Viewing!Polls, Viewing!Turns, Tabs
<1>3. gets' = gets \/ \E g \in Viewing!Requests :
        gets' = [gets EXCEPT ![g] = [pc |-> "asked", fence |-> fence, out |-> Viewing!Unreachable]]
  BY DEF Viewing!Rereads, Viewing!Polls, Viewing!Turns, Viewing!Asks
<1>4. [pc |-> "asked", fence |-> fence, out |-> Viewing!Unreachable] \in Gets
  BY Pieces DEF Gets
<1>5. gets' \in [Viewing!Requests -> Gets]
  BY <1>3, <1>4, Pieces
<1>6. \A g \in Viewing!Requests : /\ gets'[g].fence <= fence
                                  /\ gets'[g].out.ok => gets'[g].out.n >= gets'[g].fence
  <2> SUFFICES ASSUME NEW h \in Viewing!Requests
               PROVE  gets'[h].fence <= fence /\ (gets'[h].out.ok => gets'[h].out.n >= gets'[h].fence)
    OBVIOUS
  <2>1. gets'[h] = gets[h] \/ gets'[h] = [pc |-> "asked", fence |-> fence, out |-> Viewing!Unreachable]
    BY <1>3, Pieces
  <2>2. Viewing!Unreachable.ok = FALSE
    BY DEF Viewing!Unreachable
  <2> QED
    BY <2>1, <2>2, OneGet, Clocks
<1>7. Viewing!TypeOK'
  BY <1>1, <1>2, <1>5, Pieces, Together
<1>8. Recent' /\ Viewing!UnmarkedIsRecent'
  BY <1>1, <1>6, Clocks, Shared, StaysRecent
<1> QED
  BY <1>1, <1>7, <1>8 DEF PageInv, Viewing!GapsAreTold

\* agent_api.py: what is fresh is given at once, and otherwise whoever waits has the one fetch.
LEMMA Asks ==
  ASSUME PageSizes, PageInv, Viewing!StatsAsked
  PROVE  PageInv'
<1>1. PICK g \in Viewing!Requests :
        /\ gets[g].pc = "asked"
        /\ gets' = [gets EXCEPT ![g].pc = IF ent.fresh THEN "answer" ELSE "waits",
                                ![g].out = IF ent.fresh THEN ent.last ELSE @]
        /\ ent' = IF ent.fresh \/ ent.task # "none" THEN ent ELSE [ent EXCEPT !.task = "asked"]
        /\ UNCHANGED <<now, viewTold, viewStream, page, fence, viewBudget>>
  BY DEF Viewing!StatsAsked
<1>2. /\ gets' \in [Viewing!Requests -> Gets] /\ gets'[g].fence = gets[g].fence
      /\ gets'[g].out = IF ent.fresh THEN ent.last ELSE gets[g].out
      /\ \A h \in Viewing!Requests : h # g => gets'[h] = gets[h]
  BY ZenonT(40), <1>1, Pieces, Shared, OneGet DEF Gets
<1>3. /\ ent' \in Ents /\ ent'.fresh = ent.fresh /\ ent'.last = ent.last /\ ent'.got = ent.got
      /\ ent'.fresh => ent'.task = "none"
      /\ ent'.task = "read" => ent.task = "read"
  BY <1>1, Pieces DEF Ents, PageInv, Recent
<1>5. \A h \in Viewing!Requests : /\ gets'[h].fence <= fence
                                  /\ gets'[h].out.ok => gets'[h].out.n >= gets'[h].fence
  <2>1. gets'[g].out.ok => gets'[g].out.n >= gets'[g].fence
    <3>1. CASE ent.fresh
      BY <3>1, <1>2, Shared, OneGet, Clocks
    <3>2. CASE ~ent.fresh
      BY <3>2, <1>2, OneGet
    <3> QED
      BY <3>1, <3>2
  <2> QED
    BY <1>2, <2>1, OneGet
<1>6. Viewing!TypeOK'
  BY <1>1, <1>2, <1>3, Pieces, Together
<1>7. Recent' /\ Viewing!UnmarkedIsRecent'
  BY <1>1, <1>3, <1>5, Clocks, Shared, StaysRecent
<1> QED
  BY <1>1, <1>6, <1>7 DEF PageInv, Viewing!GapsAreTold

LEMMA Reads ==
  ASSUME PageSizes, PageInv, Viewing!NodeReads \/ Viewing!GrowsOld \/ Viewing!Powers
  PROVE  PageInv'
<1>1. UNCHANGED <<now, viewTold, page, gets>> /\ viewBudget' \in Budgets
  BY Troubled, Pieces DEF Viewing!NodeReads, Viewing!GrowsOld, Viewing!Powers
<1>2. viewStream' \in Streams /\ Len(viewStream'.queue) <= PageQueue /\ Viewing!GapsAreTold'
  <2>1. CASE Viewing!Powers
    BY <2>1, Publishing DEF Viewing!Powers, Notices
  <2>2. CASE ~Viewing!Powers
    <3>1. UNCHANGED viewStream
      BY <2>2 DEF Viewing!NodeReads, Viewing!GrowsOld
    <3> QED
      BY <3>1, Pieces DEF PageInv, Viewing!GapsAreTold
  <2> QED
    BY <2>1, <2>2
<1>3. CASE Viewing!NodeReads
  <2>1. ent.task = "asked" /\ ent' = [ent EXCEPT !.task = "read", !.got = now] /\ UNCHANGED fence
    BY <1>3 DEF Viewing!NodeReads
  <2>2. /\ ent' \in Ents /\ ent'.fresh = ent.fresh /\ ent'.last = ent.last /\ ent'.got = now /\ ~ent.fresh
    BY <2>1, Pieces DEF Ents, PageInv, Recent
  <2>3. Viewing!TypeOK'
    BY <1>1, <1>2, <2>1, <2>2, Pieces, Together
  <2>4. now >= fence /\ fence <= now
    BY Clocks
  <2>5. Recent' /\ Viewing!UnmarkedIsRecent'
    BY <1>1, <2>1, <2>2, <2>4, Clocks, OneGet, StaysRecent
  <2> QED
    BY <1>2, <2>3, <2>5 DEF PageInv
<1>4. CASE Viewing!GrowsOld
  <2>1. ent.fresh /\ ent' = [ent EXCEPT !.fresh = FALSE] /\ fence' = now
    BY <1>4 DEF Viewing!GrowsOld
  <2>2. ent' \in Ents /\ ent'.fresh = FALSE /\ ent'.task = "none"
    BY <2>1, Pieces DEF Ents, PageInv, Recent
  <2>3. Viewing!TypeOK'
    BY <1>1, <1>2, <2>1, <2>2, Pieces, Together
  <2>4. \A g \in Viewing!Requests : gets[g].fence <= now
    BY Clocks, OneGet
  <2>5. now <= now
    BY Clocks
  <2>6. Recent' /\ Viewing!UnmarkedIsRecent'
    BY <1>1, <2>1, <2>2, <2>4, <2>5, Clocks, OneGet, StaysRecent
  <2> QED
    BY <1>2, <2>3, <2>6 DEF PageInv
<1>5. CASE Viewing!Powers
  <2>1. ent' = [ent EXCEPT !.fresh = FALSE] /\ UNCHANGED fence
    BY <1>5 DEF Viewing!Powers
  <2>2. ent' \in Ents /\ ent'.fresh = FALSE /\ ent'.task = ent.task /\ ent'.got = ent.got
    BY <2>1, Pieces DEF Ents
  <2>3. Viewing!TypeOK'
    BY <1>1, <1>2, <2>1, <2>2, Pieces, Together
  <2> QED
    BY <1>1, <1>2, <2>1, <2>2, <2>3 DEF PageInv, Recent, Viewing!UnmarkedIsRecent
<1> QED
  BY <1>3, <1>4, <1>5

\* Whoever waited has the outcome of the fetch: a reading of after they came, or a marked one.
LEMMA Ending ==
  ASSUME PageSizes, PageInv, NEW reading \in Viewing!Reading, Viewing!Ends(reading),
         viewBudget' \in Budgets, reading.ok => reading.n >= fence
  PROVE  PageInv'
<1>1. /\ ent' = [last |-> reading, fresh |-> TRUE, task |-> "none", got |-> Viewing!None]
      /\ gets' = [g \in Viewing!Requests |->
            IF gets[g].pc = "waits" THEN [gets[g] EXCEPT !.pc = "answer", !.out = reading] ELSE gets[g]]
      /\ UNCHANGED <<now, viewTold, viewStream, page, fence>>
  BY DEF Viewing!Ends
<1>2. ent' \in Ents /\ ent'.fresh = TRUE /\ ent'.task = "none" /\ ent'.last = reading
  BY <1>1 DEF Ents
<1>3. \A g \in Viewing!Requests : /\ gets'[g] \in Gets /\ gets'[g].fence = gets[g].fence
                                  /\ gets'[g].out \in {reading, gets[g].out}
  BY <1>1, OneGet DEF Gets
<1>4. gets' \in [Viewing!Requests -> Gets]
  BY <1>1, <1>3
<1>5. reading.n \in Int
  BY Pieces DEF Viewing!Reading
<1>6. \A g \in Viewing!Requests : /\ gets'[g].fence <= fence
                                  /\ gets'[g].out.ok => gets'[g].out.n >= gets'[g].fence
  <2> SUFFICES ASSUME NEW g \in Viewing!Requests
               PROVE  gets'[g].fence <= fence /\ (gets'[g].out.ok => gets'[g].out.n >= gets'[g].fence)
    OBVIOUS
  <2>1. CASE gets'[g].out = reading
    BY <2>1, <1>3, <1>5, OneGet, Clocks
  <2>2. CASE gets'[g].out = gets[g].out
    BY <2>2, <1>3, OneGet
  <2> QED
    BY <1>3, <2>1, <2>2
<1>7. Viewing!TypeOK'
  BY <1>1, <1>2, <1>4, Pieces, Together
<1>8. Recent' /\ Viewing!UnmarkedIsRecent'
  BY <1>1, <1>2, <1>6, Clocks, StaysRecent
<1> QED
  BY <1>1, <1>7, <1>8 DEF PageInv, Viewing!GapsAreTold

LEMMA Fetched ==
  ASSUME PageSizes, PageInv, Viewing!FetchEnds \/ Viewing!FetchFails
  PROVE  PageInv'
<1>1. CASE Viewing!FetchEnds
  <2>1. ent.task = "read" /\ Viewing!Ends([n |-> ent.got, ok |-> TRUE]) /\ UNCHANGED viewBudget
    BY <1>1 DEF Viewing!FetchEnds
  <2>2. [n |-> ent.got, ok |-> TRUE] \in Viewing!Reading /\ ent.got >= fence
    BY <2>1, Pieces DEF Ents, Viewing!Reading, PageInv, Recent
  <2> QED
    BY <2>1, <2>2, Pieces, Ending
<1>2. CASE Viewing!FetchFails
  <2>1. Viewing!Ends([ent.last EXCEPT !.ok = FALSE]) /\ viewBudget' \in Budgets
    BY <1>2, Troubled DEF Viewing!FetchFails
  <2>2. [ent.last EXCEPT !.ok = FALSE] \in Viewing!Reading /\ ~[ent.last EXCEPT !.ok = FALSE].ok
    BY Shared DEF Viewing!Reading
  <2> QED
    BY <2>1, <2>2, Ending
<1> QED
  BY <1>1, <1>2

LEMMA Showing ==
  ASSUME PageSizes, PageInv, Viewing!WaitsTooLong \/ Viewing!Shows
  PROVE  PageInv'
<1>1. PICK g \in Viewing!Requests :
        /\ UNCHANGED <<now, viewTold, ent, viewStream, fence>>
        /\ viewBudget' \in Budgets
        /\ \/ gets' = [gets EXCEPT ![g].pc = "answer"] /\ page' = page
           \/ gets' = [gets EXCEPT ![g] = Viewing!NoGet] /\ page' = [page EXCEPT !.shown = gets[g].out]
  BY Troubled, Pieces DEF Viewing!WaitsTooLong, Viewing!Shows
<1>2. /\ Viewing!NoGet \in Gets /\ Viewing!NoGet.fence = 0 /\ Viewing!NoGet.out.ok = FALSE
  BY Pieces DEF Viewing!NoGet, Gets, Viewing!Unreachable
<1>3. /\ gets' \in [Viewing!Requests -> Gets] /\ page' \in Tabs
      /\ \A h \in Viewing!Requests : h # g => gets'[h] = gets[h]
      /\ gets'[g] = Viewing!NoGet \/ (gets'[g].fence = gets[g].fence /\ gets'[g].out = gets[g].out)
  <2>1. gets[g] \in Gets /\ gets[g].out \in Viewing!Reading
    BY OneGet DEF Gets
  <2>2. CASE gets' = [gets EXCEPT ![g].pc = "answer"] /\ page' = page
    BY <2>1, <2>2, Pieces DEF Gets
  <2>3. CASE gets' = [gets EXCEPT ![g] = Viewing!NoGet] /\ page' = [page EXCEPT !.shown = gets[g].out]
    BY <1>2, <2>1, <2>3, Pieces DEF Tabs
  <2> QED
    BY <1>1, <2>2, <2>3
<1>4. 0 <= fence
  BY Clocks
<1>5. \A h \in Viewing!Requests : /\ gets'[h].fence <= fence
                                  /\ gets'[h].out.ok => gets'[h].out.n >= gets'[h].fence
  <2> SUFFICES ASSUME NEW h \in Viewing!Requests
               PROVE  gets'[h].fence <= fence /\ (gets'[h].out.ok => gets'[h].out.n >= gets'[h].fence)
    OBVIOUS
  <2>1. CASE gets'[h] = Viewing!NoGet
    BY <2>1, <1>2, <1>4
  <2>2. CASE gets'[h].fence = gets[h].fence /\ gets'[h].out = gets[h].out
    BY <2>2, OneGet
  <2> QED
    BY <1>3, <2>1, <2>2
<1>6. Viewing!TypeOK'
  BY <1>1, <1>3, Pieces, Together
<1>7. Recent' /\ Viewing!UnmarkedIsRecent'
  BY <1>1, <1>5, Clocks, Shared, StaysRecent
<1> QED
  BY <1>1, <1>6, <1>7 DEF PageInv, Viewing!GapsAreTold

LEMMA PageSteps == ASSUME PageSizes, PageInv, [Viewing!Next]_(Viewing!vars) PROVE PageInv'
<1>1. CASE UNCHANGED Viewing!vars
  BY <1>1 DEF Viewing!vars, PageInv, Viewing!TypeOK, Viewing!GapsAreTold, Recent, Viewing!UnmarkedIsRecent
<1>2. CASE Viewing!Next
  BY <1>2, NewsComes, StreamMoves, Asking, Asks, Reads, Fetched, Showing
    DEF Viewing!Next, Viewing!Panel, Viewing!Page
<1> QED
  BY <1>1, <1>2

\* fleetbus.py, agent_api.py: a page whose queue ran over is told so before it believes it has heard all,
\* and a reading that is not marked is of after the time when the shared one last grew old.
THEOREM PageIsTold == ASSUME PageSizes PROVE Viewing!Spec => []Viewing!PagesAreTrue
<1>1. PageInv => Viewing!PagesAreTrue
  BY DEF PageInv, Viewing!PagesAreTrue
<1> QED
  BY <1>1, PageBegins, PageSteps, PTL DEF Viewing!Spec


(***************************************************************************)
(* JobsClient: the end of a job, its log and its card, over a stream that  *)
(* is lost and taken up again.                                             *)
(***************************************************************************)
\* The constants of a real page: it keeps as many lines as a snapshot brings, and as a card shows.
JobSizes ==
  /\ QueueMax \in Nat /\ LogKept \in Nat /\ LogSent \in 1 .. LogKept /\ LogInDom \in 0 .. LogKept
  /\ MaxLogged \in Nat /\ MaxJobTroubles \in Nat

Logged == 1 .. (MaxLogged + 1)
Records == [there : BOOLEAN, status : Job!Statuses, log : Seq(Logged), total : Nat, epoch : Nat,
            result : BOOLEAN]
Cards == [epoch : Int, seen : Nat, dom : Seq(Logged)]

\* The lines of s come one after the other, without a hole unless holes are excused.
Rising(s, holes) ==
  \A i \in DOMAIN s : i > 1 => s[i] > s[i - 1] /\ (holes \/ s[i] = s[i - 1] + 1)
\* The line s ends with.
End(s) == IF s = <<>> THEN 0 ELSE s[Len(s)]

\* The line that the first frame of a stream comes after.
Base == IF jobFrames # <<>> /\ jobFrames[1].snap THEN End(jobFrames[1].log) ELSE End(rec.log)

\* What is on its way to the page goes on where its log will be by then, up to the job's last line,
\* unless the queue ran over; and a frame of the end is of the end the job came to.
StreamHolds ==
  /\ \A i \in DOMAIN jobFrames :
       /\ jobFrames[i].snap => i = 1 /\ jobFrames[i].line = 0 /\ Rising(jobFrames[i].log, FALSE)
                               /\ Len(jobFrames[i].log) <= LogSent
       /\ jobFrames[i].status \in Job!Terminal
            => jobFrames[i].status = status /\ (status = "done" => jobFrames[i].result)
       /\ jobFrames[i].line # 0 =>
            /\ Base < jobFrames[i].line /\ jobFrames[i].line <= jobLines
            /\ \A j \in 1 .. i - 1 : jobFrames[j].line < jobFrames[i].line
            /\ \/ overran \/ jobFrames[i].line = Base + 1
               \/ \E j \in 1 .. i - 1 : jobFrames[j].line = jobFrames[i].line - 1
  /\ Base <= jobLines
  /\ overran \/ jobLines = Base \/ \E i \in DOMAIN jobFrames : jobFrames[i].line = jobLines

\* The truth that was asked for: of the job as it was, and only ever about its end if that came.
AskedHolds ==
  jobAsked # <<>> =>
    /\ conn = "asking" /\ Len(jobAsked) = 1
    /\ Rising(jobAsked[1].log, FALSE) /\ Len(jobAsked[1].log) <= LogSent
    /\ jobAsked[1].snap
    /\ jobAsked[1].status \in Job!Terminal
         => jobAsked[1].status = status /\ (status = "done" => jobAsked[1].result)

\* Who waits is told once, at the end of the stream, and contact is lost before it is given up.
EndHolds ==
  /\ ends # <<>> => conn = "closed"
  /\ Len(ends) <= 1
  /\ \A i \in DOMAIN ends :
       /\ ends[i].status \in Job!Terminal
       /\ IF ends[i].status = "error" THEN status = "error" \/ jobTroubles > 1
          ELSE ends[i].status = status /\ (status = "done" => ends[i].result)
  /\ conn \in {"lost", "asking"} => jobTroubles > 0
  /\ conn = "asking" => rec.status = "running"

\* A card of this log shows the log's end as it was when it was painted.
CardShows(v, log, total) ==
  /\ v.seen <= total
  /\ Len(v.dom) = Job!Least(v.seen, LogInDom)
  /\ \A k \in 0 .. Len(v.dom) - 1 :
       k < Len(log) - (total - v.seen) => v.dom[Len(v.dom) - k] = log[Len(log) - (total - v.seen) - k]
CardHolds == view.epoch = rec.epoch => CardShows(view, rec.log, rec.total)

Held ==
  /\ Job!TypeOK /\ rec \in Records /\ view \in Cards
  /\ status \notin Job!Terminal => jobLines <= MaxLogged
  /\ Rising(rec.log, overran) /\ Len(rec.log) = Job!Least(rec.total, LogKept)
  /\ view.epoch <= rec.epoch
JobInv ==
  /\ Held /\ AskedHolds /\ EndHolds /\ CardHolds
  /\ conn = "open" => StreamHolds
  /\ conn # "open" => jobFrames = <<>>

LEMMA NewestOf ==
  ASSUME NEW S, NEW s \in Seq(S), NEW n \in Nat
  PROVE  /\ Job!Newest(s, n) \in Seq(S)
         /\ Len(Job!Newest(s, n)) = Job!Least(Len(s), n)
         /\ \A i \in 1 .. Len(Job!Newest(s, n)) :
              Job!Newest(s, n)[i] = s[Len(s) - Len(Job!Newest(s, n)) + i]
<1>1. Len(s) \in Nat /\ \A i \in 1 .. Len(s) : s[i] \in S
  BY LenProperties, ElementOfSeq
<1>2. CASE Len(s) > n
  <2>1. Job!Newest(s, n) = SubSeq(s, Len(s) - n + 1, Len(s))
    BY <1>2 DEF Job!Newest
  <2>2. \A i \in Len(s) - n + 1 .. Len(s) : s[i] \in S
    BY <1>1, <1>2
  <2>3. /\ SubSeq(s, Len(s) - n + 1, Len(s)) \in Seq(S)
        /\ Len(SubSeq(s, Len(s) - n + 1, Len(s)))
             = IF Len(s) - n + 1 <= Len(s) THEN Len(s) - (Len(s) - n + 1) + 1 ELSE 0
        /\ \A i \in 1 .. Len(s) - (Len(s) - n + 1) + 1 :
             SubSeq(s, Len(s) - n + 1, Len(s))[i] = s[Len(s) - n + 1 + i - 1]
    BY <1>1, <1>2, <2>2, SubSeqProperties
  <2>4. Len(SubSeq(s, Len(s) - n + 1, Len(s))) = n
    BY <1>1, <2>3
  <2> QED
    BY <1>1, <1>2, <2>1, <2>3, <2>4 DEF Job!Least
<1>3. CASE ~(Len(s) > n)
  BY <1>1, <1>3 DEF Job!Newest, Job!Least
<1> QED
  BY <1>2, <1>3

\* A snapshot brings the end of the log, as whole as the log is.
LEMMA SnapshotIs ==
  ASSUME JobSizes, NEW st \in Job!Statuses, NEW n \in 0 .. (MaxLogged + 1)
  PROVE  /\ Job!Snapshot(st, n) \in Job!Frames
         /\ Job!Snapshot(st, n).status = st /\ Job!Snapshot(st, n).line = 0 /\ Job!Snapshot(st, n).snap
         /\ Job!Snapshot(st, n).result = (st = "done")
         /\ Job!Snapshot(st, n).log \in Seq(Logged)
         /\ Rising(Job!Snapshot(st, n).log, FALSE) /\ Len(Job!Snapshot(st, n).log) <= LogSent
         /\ End(Job!Snapshot(st, n).log) = n
<1> DEFINE all == [i \in 1 .. n |-> i]
           log == Job!Newest(all, LogSent)
<1>1. all \in Seq(Logged) /\ Len(all) = n
  BY DEF JobSizes, Logged
<1>2. /\ log \in Seq(Logged) /\ Len(log) = Job!Least(n, LogSent)
      /\ \A i \in 1 .. Len(log) : log[i] = all[n - Len(log) + i]
  <2> HIDE DEF all
  <2>1. LogSent \in Nat
    BY DEF JobSizes
  <2> QED
    BY <1>1, <2>1, NewestOf, Zenon
<1>3. Len(log) \in Nat /\ Len(log) <= n /\ Len(log) <= LogSent /\ (n > 0 => Len(log) > 0)
  BY <1>2 DEF Job!Least, JobSizes
<1>4. \A i \in 1 .. Len(log) : log[i] = n - Len(log) + i
  BY <1>2, <1>3
<1>5. Rising(log, FALSE)
  <2>1. \A i \in 1 .. Len(log) : i > 1 => log[i] > log[i - 1] /\ log[i] = log[i - 1] + 1
    BY <1>3, <1>4
  <2> QED
    BY <1>2, <2>1 DEF Rising
<1>6. End(log) = n
  <2>1. CASE n = 0
    BY <2>1, <1>2, <1>3, EmptySeq DEF End
  <2>2. CASE n > 0
    BY <2>2, <1>3, <1>4 DEF End
  <2> QED
    BY <2>1, <2>2
<1> HIDE DEF log
<1>7. Job!Snapshot(st, n) = [status |-> st, line |-> 0, log |-> log, snap |-> TRUE, result |-> st = "done"]
  BY DEF Job!Snapshot, log
<1>8. Job!Snapshot(st, n) \in Job!Frames
  <2>1. 0 \in 0 .. (MaxLogged + 1) /\ (st = "done") \in BOOLEAN /\ log \in Seq(1 .. (MaxLogged + 1))
    BY <1>2 DEF JobSizes, Logged
  <2> QED
    BY <2>1, <1>7 DEF Job!Frames
<1>9. /\ Job!Snapshot(st, n).status = st /\ Job!Snapshot(st, n).line = 0 /\ Job!Snapshot(st, n).snap
      /\ Job!Snapshot(st, n).result = (st = "done") /\ Job!Snapshot(st, n).log = log
  BY <1>7
<1> QED
  BY <1>2, <1>3, <1>5, <1>6, <1>8, <1>9
LEMMA EndIs ==
  ASSUME JobSizes, NEW s \in Seq(Logged)
  PROVE  End(s) \in Nat
<1>1. CASE s = <<>>
  BY <1>1 DEF End
<1>2. CASE s # <<>>
  <2>1. Len(s) \in 1 .. Len(s) /\ s[Len(s)] \in Logged
    BY <1>2, EmptySeq, LenProperties, ElementOfSeq
  <2> QED
    BY <1>2, <2>1 DEF End, Logged, JobSizes
<1> QED
  BY <1>1, <1>2

LEMMA JobBegins == ASSUME JobSizes, Job!Init PROVE JobInv
<1>1. /\ status \in {"pending", "running"} /\ jobLines = 0 /\ conn = "open" /\ overran = FALSE /\ jobAsked = <<>>
      /\ jobFrames = <<Job!Snapshot(status, 0)>> /\ ends = <<>> /\ jobTroubles = 0
      /\ rec = [there |-> TRUE, status |-> "running", log |-> <<>>, total |-> 0, epoch |-> 0, result |-> FALSE]
      /\ view = [epoch |-> -1, seen |-> 0, dom |-> <<>>]
  BY DEF Job!Init
<1>2. status \in Job!Statuses /\ status \notin Job!Terminal /\ 0 \in 0 .. (MaxLogged + 1)
  BY <1>1 DEF Job!Statuses, Job!Terminal, JobSizes
<1> DEFINE snap == Job!Snapshot(status, 0)
<1>3. /\ snap \in Job!Frames /\ snap.status = status /\ snap.line = 0 /\ snap.snap
      /\ Rising(snap.log, FALSE) /\ Len(snap.log) <= LogSent /\ End(snap.log) = 0
  BY <1>2, SnapshotIs
<1> HIDE DEF snap
<1>4. /\ jobFrames \in Seq(Job!Frames) /\ Len(jobFrames) = 1 /\ DOMAIN jobFrames = 1 .. 1
      /\ jobFrames[1] = snap /\ jobFrames # <<>>
  BY <1>1, <1>3 DEF snap
<1>5. StreamHolds
  <2>1. Base = 0
    BY <1>3, <1>4 DEF Base
  <2> QED
    <3>1. \A i \in DOMAIN jobFrames : i = 1
      BY <1>4
    <3>2. /\ jobFrames[1].status \notin Job!Terminal /\ jobFrames[1].line = 0
          /\ Rising(jobFrames[1].log, FALSE) /\ Len(jobFrames[1].log) <= LogSent
      BY <1>2, <1>3, <1>4, Zenon
    <3>3. Base <= jobLines /\ jobLines = Base
      BY <2>1, <1>1
    <3> QED
      BY <3>1, <3>2, <3>3, Zenon DEF StreamHolds
<1>6. /\ rec \in Records /\ view \in Cards /\ Len(rec.log) = 0 /\ rec.total = 0 /\ rec.log = <<>>
      /\ view.epoch = -1 /\ rec.epoch = 0 /\ view.dom = <<>> /\ view.seen = 0 /\ rec.status = "running"
  <2>1. <<>> \in Seq(Logged) /\ "running" \in Job!Statuses /\ -1 \in Int
    BY EmptySeq DEF Job!Statuses
  <2> QED
    BY <2>1, <1>1 DEF Records, Cards
<1>7. Held
  <2>1. Job!TypeOK
    <3>1. jobLines \in 0 .. (MaxLogged + 1) /\ jobTroubles \in 0 .. MaxJobTroubles
      BY <1>1, <1>2 DEF JobSizes
    <3>2. rec.log \in Seq(1 .. (MaxLogged + 1)) /\ Len(rec.log) <= LogKept /\ rec.status \in Job!Statuses
      BY <1>6 DEF Records, JobSizes, Logged
    <3>3. {rec.there, rec.result} \subseteq BOOLEAN /\ rec.total \in Nat /\ rec.epoch \in Nat
      BY <1>6 DEF Records
    <3>4. view.epoch \in Int /\ view.seen \in Nat /\ Len(view.dom) <= LogInDom
      BY <1>6 DEF JobSizes
    <3>5. jobAsked \in Seq(Job!Frames) /\ ends \in Seq([status : Job!Statuses, result : BOOLEAN])
      BY <1>1, EmptySeq
    <3> QED
      BY <1>1, <1>2, <1>4, <3>1, <3>2, <3>3, <3>4, <3>5 DEF Job!TypeOK
  <2>2. Rising(rec.log, overran)
    BY <1>6 DEF Rising
  <2> QED
    BY <2>1, <2>2, <1>1, <1>6 DEF Held, Job!Least, JobSizes
<1>8. AskedHolds /\ EndHolds /\ CardHolds
  BY <1>1, <1>6 DEF AskedHolds, EndHolds, CardHolds, CardShows
<1> QED
  BY <1>1, <1>5, <1>7, <1>8 DEF JobInv

\* What the other lemmas need to know of the types.
LEMMA JobTypes ==
  ASSUME JobSizes, JobInv
  PROVE  /\ jobLines \in Nat /\ MaxLogged \in Nat /\ jobLines \in 0 .. (MaxLogged + 1) /\ status \in Job!Statuses
         /\ jobFrames \in Seq(Job!Frames) /\ Len(jobFrames) \in Nat /\ DOMAIN jobFrames = 1 .. Len(jobFrames)
         /\ \A i \in 1 .. Len(jobFrames) : jobFrames[i] \in Job!Frames /\ jobFrames[i].line \in Nat
         /\ rec.log \in Seq(Logged) /\ Len(rec.log) \in Nat /\ DOMAIN rec.log = 1 .. Len(rec.log)
         /\ \A i \in 1 .. Len(rec.log) : rec.log[i] \in Logged /\ rec.log[i] \in Nat \ {0}
         /\ End(rec.log) \in Nat /\ overran \in BOOLEAN
         /\ rec.total \in Nat /\ rec.epoch \in Nat /\ view.epoch \in Int /\ view.seen \in Nat
         /\ view.dom \in Seq(Logged) /\ jobAsked \in Seq(Job!Frames) /\ LogKept \in Nat \ {0} /\ LogSent <= LogKept
         /\ LogSent \in Nat \ {0} /\ LogInDom \in Nat /\ LogInDom <= LogKept /\ jobTroubles \in Nat
<1>1. Job!TypeOK /\ rec \in Records /\ view \in Cards
  BY DEF JobInv, Held
<1>2. /\ jobLines \in Nat /\ MaxLogged \in Nat /\ jobLines \in 0 .. (MaxLogged + 1) /\ status \in Job!Statuses
      /\ jobFrames \in Seq(Job!Frames) /\ jobAsked \in Seq(Job!Frames) /\ overran \in BOOLEAN
      /\ jobTroubles \in Nat
  BY <1>1 DEF Job!TypeOK, JobSizes
<1>3. /\ rec.log \in Seq(Logged) /\ rec.total \in Nat /\ rec.epoch \in Nat /\ view.epoch \in Int /\ view.seen \in Nat
      /\ view.dom \in Seq(Logged)
  BY <1>1 DEF Records, Cards
<1>4. /\ LogKept \in Nat \ {0} /\ LogSent <= LogKept /\ LogSent \in Nat \ {0} /\ LogInDom \in Nat /\ LogInDom <= LogKept
  BY DEF JobSizes
<1>5. /\ Len(jobFrames) \in Nat /\ DOMAIN jobFrames = 1 .. Len(jobFrames)
      /\ Len(rec.log) \in Nat /\ DOMAIN rec.log = 1 .. Len(rec.log)
  BY <1>2, <1>3, LenProperties
<1>6. \A i \in 1 .. Len(jobFrames) : jobFrames[i] \in Job!Frames /\ jobFrames[i].line \in Nat
  <2>1. \A f \in Job!Frames : f.line \in Nat
    BY <1>2 DEF Job!Frames
  <2>2. \A i \in 1 .. Len(jobFrames) : jobFrames[i] \in Job!Frames
    BY <1>2, <1>5, ElementOfSeq
  <2> QED
    BY <2>1, <2>2
<1>7. \A i \in 1 .. Len(rec.log) : rec.log[i] \in Logged /\ rec.log[i] \in Nat \ {0}
  BY <1>2, <1>3, <1>5 DEF Logged
<1>8. End(rec.log) \in Nat
  <2>1. CASE Len(rec.log) = 0
    BY <2>1, <1>3, EmptySeq DEF End
  <2>2. CASE Len(rec.log) # 0
    BY <2>2, <1>5, <1>7 DEF End
  <2> QED
    BY <2>1, <2>2
<1> QED
  BY <1>2, <1>3, <1>4, <1>5, <1>6, <1>7, <1>8

\* put_nowait: as much goes into the queue as has room, and what has none is known to be missing.
LEMMA EmitsIs ==
  ASSUME JobSizes, JobInv, NEW fs \in Seq(Job!Frames), Len(fs) \in 1 .. 2, Job!Emits(fs), conn = "open"
  PROVE  \E m \in 0 .. Len(fs) :
           /\ jobFrames' \in Seq(Job!Frames) /\ Len(jobFrames') = Len(jobFrames) + m
           /\ DOMAIN jobFrames' = 1 .. Len(jobFrames) + m
           /\ \A i \in 1 .. Len(jobFrames) : jobFrames'[i] = jobFrames[i]
           /\ \A i \in 1 .. m : jobFrames'[Len(jobFrames) + i] = fs[i]
           /\ m < Len(fs) => overran'
           /\ overran' \in BOOLEAN
           /\ overran => overran'
<1>0. /\ jobFrames \in Seq(Job!Frames) /\ Len(jobFrames) \in Nat /\ DOMAIN jobFrames = 1 .. Len(jobFrames)
      /\ overran \in BOOLEAN
  BY JobTypes
<1>1. Job!Queued \in Int
  BY <1>0 DEF Job!Queued
<1> DEFINE room == QueueMax - Job!Queued
           m == IF Len(fs) < room THEN Len(fs) ELSE IF room < 0 THEN 0 ELSE room
<1>2. room \in Int /\ m \in 0 .. Len(fs) /\ (m < Len(fs) => room < Len(fs))
  BY <1>1 DEF JobSizes
<1>3. /\ jobFrames' = jobFrames \o SubSeq(fs, 1, IF Len(fs) < room THEN Len(fs) ELSE room)
      /\ overran' = (overran \/ room < Len(fs))
  BY DEF Job!Emits
<1> DEFINE sent == SubSeq(fs, 1, IF Len(fs) < room THEN Len(fs) ELSE room)
<1>4. sent \in Seq(Job!Frames) /\ Len(sent) = m /\ \A i \in 1 .. m : sent[i] = fs[i]
  BY <1>2, LenProperties
<1>9. m \in Nat /\ m <= Len(fs)
  BY <1>2
<1> HIDE DEF room, m, sent
<1>5. /\ jobFrames' \in Seq(Job!Frames) /\ Len(jobFrames') = Len(jobFrames) + m
      /\ DOMAIN jobFrames' = 1 .. Len(jobFrames) + m
      /\ \A i \in 1 .. Len(jobFrames) : jobFrames'[i] = jobFrames[i]
      /\ \A i \in 1 .. m : jobFrames'[Len(jobFrames) + i] = fs[i]
  <2>1. jobFrames' = jobFrames \o sent
    BY <1>3 DEF sent
  <2>2. /\ jobFrames' \in Seq(Job!Frames) /\ Len(jobFrames') = Len(jobFrames) + Len(sent)
        /\ \A i \in 1 .. Len(jobFrames) + Len(sent) :
             jobFrames'[i] = IF i <= Len(jobFrames) THEN jobFrames[i] ELSE sent[i - Len(jobFrames)]
    BY <2>1, <1>0, <1>4, ConcatProperties
  <2>3. DOMAIN jobFrames' = 1 .. Len(jobFrames) + m /\ Len(jobFrames') = Len(jobFrames) + m
    BY <2>2, <1>4, LenProperties
  <2>4. \A i \in 1 .. Len(jobFrames) : jobFrames'[i] = jobFrames[i]
    BY <1>0, <1>4, <1>9, <2>2
  <2>5. \A i \in 1 .. m : jobFrames'[Len(jobFrames) + i] = fs[i]
    <3> TAKE i \in 1 .. m
    <3>1. /\ Len(jobFrames) + i \in 1 .. Len(jobFrames) + Len(sent) /\ ~(Len(jobFrames) + i <= Len(jobFrames))
          /\ Len(jobFrames) + i - Len(jobFrames) = i
      BY <1>0, <1>4, <1>9
    <3> QED
      BY <3>1, <2>2, <1>4
  <2> QED
    BY <2>2, <2>3, <2>4, <2>5
<1> QED
  BY <1>0, <1>2, <1>3, <1>5

\* What a job tells when it moves: at most one line, its next one, and the end when it came to it.
Tells(fs) ==
  /\ fs \in Seq(Job!Frames) /\ Len(fs) \in 1 .. 2
  /\ \/ jobLines' = jobLines /\ fs[1].line = 0
     \/ jobLines' = jobLines + 1 /\ fs[1].line = jobLines'
  /\ \A i \in 1 .. Len(fs) :
       /\ i > 1 => fs[i].line = 0
       /\ fs[i].snap = FALSE
       /\ fs[i].status \in Job!Terminal => fs[i].status = status' /\ (status' = "done" => fs[i].result)

\* The job goes on: its new line, if there is one, comes first of what it tells.
LEMMA StreamGrows ==
  ASSUME JobSizes, JobInv, NEW fs, Tells(fs), Job!Emits(fs), conn = "open",
         UNCHANGED rec, status \notin Job!Terminal
  PROVE  StreamHolds'
<1>0. /\ jobLines \in Nat /\ jobFrames \in Seq(Job!Frames) /\ Len(jobFrames) \in Nat
      /\ DOMAIN jobFrames = 1 .. Len(jobFrames) /\ overran \in BOOLEAN
      /\ \A i \in 1 .. Len(jobFrames) : jobFrames[i] \in Job!Frames /\ jobFrames[i].line \in Nat
      /\ End(rec.log) \in Nat
  BY JobTypes
<1> USE DEF Tells
<1> DEFINE n == Len(jobFrames)
<1>1. PICK m \in 0 .. Len(fs) :
           /\ jobFrames' \in Seq(Job!Frames) /\ Len(jobFrames') = n + m
           /\ DOMAIN jobFrames' = 1 .. n + m
           /\ \A i \in 1 .. n : jobFrames'[i] = jobFrames[i]
           /\ \A i \in 1 .. m : jobFrames'[n + i] = fs[i]
           /\ m < Len(fs) => overran'
           /\ overran' \in BOOLEAN
           /\ overran => overran'
  BY EmitsIs
<1>2. StreamHolds /\ n \in Nat /\ m \in Nat /\ (\A i \in 1 .. m : i \in Nat)
  BY <1>0 DEF JobInv
<1>3. \A i \in DOMAIN jobFrames' : i \in 1 .. n \/ (i - n \in 1 .. m /\ i = n + (i - n) /\ i > n)
  BY <1>0, <1>1, <1>2
<1>4. Base' = Base /\ Base \in Nat
  <2>1. CASE n = 0
    <3>1. jobFrames = <<>>
      BY <1>0, <2>1, EmptySeq
    <3>2. jobFrames' = <<>> \/ ~jobFrames'[1].snap
      <4>1. CASE m = 0
        BY <1>0, <1>1, <2>1, <4>1, EmptySeq
      <4>2. CASE m > 0
        BY <1>0, <1>1, <2>1, <4>2
      <4> QED
        BY <1>0, <4>1, <4>2
    <3> QED
      BY <1>0, <3>1, <3>2 DEF Base
  <2>2. CASE n > 0
    <3>1. jobFrames # <<>> /\ jobFrames' # <<>> /\ jobFrames'[1] = jobFrames[1] /\ jobFrames[1] \in Job!Frames
      BY <1>0, <1>1, <2>2, EmptySeq
    <3>2. jobFrames[1].log \in Seq(Logged)
      BY <1>0, <3>1 DEF Job!Frames, Logged
    <3>3. End(jobFrames[1].log) \in Nat
      BY <3>2, EndIs
    <3> QED
      BY <1>0, <3>1, <3>3 DEF Base
  <2> QED
    BY <1>0, <1>2, <2>1, <2>2
<1> HIDE DEF n
<1>5. /\ jobLines' \in Nat /\ jobLines <= jobLines' /\ jobLines' <= jobLines + 1 /\ Base <= jobLines
      /\ (m > 0 /\ jobLines' = jobLines + 1) => jobFrames'[n + 1].line = jobLines'
      /\ m = 0 => overran'
      /\ m > 0 => n + 1 \in DOMAIN jobFrames'
  BY <1>0, <1>1, <1>2 DEF StreamHolds
<1>6. ASSUME NEW i \in 1 .. n
      PROVE  /\ jobFrames'[i].snap => i = 1 /\ jobFrames'[i].line = 0 /\ Rising(jobFrames'[i].log, FALSE)
                                      /\ Len(jobFrames'[i].log) <= LogSent
             /\ jobFrames'[i].status \notin Job!Terminal
             /\ jobFrames'[i].line # 0 =>
                  /\ Base < jobFrames'[i].line /\ jobFrames'[i].line <= jobLines
                  /\ \A j \in 1 .. i - 1 : jobFrames'[j].line < jobFrames'[i].line
                  /\ \/ overran' \/ jobFrames'[i].line = Base + 1
                     \/ \E j \in 1 .. i - 1 : jobFrames'[j].line = jobFrames'[i].line - 1
  <2>1. i \in DOMAIN jobFrames /\ jobFrames'[i] = jobFrames[i]
    BY <1>0, <1>1 DEF n
  <2>2. \A j \in 1 .. i - 1 : jobFrames'[j] = jobFrames[j]
    BY <1>0, <1>1, <1>2
  <2>3. /\ jobFrames[i].snap => i = 1 /\ jobFrames[i].line = 0 /\ Rising(jobFrames[i].log, FALSE)
                                /\ Len(jobFrames[i].log) <= LogSent
        /\ jobFrames[i].status \in Job!Terminal => jobFrames[i].status = status
        /\ jobFrames[i].line # 0 =>
             /\ Base < jobFrames[i].line /\ jobFrames[i].line <= jobLines
             /\ \A j \in 1 .. i - 1 : jobFrames[j].line < jobFrames[i].line
             /\ \/ overran \/ jobFrames[i].line = Base + 1
                \/ \E j \in 1 .. i - 1 : jobFrames[j].line = jobFrames[i].line - 1
    BY <1>2, <2>1, Zenon DEF StreamHolds
  <2> QED
    BY <1>1, <2>1, <2>2, <2>3
<1>7. ASSUME NEW i \in 1 .. m
      PROVE  /\ jobFrames'[n + i].snap = FALSE
             /\ jobFrames'[n + i].status \in Job!Terminal
                  => jobFrames'[n + i].status = status' /\ (status' = "done" => jobFrames'[n + i].result)
             /\ jobFrames'[n + i].line # 0 =>
                  i = 1 /\ jobFrames'[n + i].line = jobLines' /\ jobLines' = jobLines + 1
  <2>1. jobFrames'[n + i] = fs[i] /\ i \in 1 .. Len(fs) /\ (i # 1 => i > 1)
    BY <1>1
  <2>2. /\ i > 1 => fs[i].line = 0
        /\ fs[i].snap = FALSE
        /\ fs[i].status \in Job!Terminal => fs[i].status = status' /\ (status' = "done" => fs[i].result)
    BY <2>1, Zenon
  <2> QED
    BY <2>1, <2>2
<1>8. \A i \in 1 .. n : jobFrames'[i].line <= jobLines
  <2> TAKE i \in 1 .. n
  <2>1. jobFrames'[i].line # 0 => jobFrames'[i].line <= jobLines
    BY <1>6
  <2> QED
    BY <1>0, <2>1
<1>9. ASSUME m > 0, jobLines' = jobLines + 1
      PROVE  \/ overran' \/ jobLines' = Base + 1
             \/ \E j \in 1 .. n : jobFrames'[j].line = jobLines' - 1
  BY <1>0, <1>9, <1>1, <1>2 DEF StreamHolds, n
<1>10. ASSUME NEW i \in DOMAIN jobFrames'
       PROVE  /\ jobFrames'[i].snap => i = 1 /\ jobFrames'[i].line = 0 /\ Rising(jobFrames'[i].log, FALSE)
                                       /\ Len(jobFrames'[i].log) <= LogSent
              /\ jobFrames'[i].status \in Job!Terminal
                   => jobFrames'[i].status = status' /\ (status' = "done" => jobFrames'[i].result)
              /\ jobFrames'[i].line # 0 =>
                   /\ Base < jobFrames'[i].line /\ jobFrames'[i].line <= jobLines'
                   /\ \A j \in 1 .. i - 1 : jobFrames'[j].line < jobFrames'[i].line
                   /\ \/ overran' \/ jobFrames'[i].line = Base + 1
                      \/ \E j \in 1 .. i - 1 : jobFrames'[j].line = jobFrames'[i].line - 1
  <2>1. CASE i \in 1 .. n
    <3>1. jobFrames'[i].line \in Nat
      BY <1>0, <1>1, <2>1 DEF n
    <3>2. jobFrames'[i].line <= jobLines => jobFrames'[i].line <= jobLines'
      BY <1>0, <1>5, <3>1
    <3> QED
      BY <2>1, <3>2, <1>6, Zenon
  <2>2. CASE i \notin 1 .. n
    <3>1. i - n \in 1 .. m /\ i = n + (i - n) /\ i \in Int /\ m > 0
      BY <1>0, <1>1, <1>2, <1>3, <2>2
    <3>2. /\ jobFrames'[i].snap = FALSE
          /\ jobFrames'[i].status \in Job!Terminal
               => jobFrames'[i].status = status' /\ (status' = "done" => jobFrames'[i].result)
          /\ jobFrames'[i].line # 0 =>
               i = n + 1 /\ jobFrames'[i].line = jobLines' /\ jobLines' = jobLines + 1
      BY ZenonT(40), <1>0, <3>1, <1>7
    <3>3. ASSUME jobFrames'[i].line # 0
          PROVE  /\ Base < jobFrames'[i].line /\ jobFrames'[i].line <= jobLines'
                 /\ \A j \in 1 .. i - 1 : jobFrames'[j].line < jobFrames'[i].line
                 /\ \/ overran' \/ jobFrames'[i].line = Base + 1
                    \/ \E j \in 1 .. i - 1 : jobFrames'[j].line = jobFrames'[i].line - 1
      <4>1. i = n + 1 /\ jobFrames'[i].line = jobLines' /\ jobLines' = jobLines + 1 /\ 1 .. i - 1 = 1 .. n
        BY <1>0, <3>2, <3>3, <1>2
      <4> QED
        <5>1. \A j \in 1 .. n : jobFrames'[j].line \in Nat
          BY <1>0, <1>1 DEF n
        <5>2. \A j \in 1 .. i - 1 : jobFrames'[j].line < jobFrames'[i].line
          <6> TAKE j \in 1 .. i - 1
          <6>1. j \in 1 .. n
            BY <4>1
          <6>2. jobFrames'[j].line \in Nat /\ jobFrames'[j].line <= jobLines
            BY <6>1, <5>1, <1>8
          <6> QED
            BY <6>2, <1>0, <4>1
        <5>3. Base < jobFrames'[i].line /\ jobFrames'[i].line <= jobLines'
          BY <1>0, <4>1, <1>4, <1>5
        <5> QED
          BY <4>1, <3>1, <5>2, <5>3, <1>9
    <3> QED
      BY <1>0, <3>2, <3>3
  <2> QED
    BY <1>0, <2>1, <2>2
<1>11. overran' \/ jobLines' = Base \/ \E i \in DOMAIN jobFrames' : jobFrames'[i].line = jobLines'
  <2>1. CASE jobLines' = jobLines
    BY <1>0, <2>1, <1>1, <1>2 DEF StreamHolds, n
  <2>2. CASE jobLines' = jobLines + 1
    BY <1>0, <2>2, <1>1, <1>5
  <2> QED
    BY <1>0, <2>1, <2>2
<1>12. Base <= jobLines'
  BY <1>0, <1>4, <1>5
<1> QED
  BY <1>4, <1>10, <1>11, <1>12, Zenon DEF StreamHolds

\* applyFrame, whatever the frame is: the status, and a result that is not lost again.
WithStatus(r, st, b) == [r EXCEPT !.status = st, !.result = @ \/ b]
LEMMA StatusSet ==
  ASSUME NEW r \in Records, NEW st \in Job!Statuses, NEW b \in BOOLEAN
  PROVE  /\ WithStatus(r, st, b) \in Records
         /\ WithStatus(r, st, b).log = r.log /\ WithStatus(r, st, b).total = r.total
         /\ WithStatus(r, st, b).epoch = r.epoch /\ WithStatus(r, st, b).status = st
         /\ b => WithStatus(r, st, b).result
<1>1. r.result \/ b \in BOOLEAN
  OBVIOUS
<1>2. WithStatus(r, st, b) \in Records
  BY <1>1 DEF Records, WithStatus
<1> QED
  BY <1>2 DEF Records, WithStatus

\* applyFrame: a snapshot replaces the log of the record, a line goes to its end.
LEMMA AppliedIs ==
  ASSUME JobSizes, JobInv, NEW f \in Job!Frames,
         f.snap => Rising(f.log, FALSE) /\ Len(f.log) <= LogSent,
         ~f.snap /\ f.line # 0 => f.line > End(rec.log) /\ (overran \/ f.line = End(rec.log) + 1),
         rec' = Job!Applied(rec, f), UNCHANGED <<view, overran>>
  PROVE  /\ rec' \in Records /\ Rising(rec'.log, overran') /\ Len(rec'.log) = Job!Least(rec'.total, LogKept)
         /\ rec'.status = f.status /\ (f.result => rec'.result)
         /\ End(rec'.log) = IF f.snap THEN End(f.log) ELSE IF f.line = 0 THEN End(rec.log) ELSE f.line
         /\ view'.epoch <= rec'.epoch
         /\ CardHolds'
<1>0. /\ rec \in Records /\ rec.log \in Seq(Logged) /\ Len(rec.log) \in Nat /\ DOMAIN rec.log = 1 .. Len(rec.log)
      /\ \A i \in 1 .. Len(rec.log) : rec.log[i] \in Nat
      /\ End(rec.log) \in Nat /\ rec.total \in Nat /\ rec.epoch \in Nat /\ view.epoch \in Int /\ view.seen \in Nat
      /\ LogKept \in Nat \ {0} /\ LogSent <= LogKept /\ LogSent \in Nat /\ view.epoch <= rec.epoch
      /\ Rising(rec.log, overran) /\ Len(rec.log) = Job!Least(rec.total, LogKept) /\ MaxLogged \in Nat
      /\ view.dom \in Seq(Logged)
  BY JobTypes DEF JobInv, Held
<1>1. /\ f.log \in Seq(Logged) /\ Len(f.log) \in Nat /\ f.line \in 0 .. MaxLogged + 1 /\ f.status \in Job!Statuses
      /\ f.result \in BOOLEAN /\ f.snap \in BOOLEAN
  BY <1>0, LenProperties DEF Job!Frames, Logged
<1>2. rec' = WithStatus(Job!Logs(rec, f), f.status, f.result) /\ view' = view /\ overran' = overran
  BY DEF Job!Applied, WithStatus
<1>3. CASE f.snap
  <2>1. Job!Logs(rec, f) = [rec EXCEPT !.log = f.log, !.total = Len(f.log), !.epoch = @ + 1]
    BY <1>3 DEF Job!Logs
  <2>2. /\ rec' \in Records /\ rec'.log = f.log /\ rec'.total = Len(f.log) /\ rec'.epoch = rec.epoch + 1
        /\ rec'.status = f.status /\ (f.result => rec'.result)
    <3>1. Len(f.log) \in Nat /\ rec.epoch + 1 \in Nat
      BY <1>0, <1>1
    <3>2. /\ Job!Logs(rec, f) \in Records /\ Job!Logs(rec, f).log = f.log
          /\ Job!Logs(rec, f).total = Len(f.log) /\ Job!Logs(rec, f).epoch = rec.epoch + 1
      BY <1>0, <1>1, <2>1, <3>1 DEF Records
    <3> QED
      BY <1>1, <1>2, <3>2, StatusSet
  <2>3. Len(f.log) = Job!Least(Len(f.log), LogKept)
    BY <1>0, <1>1, <1>3 DEF Job!Least
  <2>4. Rising(f.log, overran)
    BY <1>3 DEF Rising
  <2>5. view'.epoch = view.epoch /\ view.epoch <= rec'.epoch /\ view'.epoch # rec'.epoch
    BY <1>0, <2>2
  <2>6. CardHolds'
    BY <2>5 DEF CardHolds
  <2> QED
    BY <1>3, <2>2, <2>3, <2>4, <2>5, <2>6
<1>4. CASE ~f.snap /\ f.line = 0
  <2>1. Job!Logs(rec, f) = rec
    BY <1>4 DEF Job!Logs
  <2>2. /\ rec' \in Records /\ rec'.log = rec.log /\ rec'.total = rec.total /\ rec'.epoch = rec.epoch
        /\ rec'.status = f.status /\ (f.result => rec'.result)
    BY <1>0, <1>1, <1>2, <2>1, StatusSet
  <2>3. CardHolds'
    BY <2>2 DEF CardHolds, JobInv
  <2> QED
    BY <1>0, <1>4, <2>2, <2>3
<1>5. CASE ~f.snap /\ f.line # 0
  <2> DEFINE longer == Append(rec.log, f.line)
             log == Job!Newest(longer, LogKept)
  <2>1. Job!Logs(rec, f) = [rec EXCEPT !.log = log, !.total = @ + 1]
    BY <1>5 DEF Job!Logs
  <2>2. /\ longer \in Seq(Logged) /\ Len(longer) = Len(rec.log) + 1
        /\ \A i \in 1 .. Len(rec.log) : longer[i] = rec.log[i]
        /\ longer[Len(rec.log) + 1] = f.line
    <3>1. f.line \in Logged
      BY <1>0, <1>1, <1>5 DEF Logged
    <3> QED
      BY <1>0, <3>1, AppendProperties
  <2> HIDE DEF longer
  <2>3. /\ log \in Seq(Logged) /\ Len(log) = Job!Least(Len(longer), LogKept)
        /\ \A i \in 1 .. Len(log) : log[i] = longer[Len(longer) - Len(log) + i]
    <3>1. LogKept \in Nat
      BY <1>0
    <3> QED
      BY <2>2, <3>1, NewestOf DEF log
  <2> HIDE DEF log
  <2>4. /\ Len(log) \in Nat /\ Len(log) > 0 /\ Len(log) <= Len(rec.log) + 1 /\ DOMAIN log = 1 .. Len(log)
    BY <1>0, <2>2, <2>3, LenProperties DEF Job!Least
  <2>5. /\ rec' \in Records /\ rec'.log = log /\ rec'.total = rec.total + 1 /\ rec'.epoch = rec.epoch
        /\ rec'.status = f.status /\ (f.result => rec'.result)
    <3>1. rec.total + 1 \in Nat
      BY <1>0
    <3>2. /\ Job!Logs(rec, f) \in Records /\ Job!Logs(rec, f).log = log
          /\ Job!Logs(rec, f).total = rec.total + 1 /\ Job!Logs(rec, f).epoch = rec.epoch
      BY <1>0, <2>1, <2>3, <3>1 DEF Records
    <3> QED
      BY <1>1, <1>2, <3>2, StatusSet
  <2>12. /\ Len(longer) \in Nat /\ Len(log) \in Nat /\ Len(log) <= Len(longer) /\ Len(longer) = Len(rec.log) + 1
         /\ Len(rec.log) \in Nat
    BY <1>0, <2>2, <2>4
  <2>6. Len(log) = Job!Least(rec'.total, LogKept)
    BY <1>0, <2>2, <2>3, <2>5 DEF Job!Least
  <2>7. log[Len(log)] = f.line /\ End(log) = f.line
    BY <1>0, <2>2, <2>3, <2>4 DEF End
  <2>8. Rising(longer, overran)
    <3> SUFFICES ASSUME NEW i \in 1 .. Len(rec.log) + 1, i > 1
                 PROVE  longer[i] > longer[i - 1] /\ (overran \/ longer[i] = longer[i - 1] + 1)
      <4>1. DOMAIN longer = 1 .. Len(rec.log) + 1
        BY <2>2, LenProperties
      <4> QED
        BY <4>1 DEF Rising
    <3>1. CASE i <= Len(rec.log)
      <4>1. i \in DOMAIN rec.log /\ longer[i] = rec.log[i] /\ longer[i - 1] = rec.log[i - 1]
        BY SMTT(30), <3>1, <1>0, <2>2
      <4> QED
        BY <4>1, <1>0 DEF Rising
    <3>2. CASE i = Len(rec.log) + 1
      <4>1. longer[i] = f.line /\ longer[i - 1] = rec.log[Len(rec.log)] /\ rec.log # <<>>
        <5>1. i - 1 = Len(rec.log) /\ i - 1 \in 1 .. Len(rec.log) /\ rec.log # <<>>
          BY <3>2, <1>0
        <5> QED
          BY <3>2, <5>1, <2>2
      <4> QED
        BY <4>1, <1>5 DEF End
    <3> QED
      BY <3>1, <3>2, <1>0
  <2>9. Rising(log, overran)
    <3> SUFFICES ASSUME NEW i \in 1 .. Len(log), i > 1
                 PROVE  log[i] > log[i - 1] /\ (overran \/ log[i] = log[i - 1] + 1)
      BY <2>4 DEF Rising
    <3> DEFINE k == Len(longer) - Len(log) + i
    <3>1. /\ k \in 1 .. Len(longer) /\ k > 1 /\ log[i] = longer[k]
          /\ i - 1 \in 1 .. Len(log) /\ log[i - 1] = longer[Len(longer) - Len(log) + (i - 1)]
          /\ Len(longer) - Len(log) + (i - 1) = k - 1
      <4>1. /\ k \in 1 .. Len(longer) /\ k > 1 /\ i - 1 \in 1 .. Len(log)
            /\ Len(longer) - Len(log) + (i - 1) = k - 1
        BY <2>12
      <4> QED
        BY <4>1, <2>3
    <3>2. log[i - 1] = longer[k - 1] /\ k \in DOMAIN longer
      BY <3>1, <2>2, LenProperties
    <3> HIDE DEF k
    <3> QED
      BY <3>1, <3>2, <2>8 DEF Rising
  <2>10. CardHolds'
    <3> SUFFICES ASSUME view.epoch = rec.epoch
                 PROVE  CardShows(view, log, rec.total + 1)
      BY <1>2, <2>5 DEF CardHolds
    <3>1. /\ view.seen <= rec.total
          /\ Len(view.dom) = Job!Least(view.seen, LogInDom)
          /\ \A k \in 0 .. Len(view.dom) - 1 :
               k < Len(rec.log) - (rec.total - view.seen)
                 => view.dom[Len(view.dom) - k] = rec.log[Len(rec.log) - (rec.total - view.seen) - k]
      BY DEF JobInv, CardHolds, CardShows
    <3>2. ASSUME NEW k \in 0 .. Len(view.dom) - 1, k < Len(log) - ((rec.total + 1) - view.seen)
          PROVE  view.dom[Len(view.dom) - k] = log[Len(log) - ((rec.total + 1) - view.seen) - k]
      <4> DEFINE d == rec.total - view.seen
                 i == Len(log) - ((rec.total + 1) - view.seen) - k
      <4>1. d \in Nat /\ k \in Nat /\ i \in 1 .. Len(log)
        <5>1. Len(view.dom) \in Nat /\ k \in Nat /\ d \in Nat /\ (rec.total + 1) - view.seen = d + 1
          BY <1>0, <3>1, LenProperties
        <5> QED
          BY <5>1, <2>12, <3>2
      <4>6. (rec.total + 1) - view.seen = d + 1
        BY <1>0, <3>1
      <4>2. log[i] = longer[Len(longer) - Len(log) + i]
        BY <2>3, <4>1
      <4>3. Len(longer) - Len(log) + i = Len(rec.log) - d - k
        BY SMTT(30), <2>12, <4>1, <4>6
      <4>4. Len(rec.log) - d - k \in 1 .. Len(rec.log) /\ k < Len(rec.log) - d
        BY <2>12, <4>1, <4>6, <3>2
      <4>5. view.dom[Len(view.dom) - k] = rec.log[Len(rec.log) - d - k]
        BY <3>1, <3>2, <4>4
      <4> QED
        BY <4>2, <4>3, <4>4, <4>5, <2>2
    <3>3. view.seen <= rec.total + 1
      BY <1>0, <3>1
    <3>4. \A k \in 0 .. Len(view.dom) - 1 :
            k < Len(log) - ((rec.total + 1) - view.seen)
              => view.dom[Len(view.dom) - k] = log[Len(log) - ((rec.total + 1) - view.seen) - k]
      BY <3>2
    <3> QED
      <4>1. Len(view.dom) = Job!Least(view.seen, LogInDom)
        BY <3>1
      <4> QED
        BY <4>1, <3>3, <3>4, ZenonT(30) DEF CardShows
  <2> QED
    BY <1>0, <1>5, <2>5, <2>6, <2>7, <2>9, <2>10
<1> QED
  BY <1>1, <1>3, <1>4, <1>5

\* Painting: what is new goes to the end of the card, and a card of another log starts over.
LEMMA Painted ==
  ASSUME JobSizes, JobInv, Job!Paint
  PROVE  JobInv'
<1> DEFINE stale == view.epoch # rec.epoch
           from == IF stale THEN rec.total - Len(rec.log) ELSE view.seen
           fresh == Job!Least(rec.total - from, Len(rec.log))
           box == IF stale THEN <<>> ELSE view.dom
           news == Job!Newest(rec.log, fresh)
           dom == Job!Newest(box \o news, LogInDom)
<1>1. /\ view' = [epoch |-> rec.epoch, seen |-> rec.total, dom |-> dom]
      /\ UNCHANGED <<status, jobLines, conn, jobFrames, overran, jobAsked, rec, ends, jobTroubles>>
  BY DEF Job!Paint
<1>2. /\ rec.log \in Seq(Logged) /\ Len(rec.log) \in Nat /\ rec.total \in Nat /\ rec.epoch \in Nat
      /\ view.epoch \in Int /\ view.seen \in Nat /\ view.dom \in Seq(Logged) /\ Len(view.dom) \in Nat
      /\ LogInDom \in Nat /\ LogInDom <= LogKept /\ LogKept \in Nat
      /\ Len(rec.log) = Job!Least(rec.total, LogKept)
  BY JobTypes, LenProperties DEF JobInv, Held
<1>3. ~stale => /\ view.seen <= rec.total
                /\ Len(view.dom) = Job!Least(view.seen, LogInDom)
                /\ \A k \in 0 .. Len(view.dom) - 1 :
                     k < Len(rec.log) - (rec.total - view.seen)
                       => view.dom[Len(view.dom) - k] = rec.log[Len(rec.log) - (rec.total - view.seen) - k]
  BY DEF JobInv, CardHolds, CardShows
<1>4. /\ box \in Seq(Logged) /\ Len(box) \in Nat /\ Len(box) = IF stale THEN 0 ELSE Len(view.dom)
      /\ stale => fresh = Len(rec.log)
      /\ ~stale => fresh = Job!Least(rec.total - view.seen, Len(rec.log))
      /\ fresh \in Nat /\ fresh <= Len(rec.log)
  BY <1>2, <1>3, EmptySeq DEF Job!Least
<1> HIDE DEF box, fresh
<1>5. /\ news \in Seq(Logged) /\ Len(news) = fresh
      /\ \A i \in 1 .. fresh : news[i] = rec.log[Len(rec.log) - fresh + i]
  <2>1. Len(news) = Job!Least(Len(rec.log), fresh)
    BY <1>2, <1>4, NewestOf
  <2>2. Len(news) = fresh
    BY <2>1, <1>2, <1>4 DEF Job!Least
  <2>3. news \in Seq(Logged) /\ \A i \in 1 .. Len(news) : news[i] = rec.log[Len(rec.log) - Len(news) + i]
    BY <1>2, <1>4, NewestOf
  <2> QED
    BY <2>2, <2>3
<1> HIDE DEF news
<1>6. /\ box \o news \in Seq(Logged) /\ Len(box \o news) = Len(box) + fresh
      /\ \A i \in 1 .. Len(box) : (box \o news)[i] = box[i]
      /\ \A i \in 1 .. fresh : (box \o news)[Len(box) + i] = news[i]
  <2>1. /\ box \o news \in Seq(Logged) /\ Len(box \o news) = Len(box) + Len(news)
        /\ \A i \in 1 .. Len(box) + Len(news) :
             (box \o news)[i] = IF i <= Len(box) THEN box[i] ELSE news[i - Len(box)]
    <3>1. box \in Seq(Logged) /\ news \in Seq(Logged)
      BY <1>4, <1>5
    <3> HIDE DEF fresh, box
    <3> QED
      BY <3>1, ConcatProperties
  <2>2. \A i \in 1 .. Len(box) : (box \o news)[i] = box[i]
    BY <2>1, <1>4, <1>5
  <2>3. \A i \in 1 .. fresh : (box \o news)[Len(box) + i] = news[i]
    <3> TAKE i \in 1 .. fresh
    <3>1. /\ Len(box) + i \in 1 .. Len(box) + fresh /\ ~(Len(box) + i <= Len(box))
          /\ Len(box) + i - Len(box) = i
      BY <1>4
    <3> QED
      BY <3>1, <2>1, <1>5
  <2> QED
    BY <2>1, <2>2, <2>3, <1>5
<1>7. /\ dom \in Seq(Logged) /\ Len(dom) = Job!Least(Len(box) + fresh, LogInDom)
      /\ \A i \in 1 .. Len(dom) : dom[i] = (box \o news)[Len(box) + fresh - Len(dom) + i]
  <2> DEFINE whole == box \o news
  <2>1. whole \in Seq(Logged) /\ Len(whole) = Len(box) + fresh
    BY <1>6
  <2> HIDE DEF whole
  <2>2. dom = Job!Newest(whole, LogInDom)
    BY DEF whole
  <2>3. /\ dom \in Seq(Logged) /\ Len(dom) = Job!Least(Len(box) + fresh, LogInDom)
        /\ \A i \in 1 .. Len(dom) : dom[i] = whole[Len(box) + fresh - Len(dom) + i]
    <3>1. /\ dom \in Seq(Logged) /\ Len(dom) = Job!Least(Len(whole), LogInDom)
          /\ \A i \in 1 .. Len(dom) : dom[i] = whole[Len(whole) - Len(dom) + i]
      <4>1. LogInDom \in Nat
        BY <1>2
      <4> QED
        BY <4>1, <2>1, NewestOf DEF whole
    <3> HIDE DEF dom
    <3>2. \A i \in 1 .. Len(dom) : dom[i] = whole[Len(box) + fresh - Len(dom) + i]
      <4> TAKE i \in 1 .. Len(dom)
      <4>1. dom[i] = whole[Len(whole) - Len(dom) + i]
        BY <3>1
      <4>2. Len(whole) - Len(dom) + i = Len(box) + fresh - Len(dom) + i
        <5>1. {Len(box), fresh, Len(whole)} \subseteq Int /\ Len(dom) \in Int /\ i \in Int
          BY <1>4, <2>1, <3>1, LenProperties
        <5>2. Len(whole) = Len(box) + fresh
          BY <2>1
        <5> QED
          BY <5>1, <5>2
      <4> QED
        BY <4>1, <4>2, Zenon
    <3>3. dom \in Seq(Logged) /\ Len(dom) = Job!Least(Len(box) + fresh, LogInDom)
      BY <3>1, <2>1
    <3> QED
      BY <3>2, <3>3
  <2> QED
    BY <2>3 DEF whole
<1> HIDE DEF dom
<1>13. /\ {Len(rec.log), rec.total, view.seen, LogInDom, LogKept, Len(box), fresh} \subseteq Nat
       /\ LogInDom <= LogKept /\ Len(rec.log) = Job!Least(rec.total, LogKept)
       /\ ~stale => view.seen <= rec.total /\ Len(view.dom) = Job!Least(view.seen, LogInDom)
  BY <1>2, <1>3, <1>4
<1>8. Len(dom) = Job!Least(rec.total, LogInDom) /\ Len(dom) \in Nat
  <2>1. CASE stale
    BY <2>1, <1>13, <1>4, <1>7 DEF Job!Least
  <2>2. CASE ~stale
    <3>1. /\ Len(box) = Job!Least(view.seen, LogInDom) /\ view.seen <= rec.total
          /\ fresh = Job!Least(rec.total - view.seen, Len(rec.log))
          /\ Len(dom) = Job!Least(Len(box) + fresh, LogInDom)
      BY <2>2, <1>13, <1>4, <1>7
    <3> HIDE DEF stale, from
    <3> QED
      BY SMTT(30), <3>1, <1>13 DEF Job!Least
  <2> QED
    BY <2>1, <2>2
<1>9. ASSUME NEW k \in 0 .. Len(dom) - 1, k < Len(rec.log)
      PROVE  dom[Len(dom) - k] = rec.log[Len(rec.log) - k]
  <2>1. /\ k \in Nat /\ Len(dom) - k \in 1 .. Len(dom) /\ Len(dom) <= Len(box) + fresh
        /\ Len(box) + fresh - Len(dom) + (Len(dom) - k) = Len(box) + fresh - k
        /\ k < Len(box) + fresh
    <3>1. Len(dom) = Job!Least(Len(box) + fresh, LogInDom)
      BY <1>7
    <3> QED
      BY SMTT(30), <3>1, <1>8, <1>9, <1>13 DEF Job!Least
  <2>2. dom[Len(dom) - k] = (box \o news)[Len(box) + fresh - k]
    BY <1>7, <2>1
  <2>3. CASE k < fresh
    <3>1. /\ fresh - k \in 1 .. fresh /\ Len(box) + fresh - k = Len(box) + (fresh - k)
          /\ Len(rec.log) - fresh + (fresh - k) = Len(rec.log) - k
      BY <2>1, <2>3, <1>2, <1>4
    <3>2. (box \o news)[Len(box) + (fresh - k)] = news[fresh - k]
      BY <3>1, <1>6
    <3>3. news[fresh - k] = rec.log[Len(rec.log) - fresh + (fresh - k)]
      BY <3>1, <1>5
    <3> QED
      BY <2>2, <3>1, <3>2, <3>3
  <2>4. CASE ~(k < fresh)
    <3>1. ~stale /\ fresh = rec.total - view.seen /\ Len(box) = Len(view.dom) /\ box = view.dom
      BY <2>1, <2>4, <1>2, <1>4, <1>9 DEF Job!Least, box
    <3>2. /\ k - fresh \in 0 .. Len(view.dom) - 1 /\ k - fresh < Len(rec.log) - fresh
          /\ Len(box) + fresh - k = Len(view.dom) - (k - fresh)
          /\ Len(view.dom) - (k - fresh) \in 1 .. Len(view.dom)
          /\ Len(rec.log) - fresh - (k - fresh) = Len(rec.log) - k
      <4>1. /\ {Len(box), Len(view.dom), fresh, k, Len(rec.log)} \subseteq Nat /\ Len(box) = Len(view.dom)
            /\ k < Len(box) + fresh /\ k >= fresh /\ k < Len(rec.log)
        BY <3>1, <2>1, <2>4, <1>2, <1>13, <1>9
      <4>2. \A b, d, c, i, m \in Nat :
              b = d /\ i < b + c /\ i >= c /\ i < m =>
                /\ i - c \in 0 .. d - 1 /\ i - c < m - c
                /\ b + c - i = d - (i - c)
                /\ d - (i - c) \in 1 .. d
                /\ m - c - (i - c) = m - i
        OBVIOUS
      <4> QED
        BY SMTT(30), <4>1, <4>2
    <3>3. view.dom[Len(view.dom) - (k - fresh)] = rec.log[Len(rec.log) - fresh - (k - fresh)]
      BY <3>1, <3>2, <1>3
    <3>4. (box \o news)[Len(box) + fresh - k] = view.dom[Len(view.dom) - (k - fresh)]
      BY <3>1, <3>2, <1>6
    <3> QED
      BY <2>2, <3>2, <3>3, <3>4
  <2> QED
    BY <2>3, <2>4
<1>10. /\ view' \in Cards /\ view'.epoch = rec.epoch /\ view'.seen = rec.total /\ view'.dom = dom
  BY <1>1, <1>2, <1>7 DEF Cards
<1>11. CardHolds'
  <2>1. \A k \in 0 .. Len(dom) - 1 : k < Len(rec.log) => dom[Len(dom) - k] = rec.log[Len(rec.log) - k]
    BY <1>9
  <2>2. rec.total - rec.total = 0 /\ Len(rec.log) - 0 = Len(rec.log) /\ rec.total <= rec.total
    BY <1>2
  <2>3. CardShows(view', rec.log, rec.total)
    BY <1>8, <1>10, <2>1, <2>2 DEF CardShows
  <2> QED
    BY <1>1, <2>3 DEF CardHolds
<1>12. Held'
  <2>1. Job!TypeOK'
    <3>1. view'.epoch \in Int /\ view'.seen \in Nat /\ Len(view'.dom) <= LogInDom
      BY <1>2, <1>8, <1>10 DEF Job!Least
    <3> QED
      BY <1>1, <3>1 DEF Job!TypeOK, JobInv, Held
  <2> QED
    BY <2>1, <1>1, <1>2, <1>10 DEF Held, JobInv
<1> QED
  BY <1>1, <1>11, <1>12 DEF JobInv, AskedHolds, EndHolds, StreamHolds, Base

\* What the job does, whether the page hears of it or not.
LEMMA JobMoves ==
  ASSUME JobSizes, JobInv, NEW fs, Tells(fs), Job!Emits(fs),
         UNCHANGED <<conn, jobAsked, rec, view, ends, jobTroubles>>,
         status \notin Job!Terminal, status' \in Job!Statuses,
         jobLines' \in 0 .. (MaxLogged + 1), status' \notin Job!Terminal => jobLines' <= MaxLogged
  PROVE  JobInv'
<1>1. /\ conn' = conn /\ jobAsked' = jobAsked /\ rec' = rec /\ view' = view /\ ends' = ends
      /\ jobTroubles' = jobTroubles
  OBVIOUS
<1>2. /\ jobFrames' \in Seq(Job!Frames) /\ overran' \in BOOLEAN
      /\ overran => overran'
      /\ conn # "open" => jobFrames' = jobFrames
  <2>1. CASE conn = "open"
    BY <2>1, EmitsIs DEF Tells
  <2>2. CASE conn # "open"
    BY <2>2, JobTypes DEF Job!Emits
  <2> QED
    BY <2>1, <2>2
<1>3. conn = "open" => StreamHolds'
  BY <1>1, StreamGrows
<1>4. Held'
  <2>1. Job!TypeOK'
    BY <1>1, <1>2 DEF Job!TypeOK, JobInv, Held
  <2>2. Rising(rec.log, overran')
    BY <1>2 DEF JobInv, Held, Rising
  <2> QED
    BY <2>1, <2>2, <1>1 DEF JobInv, Held
<1>5. AskedHolds' /\ CardHolds'
  BY <1>1 DEF JobInv, AskedHolds, CardHolds
<1>6. EndHolds'
  BY <1>1 DEF JobInv, EndHolds, Job!Terminal
<1> QED
  BY <1>1, <1>2, <1>3, <1>4, <1>5, <1>6 DEF JobInv

LEMMA JobWorks ==
  ASSUME JobSizes, JobInv, Job!JobStarts \/ Job!JobLogs \/ \E st \in Job!Terminal : Job!JobEnds(st)
  PROVE  JobInv'
<1>0. jobLines \in 0 .. (MaxLogged + 1) /\ MaxLogged \in Nat /\ (status \notin Job!Terminal => jobLines <= MaxLogged)
  BY JobTypes DEF JobInv, Held
<1>1. Job!NoFrame \in Job!Frames
  <2>1. "pending" \in Job!Statuses /\ <<>> \in Seq(1 .. (MaxLogged + 1)) /\ 0 \in 0 .. (MaxLogged + 1)
    BY <1>0, EmptySeq DEF Job!Statuses
  <2> QED
    BY <2>1 DEF Job!NoFrame, Job!Frames
<1>2. Job!NoFrame.snap = FALSE /\ Job!NoFrame.line = 0
  BY DEF Job!NoFrame
<1>3. ASSUME NEW f, NEW g PROVE Len(<<f>>) = 1 /\ Len(<<f, g>>) = 2 /\ <<f>>[1] = f /\ <<f, g>>[1] = f /\ <<f, g>>[2] = g
  OBVIOUS
<1>4. CASE Job!JobStarts
  <2> DEFINE f == [Job!NoFrame EXCEPT !.status = "running"]
  <2>1. "running" \in Job!Statuses /\ "running" \notin Job!Terminal /\ "pending" \notin Job!Terminal
    BY DEF Job!Statuses, Job!Terminal
  <2>2. f \in Job!Frames /\ f.snap = FALSE /\ f.line = 0 /\ f.status = "running"
    BY <1>1, <1>2, <2>1 DEF Job!Frames
  <2>3. Job!Emits(<<f>>) /\ status = "pending" /\ status' = "running" /\ jobLines' = jobLines
        /\ UNCHANGED <<conn, jobAsked, rec, view, ends, jobTroubles>>
    BY <1>4 DEF Job!JobStarts
  <2> HIDE DEF f
  <2>4. <<f>> \in Seq(Job!Frames) /\ Len(<<f>>) = 1 /\ <<f>>[1] = f
    BY <2>2
  <2> DEFINE fs == <<f>>
  <2>5. fs \in Seq(Job!Frames) /\ Len(fs) = 1 /\ fs[1] = f /\ Job!Emits(fs)
    BY <2>3, <2>4
  <2> HIDE DEF fs
  <2> QED
    <3>1. Tells(fs)
      BY <1>0, <2>1, <2>2, <2>3, <2>5 DEF Tells
    <3>2. jobLines' <= MaxLogged
      BY <1>0, <2>1, <2>3
    <3> QED
      BY <1>0, <2>1, <2>3, <2>5, <3>1, <3>2, JobMoves
<1>5. CASE Job!JobLogs
  <2> DEFINE f == [Job!NoFrame EXCEPT !.status = status, !.line = jobLines']
  <2>1. "running" \in Job!Statuses /\ "running" \notin Job!Terminal
    BY DEF Job!Statuses, Job!Terminal
  <2>3. Job!Emits(<<f>>) /\ status = "running" /\ status' = "running" /\ jobLines' = jobLines + 1 /\ jobLines < MaxLogged
        /\ UNCHANGED <<conn, jobAsked, rec, view, ends, jobTroubles>>
    BY <1>5 DEF Job!JobLogs
  <2>6. jobLines' \in 0 .. (MaxLogged + 1) /\ jobLines' <= MaxLogged
    BY <1>0, <2>3
  <2>2. f \in Job!Frames /\ f.snap = FALSE /\ f.line = jobLines' /\ f.status = "running"
    BY <1>1, <1>2, <2>1, <2>3, <2>6 DEF Job!Frames
  <2> HIDE DEF f
  <2>4. <<f>> \in Seq(Job!Frames) /\ Len(<<f>>) = 1 /\ <<f>>[1] = f
    BY <2>2
  <2> DEFINE fs == <<f>>
  <2>5. fs \in Seq(Job!Frames) /\ Len(fs) = 1 /\ fs[1] = f /\ Job!Emits(fs)
    BY <2>3, <2>4
  <2> HIDE DEF fs
  <2> QED
    <3>1. Tells(fs)
      BY <1>0, <2>1, <2>2, <2>3, <2>5 DEF Tells
    <3> QED
      BY <2>1, <2>3, <2>5, <2>6, <3>1, JobMoves
<1>6. ASSUME NEW st \in Job!Terminal, Job!JobEnds(st) PROVE JobInv'
  <2> DEFINE e == [Job!NoFrame EXCEPT !.status = st]
             f == Job!WithResult(IF st = "done" THEN e ELSE [e EXCEPT !.line = jobLines'], FALSE)
             g == Job!WithResult(e, TRUE)
  <2>1. "running" \in Job!Statuses /\ "running" \notin Job!Terminal /\ st \in Job!Statuses
    BY DEF Job!Statuses, Job!Terminal
  <2>3. Job!Emits(<<f, g>>) /\ status = "running" /\ status' = st
        /\ jobLines' = (IF st = "done" THEN jobLines ELSE jobLines + 1)
        /\ UNCHANGED <<conn, jobAsked, rec, view, ends, jobTroubles>>
    BY <1>6 DEF Job!JobEnds
  <2>6. jobLines' \in 0 .. (MaxLogged + 1)
    BY <1>0, <2>1, <2>3
  <2>7. e \in Job!Frames /\ e.snap = FALSE /\ e.line = 0 /\ e.status = st
    BY <1>1, <1>2, <2>1 DEF Job!Frames
  <2>8. g \in Job!Frames /\ g.snap = FALSE /\ g.line = 0 /\ g.status = st /\ (st = "done" => g.result)
    BY <2>7 DEF Job!Frames, Job!WithResult
  <2>9. f \in Job!Frames /\ f.snap = FALSE /\ f.status = st /\ (st = "done" => f.result)
        /\ f.line = IF st = "done" THEN 0 ELSE jobLines'
    <3>1. CASE st = "done"
      BY <3>1, <2>7 DEF Job!Frames, Job!WithResult
    <3>2. CASE st # "done"
      <4> DEFINE h == [e EXCEPT !.line = jobLines']
      <4>1. h \in Job!Frames /\ h.snap = FALSE /\ h.status = st /\ h.line = jobLines'
        BY <2>6, <2>7 DEF Job!Frames
      <4> HIDE DEF h, e
      <4>2. Job!WithResult(h, FALSE) \in Job!Frames /\ Job!WithResult(h, FALSE).snap = FALSE
            /\ Job!WithResult(h, FALSE).status = st /\ Job!WithResult(h, FALSE).line = jobLines'
        BY <4>1 DEF Job!Frames, Job!WithResult
      <4>3. f = Job!WithResult(h, FALSE)
        BY <3>2 DEF h
      <4> QED
        BY <3>2, <4>2, <4>3
    <3> QED
      BY <3>1, <3>2
  <2> HIDE DEF f, g
  <2> DEFINE fs == <<f, g>>
  <2>5. fs \in Seq(Job!Frames) /\ Len(fs) = 2 /\ fs[1] = f /\ fs[2] = g /\ Job!Emits(fs)
    BY <2>3, <2>8, <2>9
  <2> HIDE DEF fs
  <2>10. \A i \in 1 .. Len(fs) :
           /\ i > 1 => fs[i].line = 0
           /\ fs[i].snap = FALSE
           /\ fs[i].status \in Job!Terminal => fs[i].status = status' /\ (status' = "done" => fs[i].result)
    <3> TAKE i \in 1 .. Len(fs)
    <3>1. i = 1 \/ i = 2
      BY <2>5
    <3> QED
      BY <3>1, <2>3, <2>5, <2>8, <2>9
  <2>11. (jobLines' = jobLines /\ fs[1].line = 0) \/ (jobLines' = jobLines + 1 /\ fs[1].line = jobLines')
    BY <2>3, <2>5, <2>9
  <2> QED
    <3>1. Tells(fs)
      BY <2>5, <2>10, <2>11 DEF Tells
    <3> QED
      BY <2>1, <2>3, <2>5, <2>6, <3>1, JobMoves
<1> QED
  BY <1>4, <1>5, <1>6

\* finish: who waits is told at the end, and nothing of the stream is left.
LEMMA Finishing ==
  ASSUME JobSizes, JobInv, conn # "closed", conn' = "closed", jobFrames' = <<>>, jobAsked' = <<>>,
         UNCHANGED <<status, jobLines, overran, view>>, jobTroubles' \in 0 .. MaxJobTroubles,
         rec' \in Records, Rising(rec'.log, overran'), Len(rec'.log) = Job!Least(rec'.total, LogKept),
         view'.epoch <= rec'.epoch, CardHolds', Job!Ended(rec'), rec'.status \in Job!Terminal,
         IF rec'.status = "error" THEN status = "error" \/ jobTroubles' > 1
         ELSE rec'.status = status /\ (status = "done" => rec'.result)
  PROVE  JobInv'
<1>1. ends = <<>>
  BY DEF JobInv, EndHolds
<1> DEFINE end == [status |-> rec'.status, result |-> rec'.result]
<1>2. ends' = <<end>>
  BY <1>1 DEF Job!Ended
<1>3. end \in [status : Job!Statuses, result : BOOLEAN] /\ end.status = rec'.status /\ end.result = rec'.result
  BY DEF Records
<1> HIDE DEF end
<1>4. /\ ends' \in Seq([status : Job!Statuses, result : BOOLEAN]) /\ Len(ends') = 1
      /\ DOMAIN ends' = 1 .. 1 /\ ends'[1] = end
  BY <1>2, <1>3
<1>5. EndHolds'
  <2>1. \A i \in DOMAIN ends' : i = 1
    BY <1>4
  <2> QED
    BY <1>3, <1>4, <2>1 DEF EndHolds
<1>6. Job!TypeOK'
  <2>1. /\ rec'.status \in Job!Statuses /\ rec'.log \in Seq(1 .. (MaxLogged + 1)) /\ rec'.total \in Nat /\ rec'.epoch \in Nat
        /\ {rec'.there, rec'.result} \subseteq BOOLEAN
    BY DEF Records, Logged
  <2>2. Len(rec'.log) <= LogKept
    BY <2>1 DEF Job!Least, JobSizes
  <2>3. <<>> \in Seq(Job!Frames)
    OBVIOUS
  <2> QED
    BY <1>4, <2>1, <2>2, <2>3 DEF Job!TypeOK, JobInv, Held
<1>7. Held'
  BY <1>6 DEF JobInv, Held
<1>8. AskedHolds'
  BY DEF AskedHolds
<1> QED
  BY <1>5, <1>7, <1>8 DEF JobInv

\* A frame that is heard is one the log can take.
LEMMA HeardIs ==
  ASSUME JobSizes, JobInv, conn = "open", jobFrames # <<>>
  PROVE  /\ Head(jobFrames) \in Job!Frames /\ Head(jobFrames) = jobFrames[1]
         /\ jobFrames[1].snap => Rising(jobFrames[1].log, FALSE) /\ Len(jobFrames[1].log) <= LogSent
                                  /\ jobFrames[1].line = 0 /\ Base = End(jobFrames[1].log)
         /\ ~jobFrames[1].snap => Base = End(rec.log)
         /\ ~jobFrames[1].snap /\ jobFrames[1].line # 0
              => jobFrames[1].line > Base /\ (overran \/ jobFrames[1].line = Base + 1)
         /\ jobFrames[1].status \in Job!Terminal
              => jobFrames[1].status = status /\ (status = "done" => jobFrames[1].result)
         /\ Base \in Nat
         /\ Tail(jobFrames) \in Seq(Job!Frames) /\ Len(Tail(jobFrames)) = Len(jobFrames) - 1
         /\ \A i \in 1 .. Len(jobFrames) - 1 : Tail(jobFrames)[i] = jobFrames[i + 1]
<1>1. /\ jobFrames \in Seq(Job!Frames) /\ Len(jobFrames) \in Nat /\ DOMAIN jobFrames = 1 .. Len(jobFrames)
      /\ End(rec.log) \in Nat
      /\ \A i \in 1 .. Len(jobFrames) : jobFrames[i] \in Job!Frames /\ jobFrames[i].line \in Nat
  BY JobTypes
<1>2. 1 \in 1 .. Len(jobFrames)
  BY <1>1
<1>3. /\ Head(jobFrames) = jobFrames[1] /\ Tail(jobFrames) \in Seq(Job!Frames)
      /\ Len(Tail(jobFrames)) = Len(jobFrames) - 1
      /\ \A i \in 1 .. Len(jobFrames) - 1 : Tail(jobFrames)[i] = jobFrames[i + 1]
  BY <1>1, HeadTailProperties
<1>4. StreamHolds
  BY DEF JobInv
<1>5. /\ jobFrames[1].snap => Rising(jobFrames[1].log, FALSE) /\ Len(jobFrames[1].log) <= LogSent
                               /\ jobFrames[1].line = 0
      /\ jobFrames[1].status \in Job!Terminal
           => jobFrames[1].status = status /\ (status = "done" => jobFrames[1].result)
      /\ jobFrames[1].line # 0
           => Base < jobFrames[1].line /\ (overran \/ jobFrames[1].line = Base + 1)
  <2>1. ~\E j \in 1 .. 1 - 1 : jobFrames[j].line = jobFrames[1].line - 1
    OBVIOUS
  <2> QED
    BY <1>1, <1>2, <1>4, <2>1 DEF StreamHolds
<1>6. Base = IF jobFrames[1].snap THEN End(jobFrames[1].log) ELSE End(rec.log)
  BY DEF Base
<1>7. Base \in Nat
  <2>1. jobFrames[1].log \in Seq(Logged)
    BY <1>1, <1>2 DEF Job!Frames, Logged
  <2> QED
    BY <1>1, <1>6, <2>1, EndIs
<1> QED
  BY <1>1, <1>2, <1>3, <1>5, <1>6, <1>7

\* What is left of the stream goes on where the log then ends.
LEMMA StreamHeard ==
  ASSUME JobSizes, JobInv, conn = "open", jobFrames # <<>>, jobFrames' = Tail(jobFrames),
         UNCHANGED <<status, jobLines, overran>>,
         End(rec'.log) = IF jobFrames[1].snap THEN End(jobFrames[1].log)
                         ELSE IF jobFrames[1].line = 0 THEN End(rec.log) ELSE jobFrames[1].line
  PROVE  StreamHolds'
<1> DEFINE n == Len(jobFrames)
           top == IF jobFrames[1].line = 0 THEN Base ELSE jobFrames[1].line
<1>1. /\ n \in Nat /\ n > 0 /\ DOMAIN jobFrames = 1 .. n /\ DOMAIN jobFrames' = 1 .. n - 1 /\ Base \in Nat
      /\ \A i \in 1 .. n - 1 : jobFrames'[i] = jobFrames[i + 1] /\ i + 1 \in 1 .. n /\ i + 1 # 1
      /\ \A i \in 1 .. n : jobFrames[i].line \in Nat
      /\ jobLines \in Nat
  BY SMTT(30), JobTypes, HeardIs
<1>2. End(rec'.log) = top /\ top \in Nat
  <2>1. /\ jobFrames[1].snap => jobFrames[1].line = 0 /\ Base = End(jobFrames[1].log)
        /\ ~jobFrames[1].snap => Base = End(rec.log)
    BY HeardIs
  <2>2. jobFrames[1].line \in Nat
    BY <1>1
  <2> QED
    BY <1>1, <2>1, <2>2
<1>3. StreamHolds
  BY DEF JobInv
<1>4. \A i \in 1 .. n - 1 : jobFrames'[i].snap = FALSE
  <2> TAKE i \in 1 .. n - 1
  <2>1. jobFrames[i + 1].snap \in BOOLEAN
    <3>1. jobFrames[i + 1] \in Job!Frames
      BY <1>1, JobTypes
    <3> QED
      BY <3>1 DEF Job!Frames
  <2>2. jobFrames[i + 1].snap => i + 1 = 1
    BY <1>1, <1>3 DEF StreamHolds
  <2> QED
    BY <1>1, <2>1, <2>2
<1>5. Base' = top
  <2>1. jobFrames' = <<>> \/ ~jobFrames'[1].snap
    <3>1. CASE n = 1
      BY <3>1, <1>1, HeardIs, EmptySeq
    <3>2. CASE n # 1
      <4>1. 1 \in 1 .. n - 1
        BY <3>2, <1>1
      <4> QED
        BY <4>1, <1>4
    <3> QED
      BY <3>1, <3>2
  <2> QED
    BY <1>2, <2>1 DEF Base
<1> HIDE DEF n, top
<1>6. Base <= top /\ top <= jobLines /\ (jobFrames[1].line # 0 => top = jobFrames[1].line)
      /\ (jobFrames[1].line = 0 => top = Base)
  <2>1. 1 \in DOMAIN jobFrames /\ jobFrames[1].line \in Nat
    BY <1>1
  <2>2. /\ jobFrames[1].line # 0 => Base < jobFrames[1].line /\ jobFrames[1].line <= jobLines
        /\ Base <= jobLines
    BY <1>3, <2>1, Zenon DEF StreamHolds
  <2> QED
    BY <1>1, <2>1, <2>2 DEF top
<1>7. ASSUME NEW i \in 1 .. n - 1
      PROVE  /\ jobFrames'[i].status \in Job!Terminal
                  => jobFrames'[i].status = status /\ (status = "done" => jobFrames'[i].result)
             /\ jobFrames'[i].line # 0 =>
                  /\ top < jobFrames'[i].line /\ jobFrames'[i].line <= jobLines
                  /\ \A j \in 1 .. i - 1 : jobFrames'[j].line < jobFrames'[i].line
                  /\ \/ overran \/ jobFrames'[i].line = top + 1
                     \/ \E j \in 1 .. i - 1 : jobFrames'[j].line = jobFrames'[i].line - 1
  <2> DEFINE f == jobFrames[i + 1]
  <2>1. jobFrames'[i] = f /\ i + 1 \in DOMAIN jobFrames /\ (i + 1) - 1 = i /\ 1 \in 1 .. i /\ i \in Nat
    BY <1>1
  <2>2. /\ f.status \in Job!Terminal => f.status = status /\ (status = "done" => f.result)
        /\ f.line # 0 =>
             /\ Base < f.line /\ f.line <= jobLines
             /\ \A j \in 1 .. (i + 1) - 1 : jobFrames[j].line < f.line
             /\ \/ overran \/ f.line = Base + 1
                \/ \E j \in 1 .. (i + 1) - 1 : jobFrames[j].line = f.line - 1
    BY <1>3, <2>1, Zenon DEF StreamHolds
  <2> HIDE DEF f
  <2>3. ASSUME f.line # 0
        PROVE  /\ top < f.line /\ f.line <= jobLines
               /\ \A j \in 1 .. i - 1 : jobFrames'[j].line < f.line
               /\ \/ overran \/ f.line = top + 1
                  \/ \E j \in 1 .. i - 1 : jobFrames'[j].line = f.line - 1
    <3>1. /\ Base < f.line /\ f.line <= jobLines
          /\ \A j \in 1 .. i : jobFrames[j].line < f.line
          /\ \/ overran \/ f.line = Base + 1
             \/ \E j \in 1 .. i : jobFrames[j].line = f.line - 1
      BY <2>1, <2>2, <2>3
    <3>2. top < f.line
      BY <3>1, <2>1, <1>6
    <3>3. \A j \in 1 .. i - 1 : jobFrames'[j] = jobFrames[j + 1] /\ j + 1 \in 1 .. i
      BY <1>1, <2>1
    <3>4. \A j \in 1 .. i - 1 : jobFrames'[j].line < f.line
      BY <3>1, <3>3
    <3>5. f.line \in Nat
      BY <1>1, <2>1 DEF f
    <3>6. CASE f.line = Base + 1
      BY <3>2, <3>5, <3>6, <1>1, <1>2, <1>6, <3>1, <3>4
    <3>7. CASE \E j \in 1 .. i : jobFrames[j].line = f.line - 1
      <4>1. PICK j \in 1 .. i : jobFrames[j].line = f.line - 1
        BY <3>7
      <4>2. CASE j = 1
        <5>1. f.line = top + 1
          BY <4>1, <4>2, <3>1, <3>2, <3>5, <1>1, <1>2, <1>6
        <5> QED
          BY <5>1, <3>1, <3>2, <3>4
      <4>3. CASE j # 1
        <5>1. j - 1 \in 1 .. i - 1 /\ jobFrames'[j - 1] = jobFrames[j]
          BY <4>3, <2>1, <1>1
        <5> QED
          BY <5>1, <4>1, <3>1, <3>2, <3>4
      <4> QED
        BY <4>2, <4>3
    <3> QED
      BY <3>1, <3>2, <3>4, <3>6, <3>7
  <2> QED
    BY <2>1, <2>2, <2>3
<1>8. overran \/ jobLines = top \/ \E i \in 1 .. n - 1 : jobFrames'[i].line = jobLines
  <2>1. CASE jobLines = Base
    BY <2>1, <1>1, <1>2, <1>6
  <2>2. ASSUME NEW i \in 1 .. n, jobFrames[i].line = jobLines
        PROVE  jobLines = top \/ \E j \in 1 .. n - 1 : jobFrames'[j].line = jobLines
    <3>1. CASE i = 1
      <4>1. jobFrames[1].line = jobLines
        BY <2>2, <3>1
      <4> QED
        BY <4>1, <1>1, <1>2, <1>6
    <3>2. CASE i # 1
      <4>1. i - 1 \in 1 .. n - 1 /\ jobFrames'[i - 1] = jobFrames[i]
        BY <3>2, <1>1
      <4> QED
        BY <4>1, <2>2
    <3> QED
      BY <3>1, <3>2
  <2> QED
    BY <1>1, <1>3, <2>1, <2>2 DEF StreamHolds
<1>9. /\ status' = status /\ jobLines' = jobLines /\ overran' = overran /\ DOMAIN jobFrames' = 1 .. n - 1
  BY <1>1
<1>10. \A i \in DOMAIN jobFrames' :
        /\ jobFrames'[i].snap => i = 1 /\ jobFrames'[i].line = 0 /\ Rising(jobFrames'[i].log, FALSE)
                                 /\ Len(jobFrames'[i].log) <= LogSent
        /\ jobFrames'[i].status \in Job!Terminal
             => jobFrames'[i].status = status' /\ (status' = "done" => jobFrames'[i].result)
        /\ jobFrames'[i].line # 0 =>
             /\ Base' < jobFrames'[i].line /\ jobFrames'[i].line <= jobLines'
             /\ \A j \in 1 .. i - 1 : jobFrames'[j].line < jobFrames'[i].line
             /\ \/ overran' \/ jobFrames'[i].line = Base' + 1
                \/ \E j \in 1 .. i - 1 : jobFrames'[j].line = jobFrames'[i].line - 1
  <2> TAKE i \in DOMAIN jobFrames'
  <2>1. i \in 1 .. n - 1
    BY <1>9
  <2>2. ~jobFrames'[i].snap
    BY <1>4, <2>1
  <2>3. /\ jobFrames'[i].status \in Job!Terminal
             => jobFrames'[i].status = status /\ (status = "done" => jobFrames'[i].result)
        /\ jobFrames'[i].line # 0 =>
             /\ top < jobFrames'[i].line /\ jobFrames'[i].line <= jobLines
             /\ \A j \in 1 .. i - 1 : jobFrames'[j].line < jobFrames'[i].line
             /\ \/ overran \/ jobFrames'[i].line = top + 1
                \/ \E j \in 1 .. i - 1 : jobFrames'[j].line = jobFrames'[i].line - 1
    BY <1>7, <2>1
  <2> QED
    <3>1. jobFrames'[i].status \in Job!Terminal
            => jobFrames'[i].status = status' /\ (status' = "done" => jobFrames'[i].result)
      BY <1>9, <2>3
    <3>2. ASSUME jobFrames'[i].line # 0
          PROVE  /\ Base' < jobFrames'[i].line /\ jobFrames'[i].line <= jobLines'
                 /\ \A j \in 1 .. i - 1 : jobFrames'[j].line < jobFrames'[i].line
      BY <1>5, <1>9, <2>3, <3>2
    <3>3. ASSUME jobFrames'[i].line # 0
          PROVE  \/ overran' \/ jobFrames'[i].line = Base' + 1
                 \/ \E j \in 1 .. i - 1 : jobFrames'[j].line = jobFrames'[i].line - 1
      <4>1. CASE overran
        <5>1. overran'
          BY <4>1, <1>9
        <5> QED
          BY <5>1
      <4>2. CASE ~overran
        BY <4>2, <1>5, <2>3, <3>3
      <4> QED
        BY <4>1, <4>2
    <3> QED
      BY <2>2, <3>1, <3>2, <3>3
<1>11. Base' <= jobLines' /\ (overran' \/ jobLines' = Base' \/ \E i \in DOMAIN jobFrames' : jobFrames'[i].line = jobLines')
  <2>1. Base' <= jobLines
    BY <1>5, <1>6
  <2>2. overran \/ jobLines = Base' \/ \E i \in 1 .. n - 1 : jobFrames'[i].line = jobLines
    BY <1>5, <1>8
  <2>3. overran' \/ jobLines' = Base' \/ \E i \in DOMAIN jobFrames' : jobFrames'[i].line = jobLines'
    <3>1. CASE overran
      <4>1. overran'
        BY <3>1, <1>9
      <4> QED
        BY <4>1
    <3>2. CASE jobLines = Base'
      BY <3>2, <1>9
    <3>3. CASE \E i \in 1 .. n - 1 : jobFrames'[i].line = jobLines
      BY <3>3, <1>9
    <3> QED
      BY <2>2, <3>1, <3>2, <3>3
  <2>4. Base' <= jobLines'
    BY <2>1, <1>9
  <2> QED
    BY <2>3, <2>4
<1> QED
  BY <1>10, <1>11, Zenon DEF StreamHolds

\* The page moves on, and nobody is told of an end.
LEMMA PageMoves ==
  ASSUME JobSizes, JobInv, UNCHANGED <<status, jobLines, overran, view, ends>>,
         rec' \in Records, Rising(rec'.log, overran'), Len(rec'.log) = Job!Least(rec'.total, LogKept),
         view'.epoch <= rec'.epoch, CardHolds', ends # <<>> => conn' = "closed",
         conn' \in {"open", "lost", "asking", "waiting", "retrying", "dead", "closed"},
         jobFrames' \in Seq(Job!Frames), jobAsked' \in Seq(Job!Frames), AskedHolds',
         jobTroubles' \in jobTroubles .. MaxJobTroubles,
         conn' \in {"lost", "asking"} => jobTroubles' > 0, conn' = "asking" => rec'.status = "running",
         conn' = "open" => StreamHolds', conn' # "open" => jobFrames' = <<>>
  PROVE  JobInv'
<1>0. jobTroubles \in Nat /\ MaxJobTroubles \in Nat
  BY JobTypes DEF JobSizes
<1>1. Job!TypeOK'
  <2>1. /\ rec'.status \in Job!Statuses /\ rec'.log \in Seq(1 .. (MaxLogged + 1)) /\ rec'.total \in Nat /\ rec'.epoch \in Nat
        /\ {rec'.there, rec'.result} \subseteq BOOLEAN
    BY DEF Records, Logged
  <2>2. Len(rec'.log) <= LogKept
    BY <2>1 DEF Job!Least, JobSizes
  <2>3. jobTroubles' \in 0 .. MaxJobTroubles
    BY <1>0
  <2> QED
    BY <2>1, <2>2, <2>3 DEF Job!TypeOK, JobInv, Held
<1>2. Held'
  BY <1>1 DEF JobInv, Held
<1>3. EndHolds'
  <2>1. /\ ends' = ends /\ status' = status
        /\ jobTroubles > 1 => jobTroubles' > 1
    BY <1>0
  <2> QED
    BY <2>1 DEF JobInv, EndHolds
<1> QED
  BY <1>2, <1>3 DEF JobInv

LEMMA Hearing ==
  ASSUME JobSizes, JobInv, Job!OnMessage \/ Job!FollowEnds
  PROVE  JobInv'
<1>1. /\ jobLines \in 0 .. (MaxLogged + 1) /\ status \in Job!Statuses /\ jobTroubles \in Nat /\ jobTroubles <= MaxJobTroubles
      /\ rec.log \in Seq(Logged) /\ jobAsked \in Seq(Job!Frames) /\ MaxJobTroubles \in Nat
      /\ jobTroubles \in 0 .. MaxJobTroubles
  BY JobTypes DEF JobInv, Held, Job!TypeOK, JobSizes
<1>2. conn = "open" /\ UNCHANGED <<status, jobLines, overran, jobAsked, view, jobTroubles>>
  BY DEF Job!OnMessage, Job!FollowEnds
<1>3. jobAsked = <<>> /\ ends = <<>>
  BY <1>2 DEF JobInv, AskedHolds, EndHolds
\* What is heard of an end is its end.
<1>4. ASSUME NEW f \in Job!Frames, rec' = Job!Applied(rec, f), f.status \in Job!Terminal,
             conn' = "closed", jobFrames' = <<>>, Job!Ended(rec'),
             f.snap => Rising(f.log, FALSE) /\ Len(f.log) <= LogSent,
             ~f.snap /\ f.line # 0 => f.line > End(rec.log) /\ (overran \/ f.line = End(rec.log) + 1),
             f.status = status, status = "done" => f.result
      PROVE  JobInv'
  <2>1. /\ rec' \in Records /\ Rising(rec'.log, overran') /\ Len(rec'.log) = Job!Least(rec'.total, LogKept)
        /\ rec'.status = f.status /\ (f.result => rec'.result) /\ view'.epoch <= rec'.epoch /\ CardHolds'
    BY <1>2, <1>4, AppliedIs
  <2>2. jobAsked' = <<>> /\ jobTroubles' \in 0 .. MaxJobTroubles /\ conn # "closed"
    BY <1>1, <1>2, <1>3
  <2>3. IF rec'.status = "error" THEN status = "error" \/ jobTroubles' > 1
        ELSE rec'.status = status /\ (status = "done" => rec'.result)
    BY <1>4, <2>1
  <2> QED
    BY <1>2, <1>4, <2>1, <2>2, <2>3, Finishing
<1>5. CASE Job!OnMessage
  <2> DEFINE f == jobFrames[1]
  <2>1. jobFrames # <<>> /\ Job!Hears(Head(jobFrames), Tail(jobFrames))
    BY <1>5 DEF Job!OnMessage
  <2>2. /\ Head(jobFrames) = f /\ f \in Job!Frames
        /\ f.snap => Rising(f.log, FALSE) /\ Len(f.log) <= LogSent
        /\ ~f.snap /\ f.line # 0 => f.line > End(rec.log) /\ (overran \/ f.line = End(rec.log) + 1)
        /\ f.status \in Job!Terminal => f.status = status /\ (status = "done" => f.result)
        /\ Tail(jobFrames) \in Seq(Job!Frames)
    BY <1>2, <2>1, HeardIs
  <2>3. /\ rec' = Job!Applied(rec, f)
        /\ IF f.status \in Job!Terminal
           THEN conn' = "closed" /\ jobFrames' = <<>> /\ Job!Ended(rec')
           ELSE conn' = "open" /\ jobFrames' = Tail(jobFrames) /\ ends' = ends
    BY <2>1, <2>2 DEF Job!Hears
  <2>4. CASE f.status \in Job!Terminal
    <3> HIDE DEF f
    <3> QED
      BY <2>2, <2>3, <2>4, <1>4
  <2>5. CASE f.status \notin Job!Terminal
    <3>1. /\ rec' \in Records /\ Rising(rec'.log, overran') /\ Len(rec'.log) = Job!Least(rec'.total, LogKept)
          /\ End(rec'.log) = IF f.snap THEN End(f.log) ELSE IF f.line = 0 THEN End(rec.log) ELSE f.line
          /\ view'.epoch <= rec'.epoch /\ CardHolds'
      <4> HIDE DEF f
      <4> QED
        BY <1>2, <2>2, <2>3, AppliedIs
    <3>2. StreamHolds'
      BY <1>2, <2>1, <2>3, <2>5, <3>1, StreamHeard
    <3>3. /\ conn' = "open" /\ jobFrames' \in Seq(Job!Frames) /\ jobAsked' = <<>> /\ jobAsked' \in Seq(Job!Frames)
          /\ jobTroubles' \in jobTroubles .. MaxJobTroubles /\ ends' = ends
      BY <1>1, <1>2, <1>3, <2>2, <2>3, <2>5
    <3>4. AskedHolds'
      BY <3>3 DEF AskedHolds
    <3> QED
      BY <1>2, <1>3, <3>1, <3>2, <3>3, <3>4, PageMoves
  <2> QED
    BY <2>4, <2>5
<1>6. CASE Job!FollowEnds
  <2> DEFINE f == Job!Snapshot(status, jobLines)
  <2>1. status \in Job!Terminal /\ Job!Hears(f, <<>>)
    BY <1>6 DEF Job!FollowEnds
  <2>2. /\ f \in Job!Frames /\ f.status = status /\ f.snap /\ f.result = (status = "done")
        /\ Rising(f.log, FALSE) /\ Len(f.log) <= LogSent
    BY <1>1, SnapshotIs
  <2> HIDE DEF f
  <2>3. rec' = Job!Applied(rec, f) /\ conn' = "closed" /\ jobFrames' = <<>> /\ Job!Ended(rec')
    BY <2>1, <2>2 DEF Job!Hears
  <2> QED
    BY <2>1, <2>2, <2>3, <1>4
<1> QED
  BY <1>5, <1>6

\* What a stream that is taken up again begins with is the log as it is.
LEMMA TakenUpAgain ==
  ASSUME JobSizes, JobInv, Job!Connect, UNCHANGED <<status, jobLines, overran>>
  PROVE  conn' = "open" /\ jobFrames' \in Seq(Job!Frames) /\ StreamHolds'
<1>1. jobLines \in 0 .. (MaxLogged + 1) /\ status \in Job!Statuses /\ jobLines \in Nat
  BY JobTypes
<1> DEFINE f == Job!Snapshot(status, jobLines)
<1>2. /\ f \in Job!Frames /\ f.status = status /\ f.snap /\ f.result = (status = "done") /\ f.line = 0
      /\ Rising(f.log, FALSE) /\ Len(f.log) <= LogSent /\ End(f.log) = jobLines
  BY <1>1, SnapshotIs
<1>3. conn' = "open" /\ jobFrames' = <<f>>
  BY DEF Job!Connect
<1> HIDE DEF f
<1>4. /\ jobFrames' \in Seq(Job!Frames) /\ Len(jobFrames') = 1 /\ DOMAIN jobFrames' = 1 .. 1
      /\ jobFrames'[1] = f /\ jobFrames' # <<>>
  BY <1>2, <1>3
<1>5. Base' = jobLines
  BY <1>2, <1>4 DEF Base
<1>6. \A i \in DOMAIN jobFrames' :
        /\ jobFrames'[i].snap => i = 1 /\ jobFrames'[i].line = 0 /\ Rising(jobFrames'[i].log, FALSE)
                                 /\ Len(jobFrames'[i].log) <= LogSent
        /\ jobFrames'[i].status \in Job!Terminal
             => jobFrames'[i].status = status' /\ (status' = "done" => jobFrames'[i].result)
        /\ jobFrames'[i].line = 0
  <2>1. \A i \in DOMAIN jobFrames' : i = 1
    BY <1>4
  <2> QED
    BY <2>1, <1>2, <1>4
<1>7. Base' <= jobLines' /\ jobLines' = Base'
  BY <1>1, <1>5
<1> QED
  BY <1>3, <1>4, <1>6, <1>7, Zenon DEF StreamHolds

LEMMA Following ==
  ASSUME JobSizes, JobInv,
         Job!SocketLost \/ Job!OnError \/ Job!ServerTells \/ Job!Reopens \/ Job!Retries \/ Job!RetryRefused
  PROVE  JobInv'
<1>1. /\ jobLines \in 0 .. (MaxLogged + 1) /\ status \in Job!Statuses /\ jobTroubles \in Nat /\ MaxJobTroubles \in Nat
      /\ jobTroubles \in 0 .. MaxJobTroubles /\ jobAsked \in Seq(Job!Frames) /\ jobFrames \in Seq(Job!Frames)
      /\ <<>> \in Seq(Job!Frames)
  BY JobTypes DEF JobInv, Held, Job!TypeOK, JobSizes
<1>2. status' = status /\ jobLines' = jobLines /\ overran' = overran /\ rec' = rec /\ view' = view /\ ends' = ends
  BY DEF Job!SocketLost, Job!OnError, Job!ServerTells, Job!Reopens, Job!Retries, Job!RetryRefused
<1>3. /\ rec' \in Records /\ Rising(rec'.log, overran') /\ Len(rec'.log) = Job!Least(rec'.total, LogKept)
      /\ view'.epoch <= rec'.epoch /\ CardHolds'
  BY <1>2 DEF JobInv, Held, CardHolds
<1>4. conn # "closed" /\ ends = <<>>
  BY DEF Job!SocketLost, Job!OnError, Job!ServerTells, Job!Reopens, Job!Retries, Job!RetryRefused, JobInv, EndHolds
<1>5. UNCHANGED <<status, jobLines, overran, view, ends>>
  BY <1>2
<1>6. CASE Job!SocketLost
  <2>1. conn = "open" /\ jobTroubles' = jobTroubles + 1 /\ jobTroubles < MaxJobTroubles /\ conn' = "lost"
        /\ jobFrames' = <<>> /\ jobAsked' = jobAsked
    BY <1>6 DEF Job!SocketLost, Job!Trouble
  <2>2. jobAsked' = <<>> /\ AskedHolds'
    BY <2>1 DEF JobInv, AskedHolds
  <2>3. jobTroubles' \in jobTroubles .. MaxJobTroubles /\ jobTroubles' > 0
    BY <1>1, <2>1
  <2> QED
    BY <1>1, <1>3, <1>4, <1>5, <2>1, <2>2, <2>3, PageMoves
<1>7. CASE Job!OnError
  <2>1. conn = "lost" /\ conn' \in {"asking", "retrying"} /\ (conn' = "asking" => rec'.status = "running")
        /\ jobFrames' = jobFrames /\ jobAsked' = jobAsked /\ jobTroubles' = jobTroubles
    BY <1>2, <1>7 DEF Job!OnError
  <2>2. jobAsked' = <<>> /\ AskedHolds' /\ jobFrames' = <<>> /\ jobTroubles > 0
    BY <2>1 DEF JobInv, AskedHolds, EndHolds
  <2>3. jobTroubles' \in jobTroubles .. MaxJobTroubles /\ jobTroubles' > 0
    BY <1>1, <2>1, <2>2
  <2> QED
    BY <1>1, <1>3, <1>4, <1>5, <2>1, <2>2, <2>3, PageMoves
<1>8. CASE Job!ServerTells
  <2> DEFINE f == Job!Snapshot(status, jobLines)
  <2>1. conn = "asking" /\ conn' = "asking" /\ jobAsked' = <<f>> /\ jobFrames' = jobFrames /\ jobTroubles' = jobTroubles
    BY <1>8 DEF Job!ServerTells
  <2>2. /\ f \in Job!Frames /\ f.status = status /\ f.snap /\ f.result = (status = "done")
        /\ Rising(f.log, FALSE) /\ Len(f.log) <= LogSent
    BY <1>1, SnapshotIs
  <2> HIDE DEF f
  <2>3. jobAsked' \in Seq(Job!Frames) /\ Len(jobAsked') = 1 /\ jobAsked'[1] = f
    BY <2>1, <2>2
  <2>4. AskedHolds'
    BY <1>2, <2>1, <2>2, <2>3 DEF AskedHolds
  <2>5. jobFrames' = <<>> /\ jobTroubles > 0 /\ rec'.status = "running"
    BY <1>2, <2>1 DEF JobInv, EndHolds
  <2>6. jobTroubles' \in jobTroubles .. MaxJobTroubles /\ jobTroubles' > 0
    BY <1>1, <2>1, <2>5
  <2> QED
    BY <1>1, <1>3, <1>4, <1>5, <2>1, <2>3, <2>4, <2>5, <2>6, PageMoves
<1>9. ASSUME Job!Reopens \/ Job!Retries \/ Job!RetryRefused PROVE JobInv'
  <2>1. /\ conn \in {"waiting", "retrying"} /\ jobAsked' = jobAsked
        /\ Job!Connect \/ (conn' = "dead" /\ jobFrames' = jobFrames)
        /\ jobTroubles' = jobTroubles \/ (jobTroubles' = jobTroubles + 1 /\ jobTroubles < MaxJobTroubles)
    BY <1>9 DEF Job!Reopens, Job!Retries, Job!RetryRefused, Job!Trouble
  <2>2. jobAsked' = <<>> /\ AskedHolds' /\ jobFrames = <<>>
    BY <2>1 DEF JobInv, AskedHolds
  <2>3. jobTroubles' \in jobTroubles .. MaxJobTroubles
    BY <1>1, <2>1
  <2>4. CASE Job!Connect
    <3>1. conn' = "open" /\ jobFrames' \in Seq(Job!Frames) /\ StreamHolds'
      BY <2>4, <1>5, TakenUpAgain
    <3> QED
      BY <1>1, <1>3, <1>4, <1>5, <2>2, <2>3, <3>1, PageMoves
  <2>5. CASE conn' = "dead" /\ jobFrames' = jobFrames
    BY <1>1, <1>3, <1>4, <1>5, <2>2, <2>3, <2>5, PageMoves
  <2> QED
    BY <2>1, <2>4, <2>5
<1> QED
  BY <1>6, <1>7, <1>8, <1>9

LEMMA TruthIsTaken ==
  ASSUME JobSizes, JobInv, Job!TruthArrives \/ Job!AskingFails
  PROVE  JobInv'
<1>1. /\ jobTroubles \in Nat /\ MaxJobTroubles \in Nat /\ jobTroubles \in 0 .. MaxJobTroubles
      /\ jobAsked \in Seq(Job!Frames) /\ <<>> \in Seq(Job!Frames)
  BY JobTypes DEF JobInv, Held, Job!TypeOK, JobSizes
<1>2. /\ conn = "asking" /\ jobAsked' = <<>> /\ UNCHANGED <<status, jobLines, overran, view>> /\ jobFrames' = jobFrames
      /\ status' = status
  BY DEF Job!TruthArrives, Job!AskingFails
<1>3. ends = <<>> /\ jobFrames' = <<>> /\ jobTroubles > 0 /\ conn # "closed" /\ conn # "open"
  BY <1>2 DEF JobInv, EndHolds
<1>4. CASE Job!TruthArrives
  <2> DEFINE f == jobAsked[1]
  <2>1. /\ jobAsked # <<>> /\ rec' = Job!Applied(rec, Head(jobAsked)) /\ jobTroubles' = jobTroubles
        /\ IF Head(jobAsked).status \in Job!Terminal
           THEN conn' = "closed" /\ Job!Ended(rec')
           ELSE conn' = "waiting" /\ ends' = ends
    BY <1>4 DEF Job!TruthArrives
  <2>2. Head(jobAsked) = f /\ f \in Job!Frames
    BY <2>1, <1>1, HeadTailProperties
  <2>3. /\ f.snap /\ Rising(f.log, FALSE) /\ Len(f.log) <= LogSent
        /\ f.status \in Job!Terminal => f.status = status /\ (status = "done" => f.result)
    BY <2>1 DEF JobInv, AskedHolds
  <2>4. /\ rec' = Job!Applied(rec, f)
        /\ IF f.status \in Job!Terminal
           THEN conn' = "closed" /\ Job!Ended(rec')
           ELSE conn' = "waiting" /\ ends' = ends
    BY <2>1, <2>2
  <2> HIDE DEF f
  <2>5. /\ rec' \in Records /\ Rising(rec'.log, overran') /\ Len(rec'.log) = Job!Least(rec'.total, LogKept)
        /\ rec'.status = f.status /\ (f.result => rec'.result) /\ view'.epoch <= rec'.epoch /\ CardHolds'
    BY <1>2, <2>2, <2>3, <2>4, AppliedIs
  <2>6. CASE f.status \in Job!Terminal
    <3>1. IF rec'.status = "error" THEN status = "error" \/ jobTroubles' > 1
          ELSE rec'.status = status /\ (status = "done" => rec'.result)
      BY <2>3, <2>5, <2>6
    <3>2. jobTroubles' \in 0 .. MaxJobTroubles
      BY <1>1, <2>1
    <3> QED
      BY <1>2, <1>3, <2>4, <2>5, <2>6, <3>1, <3>2, Finishing
  <2>7. CASE f.status \notin Job!Terminal
    <3>1. conn' = "waiting" /\ ends' = ends /\ jobTroubles' \in jobTroubles .. MaxJobTroubles /\ jobTroubles' > 0
      BY <1>1, <1>3, <2>1, <2>4, <2>7
    <3>2. AskedHolds'
      BY <1>2 DEF AskedHolds
    <3> QED
      BY <1>1, <1>2, <1>3, <2>5, <3>1, <3>2, PageMoves
  <2> QED
    BY <2>6, <2>7
<1>5. CASE Job!AskingFails
  <2>1. /\ jobTroubles' = jobTroubles + 1 /\ jobTroubles < MaxJobTroubles /\ conn' = "closed"
        /\ rec' = [rec EXCEPT !.status = "error"] /\ Job!Ended(rec')
    BY <1>5 DEF Job!AskingFails, Job!Trouble
  <2>2. jobTroubles' \in 0 .. MaxJobTroubles /\ jobTroubles' > 1
    BY <1>1, <1>3, <2>1
  <2>3. "error" \in Job!Statuses /\ "error" \in Job!Terminal
    BY DEF Job!Statuses, Job!Terminal
  <2>4. rec \in Records /\ Rising(rec.log, overran) /\ Len(rec.log) = Job!Least(rec.total, LogKept)
        /\ view.epoch <= rec.epoch /\ CardHolds
    BY DEF JobInv, Held
  <2>5. /\ rec' \in Records /\ rec'.status = "error" /\ rec'.log = rec.log /\ rec'.total = rec.total
        /\ rec'.epoch = rec.epoch
    BY <2>1, <2>3, <2>4 DEF Records
  <2>6. Rising(rec'.log, overran') /\ Len(rec'.log) = Job!Least(rec'.total, LogKept) /\ view'.epoch <= rec'.epoch
        /\ CardHolds'
    BY <1>2, <2>4, <2>5 DEF CardHolds
  <2> QED
    BY <1>2, <1>3, <2>1, <2>2, <2>3, <2>5, <2>6, Finishing
<1> QED
  BY <1>4, <1>5

LEMMA ForgettingJobs == ASSUME JobSizes, JobInv, Job!Forgets PROVE JobInv'
<1>1. /\ jobTroubles \in Nat /\ MaxJobTroubles \in Nat /\ jobTroubles \in 0 .. MaxJobTroubles
      /\ jobAsked \in Seq(Job!Frames) /\ <<>> \in Seq(Job!Frames)
  BY JobTypes DEF JobInv, Held, Job!TypeOK, JobSizes
<1>2. /\ rec.status # "running" /\ rec' = [rec EXCEPT !.there = FALSE] /\ conn' = "closed" /\ jobFrames' = <<>>
      /\ UNCHANGED <<status, jobLines, overran, view, ends>> /\ jobAsked' = jobAsked /\ jobTroubles' = jobTroubles
  BY DEF Job!Forgets, Job!MayGo
<1>3. jobAsked' = <<>>
  BY <1>2 DEF JobInv, AskedHolds, EndHolds
<1>4. rec \in Records /\ Rising(rec.log, overran) /\ Len(rec.log) = Job!Least(rec.total, LogKept)
      /\ view.epoch <= rec.epoch /\ CardHolds
  BY DEF JobInv, Held
<1>5. rec' \in Records /\ rec'.log = rec.log /\ rec'.total = rec.total /\ rec'.epoch = rec.epoch
  BY <1>2, <1>4 DEF Records
<1>6. Rising(rec'.log, overran') /\ Len(rec'.log) = Job!Least(rec'.total, LogKept) /\ view'.epoch <= rec'.epoch
      /\ CardHolds' /\ AskedHolds' /\ jobTroubles' \in jobTroubles .. MaxJobTroubles
  BY <1>1, <1>2, <1>3, <1>4, <1>5 DEF CardHolds, AskedHolds
<1> QED
  BY <1>1, <1>2, <1>3, <1>5, <1>6, PageMoves

LEMMA JobSteps == ASSUME JobSizes, JobInv, [Job!Next]_Job!vars PROVE JobInv'
<1>1. CASE UNCHANGED Job!vars
  <2>1. /\ status' = status /\ jobLines' = jobLines /\ conn' = conn /\ jobFrames' = jobFrames /\ overran' = overran
        /\ jobAsked' = jobAsked /\ rec' = rec /\ view' = view /\ ends' = ends /\ jobTroubles' = jobTroubles
    BY <1>1 DEF Job!vars
  <2> QED
    BY <2>1 DEF JobInv, Held, Job!TypeOK, AskedHolds, EndHolds, CardHolds, StreamHolds, Base
<1> QED
  BY <1>1, JobWorks, Hearing, Following, TruthIsTaken, Painted, ForgettingJobs DEF Job!Next

\* The end of a job's log is what a card of it shows that was painted since the last line.
LEMMA CardIsTail == ASSUME JobSizes, JobInv PROVE Job!CardShowsTail
<1>1. /\ rec.log \in Seq(Logged) /\ Len(rec.log) \in Nat /\ rec.total \in Nat /\ view.seen \in Nat
      /\ view.dom \in Seq(Logged) /\ LogInDom \in Nat /\ LogInDom <= LogKept /\ LogKept \in Nat
  BY JobTypes
<1>2. SUFFICES ASSUME view.epoch = rec.epoch, view.seen = rec.total
               PROVE  view.dom = Job!Newest(rec.log, LogInDom)
  BY DEF Job!CardShowsTail
<1> DEFINE tail == Job!Newest(rec.log, LogInDom)
           dom == view.dom
<1>3. /\ Len(dom) = Job!Least(rec.total, LogInDom)
      /\ \A k \in 0 .. Len(dom) - 1 :
           k < Len(rec.log) - (rec.total - rec.total)
             => dom[Len(dom) - k] = rec.log[Len(rec.log) - (rec.total - rec.total) - k]
  BY <1>2 DEF JobInv, CardHolds, CardShows
<1>4. /\ tail \in Seq(Logged) /\ Len(tail) = Job!Least(Len(rec.log), LogInDom)
      /\ \A i \in 1 .. Len(tail) : tail[i] = rec.log[Len(rec.log) - Len(tail) + i]
  BY <1>1, NewestOf
<1>5. Len(rec.log) = Job!Least(rec.total, LogKept)
  BY DEF JobInv, Held
<1>6. dom \in Seq(Logged)
  BY <1>1
<1> HIDE DEF tail, dom
<1>7. Len(dom) = Len(tail) /\ Len(dom) \in Nat /\ Len(dom) <= Len(rec.log)
  BY <1>1, <1>3, <1>4, <1>5 DEF Job!Least
<1>8. ASSUME NEW i \in 1 .. Len(dom) PROVE dom[i] = tail[i]
  <2>1. Len(dom) - i \in 0 .. Len(dom) - 1 /\ Len(dom) - i < Len(rec.log) - (rec.total - rec.total)
        /\ Len(dom) - (Len(dom) - i) = i
        /\ Len(rec.log) - (rec.total - rec.total) - (Len(dom) - i) = Len(rec.log) - Len(dom) + i
    BY <1>1, <1>7
  <2>2. dom[i] = rec.log[Len(rec.log) - Len(dom) + i]
    BY <1>3, <2>1
  <2> QED
    BY <1>4, <1>7, <2>2
<1>9. dom = tail
  BY <1>4, <1>6, <1>7, <1>8, SeqEqual
<1> QED
  BY <1>9 DEF dom, tail

\* However often its stream is lost and taken up again, who waits for a job is told once and of the
\* end it came to, its log has no line twice and no hole, and its card shows the end of that log.
THEOREM JobIsShownTrue == ASSUME JobSizes PROVE Job!Spec => []Job!PagesAreTrue
<1>1. Job!Init => JobInv
  BY JobBegins
<1>2. JobInv /\ [Job!Next]_Job!vars => JobInv'
  BY JobSteps
<1>3. JobInv => Job!PagesAreTrue
  <2> SUFFICES ASSUME JobInv PROVE Job!PagesAreTrue
    OBVIOUS
  <2>1. Job!EndIsTrue
    BY DEF JobInv, EndHolds, Job!EndIsTrue
  <2>2. Job!LogIsWhole
    BY DEF JobInv, Held, Rising, Job!LogIsWhole
  <2> QED
    BY <2>1, <2>2, CardIsTail DEF Job!PagesAreTrue
<1> QED
  BY <1>1, <1>2, <1>3, PTL DEF Job!Spec

-----------------------------------------------------------------------------
(***************************************************************************)
(* The promises of the panel.                                              *)
(***************************************************************************)
\* Schedules: whatever people change of a task and wherever a process dies, a run that was due is
\* made once, a step for a run of its parent or for the time it still had when it came to follow
\* it, and a one-time task at one time after it was saved.
THEOREM PanelRunsAreDue ==
  ASSUME Scheduled!Sizes PROVE Scheduled!Spec => []RunsAreDue
<1>1. Scheduled!Spec => []Scheduled!RunsAreDue
  BY Scheduled!TasksRunWhenDue
<1>2. Scheduled!RunsAreDue => RunsAreDue
  BY DEF RunsAreDue
<1> QED
  BY <1>1, <1>2, PTL

\* Accounts and SignIn: an administrator can get in, changes queue up, and a sign-in is guarded.
THEOREM PanelAccountsHold ==
  ASSUME Accounting!Sizes, CodeSizes
  PROVE  Accounting!Spec /\ SigningIn!Spec => []AccountsHold
<1>1. Accounting!Spec => []Accounting!AccountsHold
  BY Accounting!AdminsStayAndQueue
<1>2. Accounting!AccountsHold /\ SigningIn!AccountsHold => AccountsHold
  BY DEF AccountsHold
<1> QED
  BY <1>1, <1>2, SignInIsGuarded, PTL

\* FleetGroups: the layout people see is the one the tables keep.
THEOREM PanelLayoutHolds == ASSUME FleetSizes PROVE Fleet!Spec => []LayoutHolds
<1>1. Fleet!LayoutHolds => LayoutHolds
  BY DEF LayoutHolds
<1> QED
  BY <1>1, LayoutIsKept, PTL

\* Decisions and DesiredState: what was decided last is kept, and is what the node does.
THEOREM PanelDecisionsHold ==
  ASSUME DecisionSizes, DesiredSizes
  PROVE  Reviewing!Spec /\ Desiring!Spec => []DecisionsHold
<1>1. Reviewing!DecisionsHold /\ Desiring!DecisionsHold => DecisionsHold
  BY DEF DecisionsHold
<1> QED
  BY <1>1, DecisionsAreKept, NodesDoAsDecided, PTL

\* ConsoleRelay, FleetPage and JobsClient: what a page shows is so, or is marked as old.
THEOREM PanelPagesAreTrue ==
  ASSUME Console!Sizes, PageSizes, JobSizes
  PROVE  Console!Spec /\ Viewing!Spec /\ Job!Spec => []PagesAreTrue
<1>1. Console!Spec => []Console!PagesAreTrue
  BY Console!ConsolesAreTrue
<1>2. Console!PagesAreTrue /\ Viewing!PagesAreTrue /\ Job!PagesAreTrue => PagesAreTrue
  BY DEF PagesAreTrue
<1> QED
  BY <1>1, <1>2, PageIsTold, JobIsShownTrue, PTL
=============================================================================
