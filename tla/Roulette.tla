------------------------------ MODULE Roulette ------------------------------
(* A modpack nobody chose (src/app/roulette.py): mods are dealt from a pool *)
(* in rounds, each pinned to a build, the hand is vetted (src/app/          *)
(* kinship.py), one slot may be dealt again, and the hand is installed.     *)
(*                                                                          *)
(* Mods are numbered by downloads: 1 has the most.  The facts of a mod:     *)
(*   "library"  "banned" (its category)  "nobuild" for this version         *)
(*   "client"   known from the catalogue   "side"   known with the file     *)
(*   "chaos"  "huge"  "heavy"  "stale"  "unloved" (below the quality floor) *)
(*   "filed"    an add-on by its category, which only names the parent      *)
(*   "blocked"  its author forbids downloads                                *)
EXTENDS Integers, Sequences, FiniteSets, SequencesExt

CONSTANTS
  Mods,        \* the catalogue, 1..n
  Pool,        \* the mods the pool has sampled
  Worlds,      \* what the catalogue says: [facts, parent, clash, needs]
  Settings,    \* [count, intensity, client, conflict, cap, deps]
  Holds,       \* the mods somebody may hold
  Spare,       \* what is dealt beyond the shortfall
  MaxRounds,   \* max_rounds (4)
  MaxRerolls,  \* bound on the slots that are dealt again
  MaxTroubles  \* bound on the calls of a catalogue that fail

VARIABLES
  world,     \* one of Worlds
  asked,     \* one of Settings, and what is held
  phase,     \* deal, dealt, pack, done, failed
  hand,      \* the entries: a mod, and the add-on it was brought in for or None
  tried, round,
  pack,      \* what is installed: the mods kept of the hand, and what was added
  record,    \* manifest["roll"]
  rerolls, troubles

vars == <<world, asked, phase, hand, tried, round, pack, record, rerolls, troubles>>

None == 0
Has(m, f) == f \in world.facts[m]
Rolled(m) == [mod |-> m, bringsFor |-> None]
ModsOf(h) == {h[i].mod : i \in DOMAIN h}
RolledOf(h) == SelectSeq(h, LAMBDA e : e.bringsFor = None)
NoPack == [kept |-> {}, added |-> {}, unread |-> {}]
NoRecord == [made |-> FALSE, exported |-> FALSE, mods |-> 0]

Init ==
  /\ world \in Worlds
  /\ \E c \in Settings, h \in Holds : asked = [set |-> c, held |-> h]
  /\ phase = "deal" /\ hand = <<>> /\ tried = {} /\ round = 0
  /\ pack = NoPack /\ record = NoRecord
  /\ rerolls = 0 /\ troubles = 0

\* Calls that fail count against the bound: whole bulk calls and single look-ups.
Fail(n) == troubles' = troubles + n /\ troubles' <= MaxTroubles

IsLibrary(m) == Has(m, "library")

-----------------------------------------------------------------------------
(* Which mods may be dealt, and which of a hand belong together.            *)

Eligible ==
  {m \in Pool :
     /\ ~ Has(m, "banned") /\ ~ Has(m, "unloved")
     /\ Has(m, "client") => asked.set.client
     /\ Has(m, "chaos") => asked.set.conflict /\ asked.set.intensity >= 4
     /\ Has(m, "huge") => ~ asked.set.cap \/ asked.set.intensity >= 3
     /\ Has(m, "stale") => asked.set.intensity > 2
     /\ Has(m, "heavy") => asked.set.intensity > 1}

\* It has a build for exactly this version that the loader runs.
Buildable(m) == ~ Has(m, "nobuild")
\* That build was found, and may be downloaded.
Pinned(m, down) == Buildable(m) /\ ~ Has(m, "blocked") /\ m \notin down

\* The parent of an add-on; a declared one only if the catalogue described what is required.
ParentOf(m, told) == IF told \/ Has(m, "filed") THEN world.parent[m] ELSE None

\* Of two that clash, by declaration or family, the one with fewer downloads is dropped.
Clashing(ms) == {m \in ms : \E o \in ms : o < m /\ {o, m} \in world.clash}
\* A bug: only what is new is looked at.
VetTrusting(h, old, told, down) ==
  SelectSeq(h, LAMBDA e : e.mod \notin Clashing({x \in ModsOf(h) : x \notin ModsOf(old)}))

Vet(h, old, told, down) ==
  LET live == SelectSeq(h, LAMBDA e : ~ IsLibrary(e.mod) \/ e.bringsFor # None)
      Parent(m) == ParentOf(m, told)
      orphans == {m \in ModsOf(live) : Parent(m) # None /\ Parent(m) \notin ModsOf(h)}
      Found(p, m) == p \in Pool \/ (~ Has(m, "filed") /\ p \notin down)
      stays == {m \in orphans : Found(Parent(m), m) /\ ~ Has(Parent(m), "banned")}
      \* each parent comes in once, for the first of its add-ons
      First(e) == /\ e.mod \in stays
                  /\ \A i \in DOMAIN live : live[i].mod \in stays /\ Parent(live[i].mod) = Parent(e.mod)
                       => \E j \in 1..i : live[j] = e
      bring == SelectSeq(live, First)
      vain == {m \in ModsOf(bring) : ~ Pinned(Parent(m), down)}
      brought == SelectSeq(bring, LAMBDA e : e.mod \notin vain)
      whole == SelectSeq(live, LAMBDA e : e.mod \notin (orphans \ stays) \union vain)
                 \o [i \in DOMAIN brought |-> [mod |-> Parent(brought[i].mod), bringsFor |-> brought[i].mod]]
  IN SelectSeq(whole, LAMBDA e : e.mod \notin Clashing(ModsOf(whole)))

-----------------------------------------------------------------------------
(* The rounds.                                                              *)

Want == asked.set.count
Need == Want - Len(RolledOf(hand))
Available == Pool \ tried
Held == IF round = 0 THEN asked.held \intersect Eligible \intersect Available ELSE {}
Rest == (Eligible \intersect Available) \ Held
AtMost(n, s) == IF Cardinality(s) < n THEN Cardinality(s) ELSE n
\* The held first, in the order of the pool, and then a draw.
Draws ==
  LET n == AtMost(AtMost(Need + Spare, Pool) - Cardinality(Held), Rest) IN
    {SetToSortSeq(Held, <) \o d : d \in UNION {SetToSeqs(s) : s \in {t \in SUBSET Rest : Cardinality(t) = n}}}
New(d) == SelectSeq(d, LAMBDA m : m \notin ModsOf(hand))

More == phase = "deal" /\ Need > 0 /\ round < MaxRounds /\ Available # {}

\* Dealt, pinned, the client mods that only show now left out unless they are held, and the
\* whole hand vetted.
Deals ==
  /\ More
  /\ \E d \in Draws, down \in SUBSET Mods, told \in BOOLEAN :
       LET dealt == New(d)
           fits == SelectSeq(dealt, LAMBDA m :
                     Pinned(m, down) /\ (Has(m, "side") => asked.set.client \/ m \in asked.held))
           more == hand \o [i \in DOMAIN fits |-> Rolled(fits[i])]
           vetted == Vet(more, hand, told, down)
       IN /\ dealt # <<>>
          /\ down \subseteq Range(dealt) \union {world.parent[m] : m \in ModsOf(more)}
          /\ Fail(Cardinality(down) + IF told THEN 0 ELSE 1)
          /\ hand' = vetted
          /\ tried' = tried \union Range(dealt) \union (ModsOf(more) \ ModsOf(vetted))
  /\ round' = round + 1
  /\ UNCHANGED <<world, asked, phase, pack, record, rerolls>>

\* Trimmed on the rolled mods; a companion stays with its add-on.
Trimmed(h) ==
  LET rolled == RolledOf(h)
      keeping == {rolled[i].mod : i \in {j \in DOMAIN rolled : j <= Want}}
  IN SelectSeq(h, LAMBDA e : e.mod \in keeping \/ e.bringsFor \in keeping)

\* The hand is full, or there is nothing more to deal: one last look at what goes out.
GoesOut ==
  /\ phase = "deal"
  /\ ~ More \/ \A d \in Draws : New(d) = <<>>
  /\ \E down \in SUBSET {world.parent[m] : m \in ModsOf(hand)}, told \in BOOLEAN :
       /\ Fail(Cardinality(down \ {None}) + IF told THEN 0 ELSE 1)
       /\ hand' = Vet(Trimmed(hand), <<>>, told, down)
  /\ phase' = "dealt"
  /\ UNCHANGED <<world, asked, tried, round, pack, record, rerolls>>

-----------------------------------------------------------------------------
(* One slot dealt again, and the hand accepted.                             *)

\* One that cannot be pinned is replaced in turn.
Replacements == {m \in Eligible \ ModsOf(hand) : Pinned(m, {})}
Rerolls ==
  /\ phase = "dealt" /\ rerolls < MaxRerolls /\ rerolls' = rerolls + 1
  /\ \E i \in DOMAIN hand, m \in Replacements, down \in SUBSET Mods, told \in BOOLEAN :
       LET swapped == [hand EXCEPT ![i] = Rolled(m)] IN
         /\ down \subseteq {world.parent[x] : x \in ModsOf(swapped)} \ {None}
         /\ Fail(Cardinality(down) + IF told THEN 0 ELSE 1)
         /\ hand' = Vet(swapped, hand, told, down)
  /\ UNCHANGED <<world, asked, phase, tried, round, pack, record>>

\* What a mod needs that is not in the hand, and what that needs.
Lacks(ms, have) == UNION {world.needs[m] : m \in ms} \ have
PlanOf(m, have) ==
  LET one == Lacks({m}, have)  two == one \union Lacks(one, have) IN two \union Lacks(two, have)
\* A mod that needs what its author does not let be downloaded leaves.
DropsFor(m, have) == \E d \in PlanOf(m, have) : Has(d, "blocked") /\ Buildable(d)

\* Every mod is pinned again; what they need and is missing is added.
Accepts ==
  /\ phase = "dealt" /\ hand # <<>>
  /\ \E down, unread \in SUBSET ModsOf(hand) :
       LET have == {m \in ModsOf(hand) : m \notin down}
           read == IF asked.set.deps THEN have \ unread ELSE {}
           stay == {m \in have : m \in read => ~ DropsFor(m, have)}
       IN /\ Fail(Cardinality(down) + Cardinality(unread))
          /\ phase' = IF have = {} THEN "failed" ELSE "pack"
          /\ pack' = IF have = {} THEN NoPack
                     ELSE [kept |-> stay,
                           added |-> {d \in UNION {PlanOf(m, have) : m \in read} :
                                        ~ Has(d, "blocked") /\ Buildable(d)},
                           unread |-> have \ read]
  /\ UNCHANGED <<world, asked, hand, tried, round, record, rerolls>>

\* The export is written or not, the pack goes the way of any other, and the manifest of the
\* server is told of the roll.
Installs ==
  /\ phase = "pack"
  /\ \/ phase' = "failed" /\ UNCHANGED record
     \/ /\ phase' = "done"
        /\ \E written, told \in BOOLEAN :
             record' = [made |-> told, exported |-> told /\ written,
                        mods |-> IF told THEN Cardinality(pack.kept \union pack.added) ELSE 0]
  /\ UNCHANGED <<world, asked, hand, tried, round, pack, rerolls, troubles>>

Next == Deals \/ GoesOut \/ Rerolls \/ Accepts \/ Installs
Spec == Init /\ [][Next]_vars

-----------------------------------------------------------------------------
(* Properties.                                                              *)

TypeOK ==
  /\ phase \in {"deal", "dealt", "pack", "done", "failed"}
  /\ \A i \in DOMAIN hand : hand[i].mod \in Mods /\ hand[i].bringsFor \in Mods \union {None}
  /\ tried \subseteq Mods /\ round \in 0..MaxRounds

\* Nothing is in a hand that has no build for the version or whose category is banned, and
\* nothing was dealt that the settings leave out: also after a slot is dealt again.
HandIsReal ==
  /\ \A m \in ModsOf(hand) : Buildable(m) /\ ~ Has(m, "banned")
  /\ ModsOf(RolledOf(hand)) \subseteq Eligible

\* No two mods of a hand refuse to sit beside each other, whichever rounds they came in.
HandAgrees == \A m, o \in ModsOf(hand) : {m, o} \notin world.clash \/ m = o

\* A hand has no mod twice; as dealt it has no more rolled mods than were asked for, and one
\* that is held and has nothing against it is there.
SlotsHold ==
  /\ IsInjective([i \in DOMAIN hand |-> hand[i].mod])
  /\ phase # "deal" /\ rerolls = 0 => Len(RolledOf(hand)) <= Want
  /\ phase = "dealt" /\ rerolls = 0 /\ troubles = 0 /\ Cardinality(asked.held) <= Want =>
       \A m \in asked.held \intersect Eligible :
         \/ IsLibrary(m) \/ ~ Pinned(m, {}) \/ world.parent[m] # None
         \/ \E o \in Mods : {o, m} \in world.clash
         \/ m \in ModsOf(hand)

\* What is installed has all that it needs, but for a mod that was dropped of the hand, and
\* nothing that may not be downloaded.
PackLoads ==
  /\ \A m \in pack.kept \union pack.added : ~ Has(m, "blocked")
  /\ \A m \in pack.kept \ pack.unread :
       world.needs[m] \subseteq pack.kept \union pack.added \union ModsOf(hand)
                                  \union {d \in Mods : Has(d, "nobuild")}

\* An add-on has its parent with it (the catalogue has answered every call).
\* Does not hold: see README, section 6.
AddonsHaveParents ==
  phase = "dealt" /\ troubles = 0 =>
    \A m \in ModsOf(hand) : world.parent[m] # None => world.parent[m] \in ModsOf(hand)
=============================================================================
