------------------------------- MODULE Repair -------------------------------
(***************************************************************************)
(* The first boot of a new server and its repairs, app/repair.py: boot;    *)
(* when the boot fails, read what it proves, repair exactly that, and boot *)
(* again, at most MaxRounds times.  A person may switch mods on and off on *)
(* the Mods tab meanwhile, and a repair may fail to apply.                 *)
(*                                                                         *)
(* What is true of the jars is chosen once: which run on a client only,    *)
(* which of those say so in their metadata, which carry server content,    *)
(* and what each requires.  A boot with something missing names all of it; *)
(* a boot with a client-only jar crashes, and the log may name that jar or *)
(* another one that was loading beside it.                                 *)
(***************************************************************************)
EXTENDS Naturals, FiniteSets

CONSTANTS Jars,
          Renderers,    \* libraries that never run on a server (clientscan)
          Catalogue,    \* jars CurseForge or Modrinth let anyone download
          MaxRounds,    \* MAX_ROUNDS
          MaxToggles,   \* bound: what a person switches meanwhile
          MaxTroubles   \* bound: repairs that cannot be applied, boots that are slow

VARIABLES client, says, content, needs,     \* the truth about the jars
          disk,                             \* "absent", "on" or "off"
          phase, round, report, tried,      \* the session
          toggles, troubles
facts == <<client, says, content, needs>>
vars == <<facts, disk, phase, round, report, tried, toggles, troubles>>

Enabled == {j \in Jars : disk[j] = "on"}
Off == {j \in Jars : disk[j] = "off"}
Users(l) == {j \in Enabled \ {l} : l \in needs[j]}
Missing == {p \in Jars \X Enabled : p[1] \in needs[p[2]] \ Enabled}

Doings == {"disable", "enable", "install"} \X Jars
Reports == [kind : {"none", "missing"}] \cup [kind : {"crash"}, jar : Jars, loaded : BOOLEAN]
TypeOK ==
  /\ {client, says, content} \subseteq SUBSET Jars /\ needs \in [Jars -> SUBSET Jars]
  /\ disk \in [Jars -> {"absent", "on", "off"}]
  /\ phase \in {"boot", "decide", "ready", "slow", "failed"}
  /\ round \in 1..MaxRounds /\ report \in Reports /\ tried \subseteq Doings
  /\ toggles \in 0..MaxToggles /\ troubles \in 0..MaxTroubles

Init ==
  /\ client \in SUBSET Jars /\ says \in SUBSET client /\ content \in SUBSET Jars
  /\ needs \in [Jars -> {{}} \cup {{j} : j \in Jars}] /\ \A j \in Jars : j \notin needs[j]
  /\ disk \in [Jars -> {"absent", "on", "off"}]
  /\ phase = "boot" /\ round = 1 /\ report = [kind |-> "none"] /\ tried = {}
  /\ toggles = 0 /\ troubles = 0

(***************************************************************************)
(* One boot (module BootTest), as the session hears of it.                 *)
(***************************************************************************)
Says(r) == phase' = "decide" /\ report' = r /\ UNCHANGED troubles
Boots ==
  /\ phase = "boot"
  /\ \/ Missing # {} /\ Says([kind |-> "missing"])
     \/ /\ Missing = {} /\ Enabled \cap client # {}
        /\ \/ \E j \in Enabled \cap client : Says([kind |-> "crash", jar |-> j, loaded |-> TRUE])
           \/ \E j \in Enabled : Says([kind |-> "crash", jar |-> j, loaded |-> FALSE])
     \/ /\ Missing = {} /\ Enabled \cap client = {}
        /\ phase' = "ready" /\ UNCHANGED <<report, troubles>>
     \/ /\ troubles < MaxTroubles /\ troubles' = troubles + 1
        /\ phase' = "slow" /\ UNCHANGED report
  /\ UNCHANGED <<facts, disk, round, tried, toggles>>

(***************************************************************************)
(* What a failed boot proves (decide).                                     *)
(***************************************************************************)
ForMissing(d, b) ==
  IF d \in Renderers \/ (d \in Off /\ d \in says) THEN <<"disable", b>>
  ELSE IF d \in Off THEN <<"enable", d>>
  ELSE IF d \in Catalogue THEN <<"install", d>>
  ELSE <<"disable", b>>

\* A jar named in a crash goes if it loaded the client class itself, or says it is a
\* client mod; one that was only there goes if nothing of the server is in it or needs it.
ToBlame(r) == \/ r.loaded \/ r.jar \in says
              \/ r.jar \notin content /\ Users(r.jar) = {}

Proved == IF report.kind = "missing" THEN {ForMissing(p[1], p[2]) : p \in Missing}
          ELSE {<<"disable", j>> : j \in {e \in Enabled : e = report.jar /\ ToBlame(report)}}

Undo(a) == CASE a[1] = "disable" -> <<"enable", a[2]>>
             [] a[1] = "enable" -> <<"disable", a[2]>>
             [] OTHER -> a
\* Nothing twice, and nothing that takes back what this session did (plan, in decide).
Planned(as) == {a \in as : a \notin tried /\ Undo(a) \notin tried}

\* Installing a jar brings what it requires and is not there yet (add_mod_with_dependencies).
Brought(as) == {j \in Jars : \E a \in as : a[1] = "install" /\
                  (j = a[2] \/ (j \in needs[a[2]] \cap Catalogue /\ disk[j] = "absent"))}
After(as) == [j \in Jars |->
  IF <<"disable", j>> \in as /\ disk[j] # "absent" THEN "off"
  ELSE IF <<"enable", j>> \in as \/ j \in Brought(as) THEN "on"
  ELSE disk[j]]

NextRound == IF round < MaxRounds THEN phase' = "boot" /\ round' = round + 1
             ELSE phase' = "failed" /\ UNCHANGED round
Decides ==
  LET plan == Planned(Proved)
  IN /\ phase = "decide" /\ report' = [kind |-> "none"]
     /\ \/ plan = {} /\ phase' = "failed" /\ UNCHANGED <<disk, round, tried, troubles>>
        \/ /\ plan # {} /\ tried' = tried \cup plan /\ NextRound
           /\ \/ disk' = After(plan) /\ UNCHANGED troubles
              \/ /\ troubles < MaxTroubles /\ troubles' = troubles + 1
                 /\ \E a \in plan : disk' = After(plan \ {a})
     /\ UNCHANGED <<facts, toggles>>

Toggles(j) ==       \* a person, on the Mods tab
  /\ phase \in {"boot", "decide"} /\ toggles < MaxToggles /\ disk[j] # "absent"
  /\ toggles' = toggles + 1
  /\ disk' = [disk EXCEPT ![j] = IF @ = "on" THEN "off" ELSE "on"]
  /\ UNCHANGED <<facts, phase, round, report, tried, troubles>>

Next == Boots \/ Decides \/ \E j \in Jars : Toggles(j)
Spec == Init /\ [][Next]_vars /\ WF_vars(Boots \/ Decides)

(***************************************************************************)
(* Properties.                                                             *)
(***************************************************************************)
\* Over all its boots a session never switches on what it switched off, nor off what it
\* switched on, whatever a person does in between: "the loop flip-flops" (plan in decide).
NeverUndoes == \A j \in Jars : ~({<<"disable", j>>, <<"enable", j>>} \subseteq tried)

\* A mod with server content that is not a client mod is switched off only when it
\* requires something no server can have: a renderer, a client mod, or a jar that may
\* not be downloaded.  Never because a log named it beside the one that crashed (decide).
ContentIsKept ==
  \A j \in content \ client : <<"disable", j>> \in tried =>
    \E d \in needs[j] : d \in Renderers \cup says \/ d \notin Catalogue

\* Every round after the first follows a repair that had not been tried before, so a
\* session does not spend its boots on what already failed to help (boot_and_repair).
RoundsAreNew == round <= Cardinality(tried) + 1
=============================================================================
