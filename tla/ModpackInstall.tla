--------------------------- MODULE ModpackInstall ---------------------------
(***************************************************************************)
(* The install pipeline of app/installer.py and the operations that can    *)
(* follow it on the same server: a version switch, an install into the     *)
(* server that an earlier one left behind, "Finish setup"                  *)
(* (app/provision.py) and the jars a person brings by hand (app/mods.py).  *)
(* The process that runs the install may die before any of its steps.      *)
(*                                                                         *)
(* A mod is described by the facts about it that the pipeline decides on:  *)
(*   "unlisted"    CurseForge has no metadata for its file                 *)
(*   "excluded"    the review leaves it out                                *)
(*   "flagged"     the review keeps it switched off                        *)
(*   "clientlike"  its jar looks client-only                               *)
(*   "author"      its author marks it unsupported on servers              *)
(*   "fabric"      built for Fabric, while the pack runs (Neo)Forge        *)
(*   "connector"   it is Sinytra Connector                                 *)
(*   "off"         the pack lists it with "required": false                *)
(*   "blocked"     its author forbids third-party downloads                *)
(*   "addressed"   its address, size and hash are published                *)
(*   "held"        the node's cache has a copy someone brought             *)
(*   "bundled"     the archive carries it, the manifest does not           *)
(***************************************************************************)
EXTENDS Naturals, FiniteSets

CONSTANTS Mods,         \* the mods of the pack
          Kinds,        \* the sets of facts a mod may have
          MaxInstalls,  \* bound: installs, switches and retries
          MaxTroubles   \* bound: calls that fail, crashes included

VARIABLES pack,         \* the facts of each mod
          reviewed,     \* the request carries the decisions of a review
          wholePack,    \* the archive is a server pack: all of it is bundled
          step,         \* where the running operation is
          todo,         \* manifest entries not handled yet
          target,       \* "on" or "off": how each mod is to be placed
          flags,        \* why a mod is placed off
          dropped, problems, blocked,   \* mods that are not placed
          onNode,       \* mods the node says it has fetched
          disk,         \* the forms of each mod in the folder
          server, loader,               \* created; its loader is installed
          manifest,     \* the install manifest on the node
          clean,        \* the folder was empty when this install began
          installs, troubles

install == <<todo, target, flags, dropped, problems, blocked, onNode>>
request == <<pack, reviewed, wholePack>>
vars == <<request, step, install, disk, server, loader, manifest, clean, installs, troubles>>

NoManifest == [complete |-> FALSE, pending |-> FALSE, blocked |-> {}, written |-> FALSE]
Stub == [NoManifest EXCEPT !.written = TRUE]

Has(m, fact) == fact \in pack[m]
Bundled(m) == wholePack \/ Has(m, "bundled")
Listed == {m \in Mods : ~Bundled(m)}
Placed == {m \in Mods : target[m] # "none"}
OnDisk(m) == disk[m] # {}
Required(m) == ~Has(m, "off")

Steps == {"idle", "switch", "plan", "create", "stub", "loader", "mods", "overlay",
          "authors", "node", "upload", "bring", "settings", "manifest", "first", "boot", "done",
          "failed"}
TypeOK ==
  /\ pack \in [Mods -> Kinds] /\ {reviewed, wholePack, server, loader, clean} \subseteq BOOLEAN
  /\ step \in Steps
  /\ target \in [Mods -> {"none", "on", "off"}]
  /\ flags \in [Mods -> SUBSET {"client", "wrong", "switched"}]
  /\ UNION {todo, dropped, problems, blocked, onNode, manifest.blocked} \subseteq Mods
  /\ disk \in [Mods -> SUBSET {"on", "off"}]
  /\ manifest \in [complete : BOOLEAN, pending : BOOLEAN, blocked : SUBSET Mods, written : BOOLEAN]
  /\ installs \in 0..MaxInstalls /\ troubles \in 0..MaxTroubles

Nothing == /\ todo = {} /\ target = [m \in Mods |-> "none"] /\ flags = [m \in Mods |-> {}]
           /\ dropped = {} /\ problems = {} /\ blocked = {} /\ onNode = {}
Init ==
  /\ pack \in [Mods -> Kinds] /\ reviewed \in BOOLEAN /\ wholePack \in BOOLEAN
  /\ step = "idle" /\ Nothing
  /\ disk = [m \in Mods |-> {}] /\ server = FALSE /\ loader = FALSE
  /\ manifest = NoManifest /\ clean = TRUE
  /\ installs = 0 /\ troubles = 0

Trouble == troubles < MaxTroubles /\ troubles' = troubles + 1
Idle == step \in {"idle", "done", "failed"}

(***************************************************************************)
(* How an operation begins.                                                *)
(***************************************************************************)
Begins ==           \* an install, into a new server or one left behind
  /\ Idle /\ installs < MaxInstalls
  /\ step' = "plan" /\ clean' = (\A m \in Mods : ~OnDisk(m))
  /\ installs' = installs + 1
  /\ reviewed' \in BOOLEAN
  /\ todo' = {} /\ target' = [m \in Mods |-> "none"] /\ flags' = [m \in Mods |-> {}]
  /\ dropped' = {} /\ problems' = {} /\ blocked' = {} /\ onNode' = {}
  /\ UNCHANGED <<pack, wholePack, disk, server, loader, manifest, troubles>>

\* switch_pack_version: the world is backed up, or nothing is switched; then the old
\* mods go. A folder that cannot be listed or emptied is taken for a missing one.
Switches ==
  /\ Idle /\ server /\ manifest.written /\ installs < MaxInstalls
  /\ step' = "switch"
  /\ UNCHANGED <<request, install, disk, server, loader, manifest, clean, installs, troubles>>
SwitchRefused ==
  /\ step = "switch" /\ Trouble
  /\ step' = "failed"
  /\ UNCHANGED <<request, install, disk, server, loader, manifest, clean, installs>>
SwitchEmpties ==
  /\ step = "switch"
  /\ \/ disk' = [m \in Mods |-> {}] /\ UNCHANGED troubles
     \/ Trouble /\ UNCHANGED disk
  /\ step' = "plan" /\ clean' = (\A m \in Mods : disk'[m] = {})
  /\ installs' = installs + 1
  /\ reviewed' \in BOOLEAN
  /\ todo' = {} /\ target' = [m \in Mods |-> "none"] /\ flags' = [m \in Mods |-> {}]
  /\ dropped' = {} /\ problems' = {} /\ blocked' = {} /\ onNode' = {}
  /\ UNCHANGED <<pack, wholePack, server, loader, manifest>>

\* A step raises, or the process dies in it: the server stays as it is.
Breaks ==
  /\ ~Idle /\ Trouble
  /\ step' = "failed"
  /\ UNCHANGED <<request, install, disk, server, loader, manifest, clean, installs>>

(***************************************************************************)
(* The server and its loader, for an install that was not given a server.  *)
(***************************************************************************)
PlanRead ==
  /\ step = "plan"
  /\ step' = IF server THEN "mods" ELSE "create"
  /\ todo' = Listed
  /\ UNCHANGED <<request, target, flags, dropped, problems, blocked, onNode, disk, server,
                 loader, manifest, clean, installs, troubles>>
Creates ==
  /\ step = "create" /\ step' = "stub" /\ server' = TRUE
  /\ UNCHANGED <<request, install, disk, loader, manifest, clean, installs, troubles>>
StubWritten ==      \* a stub that cannot be written is done without
  /\ step = "stub" /\ step' = "loader"
  /\ \/ manifest' = Stub /\ UNCHANGED troubles
     \/ Trouble /\ UNCHANGED manifest
  /\ UNCHANGED <<request, install, disk, server, loader, clean, installs>>
LoaderInstalled ==
  /\ step = "loader" /\ step' = "mods" /\ loader' = TRUE
  /\ UNCHANGED <<request, install, disk, server, manifest, clean, installs, troubles>>

(***************************************************************************)
(* What becomes of each mod.                                               *)
(***************************************************************************)
LooksClient(m) == IF reviewed THEN Has(m, "flagged") ELSE Has(m, "clientlike")
FlagsOf(m) == {f \in {"client", "wrong", "switched"} :
                 \/ f = "client" /\ LooksClient(m)
                 \/ f = "wrong" /\ Has(m, "fabric")
                 \/ f = "switched" /\ Has(m, "off")}
TargetOf(fs) == IF fs = {} THEN "on" ELSE "off"

\* `one` in _download_manifest_mods, for one entry: what its returns decide, in their order.
LeftOut(m) == reviewed /\ Has(m, "excluded") /\ ~Has(m, "unlisted")
Barred(m) == Has(m, "blocked") /\ ~Has(m, "unlisted") /\ ~LeftOut(m)
Fetchable(m) == ~Has(m, "unlisted") /\ ~LeftOut(m) /\ ~Barred(m)
Handles(m) ==
  /\ step = "mods" /\ m \in todo /\ todo' = todo \ {m}
  /\ dropped' = dropped \cup {x \in {m} : LeftOut(x)}
  /\ blocked' = blocked \cup {x \in {m} : Barred(x)}
  /\ \/ /\ Fetchable(m)
        /\ flags' = [flags EXCEPT ![m] = FlagsOf(m)]
        /\ target' = [target EXCEPT ![m] = TargetOf(FlagsOf(m))]
        /\ UNCHANGED <<problems, troubles>>
     \/ Fetchable(m) /\ Trouble /\ problems' = problems \cup {m} /\ UNCHANGED <<flags, target>>
     \/ /\ ~Fetchable(m) /\ problems' = problems \cup {x \in {m} : Has(x, "unlisted")}
        /\ UNCHANGED <<flags, target, troubles>>
  /\ UNCHANGED <<request, step, onNode, disk, server, loader, manifest, clean, installs>>

\* connector_pass: with Connector switched on, a Fabric jar that is off for that alone.
ReEnabledAll ==
  IF \E c \in Placed : Has(c, "connector") /\ flags[c] = {}
  THEN {m \in Placed : "wrong" \in flags[m]} ELSE {}
ReEnabled ==
  IF \E c \in Placed : Has(c, "connector") /\ flags[c] = {}
  THEN {m \in Placed : flags[m] = {"wrong"}} ELSE {}
ConnectorPass ==
  /\ step = "mods" /\ todo = {} /\ step' = "overlay"
  /\ flags' = [m \in Mods |-> IF m \in ReEnabled THEN {} ELSE flags[m]]
  /\ target' = [m \in Mods |-> IF m \in ReEnabled THEN "on" ELSE target[m]]
  /\ UNCHANGED <<request, todo, dropped, problems, blocked, onNode, disk, server, loader,
                 manifest, clean, installs, troubles>>

\* The jars of the archive itself. A server pack is installed as its author ships it.
OverlayFlags(m) == IF LooksClient(m) /\ (reviewed \/ ~wholePack) THEN {"client"} ELSE {}
Overlay ==
  LET bundle == Mods \ Listed
      leave == {m \in bundle : reviewed /\ Has(m, "excluded")}
      take == bundle \ leave
  IN /\ step = "overlay" /\ step' = "authors"
     /\ dropped' = dropped \cup leave
     /\ flags' = [m \in Mods |-> IF m \in take THEN OverlayFlags(m) ELSE flags[m]]
     /\ target' = [m \in Mods |-> IF m \in take THEN TargetOf(OverlayFlags(m)) ELSE target[m]]
     /\ UNCHANGED <<request, todo, problems, blocked, onNode, disk, server, loader, manifest,
                    clean, installs, troubles>>

\* _author_declared_client: without a review; an answer that does not come changes nothing.
AuthorsAsked ==
  LET theirs == {m \in Placed : Has(m, "author") /\ flags[m] = {}}
  IN /\ step = "authors" /\ step' = "node"
     /\ \/ /\ ~reviewed
           /\ flags' = [m \in Mods |-> IF m \in theirs THEN {"client"} ELSE flags[m]]
           /\ target' = [m \in Mods |-> IF m \in theirs THEN "off" ELSE target[m]]
           /\ UNCHANGED troubles
        \/ (reviewed \/ theirs = {}) /\ UNCHANGED <<flags, target, troubles>>
        \/ ~reviewed /\ Trouble /\ UNCHANGED <<flags, target>>
     /\ UNCHANGED <<request, todo, dropped, problems, blocked, onNode, disk, server, loader,
                    manifest, clean, installs>>

(***************************************************************************)
(* Getting the files onto the node.                                        *)
(***************************************************************************)
Written(ms) == [m \in Mods |-> IF m \in ms THEN disk[m] \cup {target[m]} ELSE disk[m]]
Remote == {m \in Placed : Has(m, "addressed") /\ ~Bundled(m)}

\* _fetch_on_node: all of them, all but the ones it names, or an answer that names none
\* (an error, an old agent that did nothing): then every one of them is uploaded.
NodeFetched ==
  /\ step = "node" /\ step' = "upload"
  /\ \/ onNode' = Remote /\ disk' = Written(Remote) /\ UNCHANGED troubles
     \/ Trouble /\ \E failed \in SUBSET Remote \ {{}} :
          onNode' = Remote \ failed /\ disk' = Written(Remote \ failed)
     \/ Trouble /\ onNode' = {} /\ \E some \in {{}, Remote} : disk' = Written(some)
  /\ UNCHANGED <<request, todo, target, flags, dropped, problems, blocked, server, loader,
                 manifest, clean, installs>>
Uploads ==          \* _push_batches; one that fails breaks the install after any batch
  /\ step = "upload"
  /\ \/ step' = "bring" /\ disk' = Written(Placed \ onNode) /\ UNCHANGED troubles
     \/ Trouble /\ step' = "failed" /\ \E some \in SUBSET (Placed \ onNode) : disk' = Written(some)
  /\ UNCHANGED <<request, install, server, loader, manifest, clean, installs>>

\* _bring_from_node: blocked jars the node's cache has, put in place switched on.
Brings ==
  /\ step = "bring" /\ step' = "settings"
  /\ LET here == {m \in blocked : Has(m, "held")}
     IN \/ /\ blocked' = blocked \ here
           /\ disk' = [m \in Mods |-> IF m \in here THEN disk[m] \cup {"on"} ELSE disk[m]]
           /\ UNCHANGED troubles
        \/ here # {} /\ Trouble /\ UNCHANGED <<blocked, disk>>
  /\ UNCHANGED <<request, todo, target, flags, dropped, problems, onNode, server, loader,
                 manifest, clean, installs>>

(***************************************************************************)
(* The manifest, and the first boot that waits for the jars to bring.      *)
(***************************************************************************)
Settles ==          \* EULA, port, heap, container, Java: none of them can fail the install
  /\ step = "settings" /\ step' = "manifest"
  /\ UNCHANGED <<request, install, disk, server, loader, manifest, clean, installs, troubles>>
Records ==
  /\ step = "manifest" /\ step' = "first"
  /\ \/ /\ manifest' = [complete |-> TRUE, pending |-> FALSE, blocked |-> blocked, written |-> TRUE]
        /\ UNCHANGED troubles
     \/ Trouble /\ UNCHANGED manifest
  /\ UNCHANGED <<request, install, disk, server, loader, clean, installs>>

MustBring == {m \in blocked : Required(m)}
FirstBoot ==
  /\ step = "first"
  /\ IF MustBring = {} THEN step' = "boot" /\ UNCHANGED <<manifest, troubles>>
     ELSE /\ step' = "done"
          /\ \/ manifest' = [manifest EXCEPT !.pending = TRUE, !.written = TRUE] /\ UNCHANGED troubles
             \/ Trouble /\ UNCHANGED manifest
  /\ UNCHANGED <<request, install, disk, server, loader, clean, installs>>
Booted ==           \* boot_and_repair: module Repair
  /\ step = "boot" /\ step' = "done"
  /\ UNCHANGED <<request, install, disk, server, loader, manifest, clean, installs, troubles>>

\* accept_blocked: the jar goes in, and the last required one starts the boot.
StillMissing(m) == {b \in manifest.blocked \ {m} : ~OnDisk(b) /\ Required(b)}
AcceptBlocked(m) ==
  /\ Idle /\ m \in manifest.blocked
  /\ disk' = [disk EXCEPT ![m] = @ \cup {"on"}]
  /\ IF StillMissing(m) = {} /\ manifest.pending
     THEN /\ step' = "boot"
          /\ \/ manifest' = [manifest EXCEPT !.pending = FALSE] /\ UNCHANGED troubles
             \/ Trouble /\ UNCHANGED manifest
     ELSE UNCHANGED <<step, manifest, troubles>>
  /\ UNCHANGED <<request, install, server, loader, clean, installs>>

\* reinstall_loader: "Finish setup" of a server whose install stopped half-way.
FinishSetup ==
  /\ Idle /\ server /\ manifest.written /\ ~manifest.complete
  /\ \/ loader' = TRUE /\ manifest' = [manifest EXCEPT !.complete = TRUE] /\ UNCHANGED troubles
     \/ loader' = TRUE /\ Trouble /\ UNCHANGED manifest
     \/ Trouble /\ UNCHANGED <<loader, manifest>>
  /\ UNCHANGED <<request, install, step, disk, server, clean, installs>>

Pipeline == \/ PlanRead \/ Creates \/ StubWritten \/ LoaderInstalled
            \/ (\E m \in Mods : Handles(m)) \/ ConnectorPass \/ Overlay \/ AuthorsAsked
            \/ NodeFetched \/ Uploads \/ Brings \/ Settles \/ Records \/ FirstBoot \/ Booted
            \/ SwitchEmpties
Next == \/ Begins \/ Switches \/ SwitchRefused \/ Breaks \/ Pipeline \/ FinishSetup
        \/ \E m \in Mods : AcceptBlocked(m)
Spec == Init /\ [][Next]_vars

(***************************************************************************)
(* Properties.                                                             *)
(***************************************************************************)
\* When an install comes to record itself, every mod of the pack is in the folder in
\* the form it was given, or was left out, failed or is to be brought - whatever the
\* node claimed, and however much of its work was lost (_fetch_on_node, _push_batches).
EveryModAccounted ==
  step \in {"settings", "manifest", "first"} =>
    \A m \in Mods : \/ m \in UNION {dropped, problems, blocked}
                    \/ target[m] \in disk[m]
                    \/ target[m] = "none" /\ disk[m] = {"on"}       \* from the node's cache

\* In a folder this install began with empty, no mod is switched on that the review,
\* its jar, its loader or the pack wanted off - unless Connector runs it, or it is a
\* blocked one that came from the cache or from a person (_download_manifest_mods).
MeantOff(m) == \/ LooksClient(m) /\ (Has(m, "flagged") \/ ~wholePack)
               \/ Has(m, "off") /\ ~Bundled(m)
OffStaysOff ==
  clean /\ step \in {"settings", "manifest", "first"} =>
    \A m \in Mods : MeantOff(m) /\ "on" \in disk[m] => Has(m, "blocked") /\ ~Bundled(m)

\* The first boot, whether it follows the install or the last jar somebody brings,
\* never runs while a mod the server needs is still missing: repair would go and
\* switch off the mods that need it (install_modpack, accept_blocked).
BootHasItsMods ==
  step = "boot" => \A m \in manifest.blocked : Required(m) => OnDisk(m)
=============================================================================
