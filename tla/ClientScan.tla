------------------------------ MODULE ClientScan ------------------------------
(***************************************************************************)
(* The scan for client-only mods (app/clientscan.py): every jar is read,   *)
(* Modrinth is asked about it, evidence is summed to a verdict, and then   *)
(* the decisions of the operator, the renderers that no server keeps and   *)
(* what the mods that stay require are folded in.  A person then has what  *)
(* was found switched off.  Jars may be unreadable, Modrinth away, and     *)
(* somebody may switch mods meanwhile.                                     *)
(***************************************************************************)
EXTENDS Integers, FiniteSets

CONSTANTS Jars,
          Packs,        \* packs: for each jar [says, needs, renderer, operator]
          MaxScans,     \* bound: scans
          MaxChanges,   \* bound: switches by a person
          MaxTroubles   \* bound: jars that cannot be read, calls that fail

VARIABLES pack,         \* the jars of this server, and what the operator has said of them
          folder,       \* "on" or "off"
          scan,         \* the scan under way, or shown
          sides,        \* jars whose sides the manifest records
          scans, changes, troubles

vars == <<pack, folder, scan, sides, scans, changes, troubles>>

CLIENT_AT == 70
REVIEW_AT == 30

PCs == {"idle", "read", "hash", "score", "persist", "write", "shown", "applied"}
NoScan == [pc |-> "idle", unread |-> {}, hashed |-> FALSE, verdict |-> [j \in Jars |-> "server"],
           never |-> {}, on |-> {}, left |-> {}, others |-> {}, known |-> {}]

TypeOK ==
  /\ DOMAIN pack = Jars /\ folder \in [Jars -> {"on", "off"}]
  /\ scan.pc \in PCs /\ scan.unread \subseteq Jars /\ scan.left \subseteq scan.on
  /\ scan.verdict \in [Jars -> {"server", "review", "keep", "client"}]
  /\ sides \subseteq Jars /\ scans \in 0..MaxScans /\ changes \in 0..MaxChanges /\ troubles \in 0..MaxTroubles

Init ==
  /\ pack \in Packs /\ folder = [j \in Jars |-> "on"] /\ scan = NoScan /\ sides = {}
  /\ scans = 0 /\ changes = 0 /\ troubles = 0

-----------------------------------------------------------------------------
(* evaluate.                                                               *)

\* What the author lists on Modrinth, what the jar declares, its entrypoints, the layout of its
\* packages, its mixins, the libraries it requires, its content, how it is filed, its name.
Nothing == [modrinth |-> "", side |-> "", entry |-> "", layout |-> "", mixins |-> "", library |-> FALSE,
            content |-> "", filed |-> FALSE, named |-> FALSE]
If(b, points) == IF b THEN points ELSE 0
Score(e) ==
  (CASE e.modrinth = "unsupported" -> 100 [] e.modrinth = "client" -> 30 [] e.modrinth = "optional" -> 10
     [] OTHER -> 0)
  + (CASE e.side = "client" -> 100 [] e.side = "both" -> 0 - 25 [] OTHER -> 0)
  + (CASE e.entry = "client" -> 60 [] e.entry = "server" -> 0 - 40 [] OTHER -> 0)
  + (CASE e.layout = "all" -> 75 [] e.layout = "most" -> 40 [] e.layout = "little" -> 0 - 25 [] OTHER -> 0)
  + (CASE e.mixins = "client" -> 45 [] e.mixins = "server" -> 0 - 30 [] OTHER -> 0)
  + If(e.library, 40)
  + (CASE e.content = "data" -> 0 - 15 [] e.content = "assets" -> 8 [] OTHER -> 0)
  + If(e.filed, 12) + If(e.named, REVIEW_AT)

Verdict(e) ==
  IF e.modrinth = "required" \/ e.side = "server" THEN "server"
  ELSE IF Score(e) >= CLIENT_AT THEN "client"
  ELSE IF Score(e) >= REVIEW_AT THEN "review"
  ELSE "server"

\* What can be seen of a jar: its name alone if it could not be read, all but the author's word
\* if Modrinth does not answer.
Seen(j, s) ==
  IF j \in s.unread THEN [Nothing EXCEPT !.named = pack[j].says.named]
  ELSE IF s.hashed THEN pack[j].says ELSE [pack[j].says EXCEPT !.modrinth = ""]

-----------------------------------------------------------------------------
(* apply_overrides.                                                        *)

\* What is known of the needs of a jar, which is nothing if it could not be read.
Needs(j, s) == IF j \in s.unread THEN {} ELSE pack[j].needs
Allowed(j) == pack[j].operator = "allow"

\* 1 and 2: a block makes it client, an allow makes it server, whatever the score.
Decided(s) ==
  [j \in Jars |-> CASE pack[j].operator = "block" -> "client"
                    [] Allowed(j) -> "server"
                    [] OTHER -> Verdict(Seen(j, s))]

\* never_on_server, and what hard-requires one, up the chain; a mod that is already client is
\* passed over.
Renderers == {j \in Jars : pack[j].renderer /\ ~Allowed(j)}
Gone(s) ==
  LET v == Decided(s)
      up[n \in 0..Cardinality(Jars)] ==
        IF n = 0 THEN Renderers
        ELSE up[n - 1] \cup {j \in Jars : v[j] # "client" /\ ~Allowed(j) /\ Needs(j, s) \cap up[n - 1] # {}}
  IN  up[Cardinality(Jars)]

\* Only the jars that stay have a vote.
Staying(v) == {j \in Jars : v[j] = "server"}

\* A bug: what the mods require is looked at before the renderers are known.
OverriddenEarly(s) ==
  LET v == Decided(s)
      protected == {j \in Jars : \E m \in Staying(v) \ {j} : j \in Needs(m, s)}
  IN  [j \in Jars |-> IF v[j] # "server" /\ ~Allowed(j) /\ j \in protected THEN "keep"
                      ELSE IF j \in Gone(s) THEN "client" ELSE v[j]]
\* 3: protection rescues what a staying mod requires.
Overridden(s) ==
  LET gone == Gone(s)
      v == [j \in Jars |-> IF j \in gone THEN "client" ELSE Decided(s)[j]]
      protected == {j \in Jars : \E m \in Staying(v) \ {j} : j \in Needs(m, s)}
  IN  [j \in Jars |-> IF v[j] # "server" /\ ~Allowed(j) /\ j \notin gone /\ j \in protected THEN "keep" ELSE v[j]]

-----------------------------------------------------------------------------
(* scan_instance.                                                          *)

Trouble(n) == troubles + n <= MaxTroubles /\ troubles' = troubles + n

Scans ==
  /\ scans < MaxScans /\ scans' = scans + 1
  /\ scan.pc \in {"idle", "shown", "applied"}
  /\ scan' = [NoScan EXCEPT !.pc = "read", !.on = {j \in Jars : folder[j] = "on"}]
  /\ UNCHANGED <<pack, folder, sides, changes, troubles>>

\* Every jar is downloaded; one that cannot be is judged on its name.
Reads(unread) ==
  /\ scan.pc = "read" /\ Trouble(Cardinality(unread))
  /\ scan' = [scan EXCEPT !.pc = "hash", !.unread = unread]
  /\ UNCHANGED <<pack, folder, sides, scans, changes>>

\* _modrinth_by_hash: all at once, or not at all.
Asks(ok) ==
  /\ scan.pc = "hash" /\ Trouble(IF ok THEN 0 ELSE 1)
  /\ scan' = [scan EXCEPT !.pc = "score", !.hashed = ok]
  /\ UNCHANGED <<pack, folder, sides, scans, changes>>

Scores ==
  /\ scan.pc = "score"
  /\ scan' = [scan EXCEPT !.pc = "persist", !.verdict = Overridden(scan), !.never = Gone(scan)]
  /\ UNCHANGED <<pack, folder, sides, scans, changes, troubles>>

\* _persist_sides: the manifest is read, and written with what Modrinth has said; a failure is
\* only logged.
ReadsManifest(ok) ==
  /\ scan.pc = "persist" /\ Trouble(IF ok THEN 0 ELSE 1)
  /\ scan' = [scan EXCEPT !.pc = IF ok THEN "write" ELSE "shown", !.known = sides]
  /\ UNCHANGED <<pack, folder, sides, scans, changes>>
WritesManifest(ok) ==
  /\ scan.pc = "write" /\ Trouble(IF ok THEN 0 ELSE 1)
  /\ sides' = IF ok /\ scan.hashed
              THEN scan.known \cup {j \in Jars \ scan.unread : pack[j].says.modrinth # ""} ELSE sides
  /\ scan' = [scan EXCEPT !.pc = "shown"]
  /\ UNCHANGED <<pack, folder, scans, changes>>

\* apply_scan: what the scan calls actionable is switched off, one jar after another.
Applies ==
  /\ scan.pc = "shown"
  /\ scan' = [scan EXCEPT !.pc = "applied", !.left = {j \in scan.on : scan.verdict[j] = "client"}]
  /\ UNCHANGED <<pack, folder, sides, scans, changes, troubles>>
TurnsOff(j, ok) ==
  /\ scan.pc = "applied" /\ j \in scan.left /\ Trouble(IF ok THEN 0 ELSE 1)
  /\ folder' = IF ok THEN [folder EXCEPT ![j] = "off"] ELSE folder
  /\ scan' = [scan EXCEPT !.left = @ \ {j}, !.others = IF ok THEN @ ELSE @ \cup {j}]
  /\ UNCHANGED <<pack, sides, scans, changes>>

PersonSwitches(j) ==
  /\ scan.pc \in {"shown", "applied"}
  /\ changes < MaxChanges /\ changes' = changes + 1
  /\ folder' = [folder EXCEPT ![j] = IF @ = "on" THEN "off" ELSE "on"]
  /\ scan' = [scan EXCEPT !.others = @ \cup {j}]
  /\ UNCHANGED <<pack, sides, scans, troubles>>

-----------------------------------------------------------------------------

Next ==
  \/ Scans \/ Scores \/ Applies
  \/ \E unread \in SUBSET Jars : Reads(unread)
  \/ \E ok \in BOOLEAN : Asks(ok) \/ ReadsManifest(ok) \/ WritesManifest(ok)
  \/ \E j \in Jars : PersonSwitches(j) \/ \E ok \in BOOLEAN : TurnsOff(j, ok)

Spec == Init /\ [][Next]_vars

-----------------------------------------------------------------------------
(* Properties.                                                             *)

\* The verdicts of a scan do not change afterwards.
Judged == scan.pc = "persist"

\* apply_overrides, "removing it would break that mod": when what was found has been switched off, a
\* mod that the scan calls fine still has every library that was on, unless that is a renderer or
\* comes down to one, or somebody has switched it.
FineModsKeepTheirs ==
  scan.pc = "applied" /\ scan.left = {} =>
    \A j \in Jars : scan.verdict[j] = "server" /\ folder[j] = "on" =>
      \A n \in Needs(j, scan) \cap scan.on : folder[n] = "on" \/ n \in scan.never \cup scan.others

\* "An allow makes it server, whatever the score"; a block stays client unless a mod that stays needs
\* it; what the jar's author requires of a server, read or asked, is not called client unless the
\* operator or a renderer says so.
DecisionsRule ==
  Judged =>
    \A j \in Jars : LET v == scan.verdict[j] IN
      /\ Allowed(j) => v = "server"
      /\ pack[j].operator = "block" /\ v # "client" =>
           v = "keep" /\ \E m \in Jars : scan.verdict[m] = "server" /\ j \in Needs(m, scan)
      /\ v = "client" => pack[j].operator = "block" \/ j \in scan.never \/ Verdict(Seen(j, scan)) = "client"

\* never_on_server, "no rule here ever keeps one": a renderer that is not allowed is client, and so is
\* a mod that requires it.
RenderersGo ==
  Judged =>
    \A j \in Jars : ~Allowed(j) /\ (pack[j].renderer \/ \E n \in Needs(j, scan) : n \in Renderers)
      => scan.verdict[j] \in {"client"} \cup (IF Decided(scan)[j] = "client" /\ j \notin scan.never THEN {"keep"} ELSE {})

\* The name list, "worth surfacing and never worth acting on unasked": with nothing but hints, a jar
\* of no decision is at most to be reviewed.
HintsOnlyAsk ==
  Judged =>
    \A j \in Jars : LET e == Seen(j, scan) IN
      /\ pack[j].operator = "none" /\ j \notin scan.never
      /\ e.modrinth \in {"", "optional"} /\ e.side # "client" /\ e.entry # "client" /\ ~e.library
      /\ e.layout \in {"", "little"} /\ e.mixins # "client"
      => scan.verdict[j] # "client"

\* "And so is everything that hard-requires them, all the way up the chain": no mod that is kept needs
\* one that needs a renderer.
\* Does not hold: see README, section 6.
ChainGoesToo ==
  Judged =>
    \A j \in Jars : ~Allowed(j) /\ scan.verdict[j] # "client" =>
      \A n \in Needs(j, scan) : Allowed(n) \/ Needs(n, scan) \cap Renderers = {}
=============================================================================
