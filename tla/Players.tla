------------------------------- MODULE Players -------------------------------
(***************************************************************************)
(* The players of a server (app/players.py): operators, bans and the       *)
(* whitelist are lists in files that a running server has in memory as     *)
(* well.  A change goes to the console of a server that runs, which saves  *)
(* its own list, and into the file of one that does not.  Requests overlap *)
(* with one another and with starts and stops, and calls fail.             *)
(*                                                                         *)
(* One list stands for ops.json, whitelist.json and the two of bans; the   *)
(* other is the notes, which only the panel has.                           *)
(***************************************************************************)
EXTENDS Integers, Sequences, FiniteSets

CONSTANTS Names,
          Requests,     \* requests that can be under way
          Selections,   \* sequences of names that are acted on together
          MaxChanges,   \* bound: requests that are made
          MaxPowers,    \* bound: starts and stops
          MaxTroubles   \* bound: calls that fail

VARIABLES up,           \* the server runs
          file, memory, \* the lists as in the files, and that of the server's memory
          mode,         \* the whitelist applies: as in server.properties, and in memory
          req,
          promised,     \* what was last said of each name, list by list
          mixed,        \* a look has failed, or something came in between
          changes, powers, troubles

vars == <<up, file, memory, mode, req, promised, mixed, changes, powers, troubles>>

Lists == {"game", "notes"}
Kinds == {"list", "mode", "kick", "reload"}
NoReq == [kind |-> "none", pc |-> "idle", list |-> "game", on |-> FALSE, left |-> <<>>, read |-> {},
          done |-> {}, failed |-> {}, live |-> FALSE]
Under(q) == req[q].pc \notin {"idle", "done"}

TypeOK ==
  /\ up \in BOOLEAN /\ file \in [Lists -> SUBSET Names] /\ memory \subseteq Names
  /\ mode.file \in BOOLEAN /\ mode.memory \in BOOLEAN
  /\ \A q \in Requests :
       /\ req[q].pc \in {"idle", "look", "console", "read", "profile", "write", "again", "save", "done"}
       /\ req[q].kind \in Kinds \cup {"none"} /\ req[q].read \subseteq Names
       /\ req[q].done \subseteq Names /\ req[q].failed \subseteq Names
  /\ promised \in [Lists -> [Names -> {"", "on", "off"}]] /\ mixed \in BOOLEAN
  /\ changes \in 0..MaxChanges /\ powers \in 0..MaxPowers /\ troubles \in 0..MaxTroubles

Init ==
  /\ up \in BOOLEAN /\ file = [l \in Lists |-> {}] /\ memory = {}
  /\ mode = [file |-> FALSE, memory |-> FALSE]
  /\ req = [q \in Requests |-> NoReq]
  /\ promised = [l \in Lists |-> [n \in Names |-> ""]] /\ mixed = FALSE
  /\ changes = 0 /\ powers = 0 /\ troubles = 0

Works(ok) == IF ok THEN UNCHANGED troubles ELSE troubles < MaxTroubles /\ troubles' = troubles + 1
Put(set, n, on) == IF on THEN set \cup {n} ELSE set \ {n}
Name(q) == Head(req[q].left)

-----------------------------------------------------------------------------
(* The server.                                                             *)

\* It reads the files when it starts.
Starts ==
  /\ ~up /\ powers < MaxPowers /\ powers' = powers + 1
  /\ up' = TRUE /\ memory' = file["game"] /\ mode' = [mode EXCEPT !.memory = mode.file]
  /\ mixed' = (mixed \/ \E q \in Requests : Under(q))
  /\ UNCHANGED <<file, req, promised, changes, troubles>>
Stops ==
  /\ up /\ powers < MaxPowers /\ powers' = powers + 1
  /\ up' = FALSE
  /\ mixed' = (mixed \/ \E q \in Requests : Under(q))
  /\ UNCHANGED <<file, memory, mode, req, promised, changes, troubles>>

-----------------------------------------------------------------------------
(* One request.                                                            *)

\* bulk goes through several names, one after the other.
Asks(q, kind, list, on, names) ==
  /\ changes < MaxChanges /\ changes' = changes + 1
  /\ ~Under(q) /\ (list = "notes" => kind = "list")
  /\ kind \in {"mode", "reload"} \/ list = "notes" => Len(names) = 1
  /\ kind \in {"kick", "reload"} => on
  /\ req' = [req EXCEPT ![q] = [NoReq EXCEPT !.kind = kind, !.list = list, !.on = on, !.left = names,
                                    !.pc = IF list = "notes" THEN "read" ELSE "look"]]
  /\ mixed' = (mixed \/ \E p \in Requests : Under(p))
  /\ UNCHANGED <<up, file, memory, mode, promised, powers, troubles>>

\* The next name of the selection, or the end; what was said of this one is remembered.
Through(r) == [r EXCEPT !.left = Tail(@), !.read = {}, !.pc = IF Len(r.left) = 1 THEN "done" ELSE "look"]
Said(q) == Through([req[q] EXCEPT !.done = @ \cup {Name(q)}])
Refused(q) == Through([req[q] EXCEPT !.failed = @ \cup {Name(q)}])
Promise(q) == promised' = [promised EXCEPT ![req[q].list][Name(q)] = IF req[q].on THEN "on" ELSE "off"]

\* What runs is told on its console; a mode is saved in either case; nobody is kicked, and nothing
\* read again, on a server that does not run.
Routes(q, live) ==
  CASE live -> "console"
    [] req[q].kind = "list" -> "read"
    [] req[q].kind = "mode" -> "save"
    [] OTHER -> "done"

\* _is_running: a look that fails is a server that does not run.
Looks(q, ok) ==
  /\ req[q].pc = "look" /\ Works(ok)
  /\ LET live == up /\ ok
         pc == Routes(q, live) IN
       req' = [req EXCEPT ![q] = IF pc = "done" THEN Refused(q) ELSE [@ EXCEPT !.live = live, !.pc = pc]]
  /\ mixed' = (mixed \/ ~ok)
  /\ UNCHANGED <<up, file, memory, mode, promised, changes, powers>>

\* The command; a server that has stopped meanwhile refuses it.  The server saves its own list.
Commands(q, ok) ==
  /\ req[q].pc = "console"
  /\ IF up THEN Works(ok) ELSE ~ok /\ UNCHANGED troubles
  /\ LET r == req[q]
         n == Name(q) IN
       IF ~ok
       THEN req' = [req EXCEPT ![q] = Refused(q)] /\ UNCHANGED <<file, memory, mode, promised>>
       ELSE CASE r.kind = "list" ->
                   /\ memory' = Put(memory, n, r.on) /\ file' = [file EXCEPT !["game"] = memory']
                   /\ req' = [req EXCEPT ![q] = Said(q)] /\ Promise(q) /\ UNCHANGED mode
              [] r.kind = "mode" ->
                   /\ mode' = [mode EXCEPT !.memory = r.on] /\ req' = [req EXCEPT ![q].pc = "save"]
                   /\ UNCHANGED <<file, memory, promised>>
              [] r.kind = "reload" ->
                   /\ memory' = file["game"] /\ req' = [req EXCEPT ![q] = Said(q)]
                   /\ UNCHANGED <<file, mode, promised>>
              [] OTHER -> req' = [req EXCEPT ![q] = Said(q)] /\ UNCHANGED <<file, memory, mode, promised>>
  /\ UNCHANGED <<up, mixed, changes, powers>>

\* _read_json_list, _read_notes: a file that cannot be read is an empty list.
Reads(q, ok) ==
  /\ req[q].pc = "read" /\ Works(ok)
  /\ req' = [req EXCEPT ![q].read = IF ok THEN file[req[q].list] ELSE {},
                        ![q].pc = IF req[q].on /\ req[q].list = "game" THEN "profile" ELSE "write"]
  /\ mixed' = (mixed \/ ~ok)
  /\ UNCHANGED <<up, file, memory, mode, promised, changes, powers>>

\* resolve_profile: Mojang knows no such name, or knows it, or cannot be asked, which will do.
Resolves(q, known) ==
  /\ req[q].pc = "profile" /\ Works(known)
  /\ req' = [req EXCEPT ![q] = IF known THEN [@ EXCEPT !.pc = "write"] ELSE Refused(q)]
  /\ UNCHANGED <<up, file, memory, mode, promised, mixed, changes, powers>>

\* write_file; when it fails, an empty file is made and the write tried again.  A note that cannot be
\* written is passed over.
Written(q, ok) ==
  /\ file' = IF ok THEN [file EXCEPT ![req[q].list] = Put(req[q].read, Name(q), req[q].on)] ELSE file
  /\ IF ok THEN Promise(q) ELSE UNCHANGED promised
Writes(q, ok) ==
  /\ req[q].pc = "write" /\ Works(ok)
  /\ Written(q, ok)
  /\ req' = [req EXCEPT ![q] = IF ok THEN Said(q) ELSE [@ EXCEPT !.pc = "again"]]
  /\ UNCHANGED <<up, memory, mode, mixed, changes, powers>>
WritesAgain(q, ok) ==
  /\ req[q].pc = "again" /\ Works(ok)
  /\ Written(q, ok)
  /\ req' = [req EXCEPT ![q] = IF ok \/ req[q].list = "notes" THEN Said(q) ELSE Refused(q)]
  /\ UNCHANGED <<up, memory, mode, mixed, changes, powers>>

\* toggle_whitelist: properties.save, whatever the server does.
Saves(q, ok) ==
  /\ req[q].pc = "save" /\ Works(ok)
  /\ mode' = IF ok THEN [mode EXCEPT !.file = req[q].on] ELSE mode
  /\ req' = [req EXCEPT ![q] = IF ok THEN Said(q) ELSE Refused(q)]
  /\ UNCHANGED <<up, file, memory, promised, mixed, changes, powers>>

-----------------------------------------------------------------------------

Next ==
  \/ Starts \/ Stops
  \/ \E q \in Requests, kind \in Kinds, list \in Lists, on \in BOOLEAN, names \in Selections : Asks(q, kind, list, on, names)
  \/ \E q \in Requests, ok \in BOOLEAN :
       \/ Looks(q, ok) \/ Commands(q, ok) \/ Reads(q, ok) \/ Resolves(q, ok)
       \/ Writes(q, ok) \/ WritesAgain(q, ok) \/ Saves(q, ok)

Spec == Init /\ [][Next]_vars

-----------------------------------------------------------------------------
(* Properties.                                                             *)

\* "Effective now" and "takes effect when the server next starts": as long as every look has told the
\* truth and nothing came in between, what was said of a name is in the file, and what is in the file is
\* what the running server has, between the requests.
PromisesAreKept ==
  ~mixed =>
    /\ \A l \in Lists, n \in Names :
         promised[l][n] # "" /\ (\A q \in Requests : Under(q) => n \notin {req[q].left[i] : i \in DOMAIN req[q].left})
           => (promised[l][n] = "on" <=> n \in file[l])
    /\ up /\ (\A q \in Requests : ~Under(q)) => memory = file["game"]

\* bulk, "reporting each outcome": a selection that is through has each of its names done or failed.
EachIsTold ==
  \A q \in Requests : LET r == req[q] IN
    r.pc = "done" => r.left = <<>> /\ r.done \cup r.failed # {} /\ r.done \cap r.failed = {}

\* toggle_whitelist, "in both places it lives": when a request says that the whitelist is on or off and
\* nothing came in between, it is so in both.
BothPlaces ==
  ~mixed => \A q \in Requests : req[q].pc = "done" /\ req[q].kind = "mode" /\ req[q].done # {} =>
    \/ \E p \in Requests : p # q /\ req[p].kind = "mode"
    \/ mode.file = req[q].on /\ (up => mode.memory = req[q].on)
=============================================================================
