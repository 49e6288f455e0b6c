----------------------------- MODULE DesiredState -----------------------------
(***************************************************************************)
(* What should be on a node: the panel's row of each server                *)
(* (app/engine/agent.py) and the spec its agent holds (agent/servers.py:   *)
(* put, delete), with the calls between them and the agent's reconcile     *)
(* when it starts (agent/main.py).                                         *)
(*                                                                         *)
(* A state of a server is the number of the change that made it; Nothing   *)
(* is no row, or no spec.                                                  *)
(***************************************************************************)
EXTENDS Integers, FiniteSets

CONSTANTS Servers, Requests,
          MaxChanges,  \* bound: changes people ask for
          MaxTroubles  \* bound: calls without an answer, processes that stop

VARIABLES row,       \* servers: the desired state
          spec,      \* what the agent holds, in memory and on its disk
          request,   \* the requests of the panel
          late,      \* calls the panel gave up on that may yet be handled
          agent,     \* "down", "up" (serving, no desired state yet), "got" an answer, "settled"
          desired,   \* that answer
          excused,   \* servers whose disagreement was said, or follows from an overlap
          mixed,     \* servers somebody worked on since the reconcile under way asked
          changes, troubles

vars == <<row, spec, request, late, agent, desired, excused, mixed, changes, troubles>>

Nothing == 0
States == Nothing..MaxChanges
Idle == [op |-> "none", server |-> CHOOSE s \in Servers : TRUE, state |-> Nothing, pc |-> "idle"]
Calls == [server : Servers, state : States]     \* Nothing: a DELETE
TypeOK ==
  /\ row \in [Servers -> States] /\ spec \in [Servers -> States] /\ desired \in [Servers -> States]
  /\ request \in [Requests -> [op : {"none", "create", "update", "delete"}, server : Servers,
                               state : States, pc : {"idle", "call", "undo", "drop"}]]
  /\ late \subseteq Calls /\ agent \in {"down", "up", "got", "settled"}
  /\ excused \subseteq Servers /\ mixed \subseteq Servers
  /\ changes \in 0..MaxChanges /\ troubles \in 0..MaxTroubles

Init ==
  /\ row = [s \in Servers |-> Nothing] /\ spec = row /\ desired = row
  /\ request = [r \in Requests |-> Idle] /\ late = {} /\ agent = "down"
  /\ excused = {} /\ mixed = {} /\ changes = 0 /\ troubles = 0

Trouble == troubles < MaxTroubles /\ troubles' = troubles + 1
Change == changes < MaxChanges /\ changes' = changes + 1
Busy(s) == \E r \in Requests : request[r].pc # "idle" /\ request[r].server = s
Overlaps(s) == Busy(s) \/ \E c \in late : c.server = s
Ends(r) == request' = [request EXCEPT ![r] = Idle]
Goes(r, pc) == request' = [request EXCEPT ![r].pc = pc]
Excuses(s) == excused' = excused \cup {s}

(***************************************************************************)
(* Requests of the panel: the row first, then the call.                    *)
(***************************************************************************)
Begins(r, op, s, state) ==
  /\ request[r] = Idle
  /\ request' = [request EXCEPT ![r] = [op |-> op, server |-> s, state |-> state, pc |-> "call"]]
  /\ excused' = IF Overlaps(s) THEN excused \cup {s} ELSE excused
  /\ mixed' = mixed \cup {s}

Create(r, s) ==
  /\ Change /\ row[s] = Nothing /\ Begins(r, "create", s, changes')
  /\ row' = [row EXCEPT ![s] = changes']
  /\ UNCHANGED <<spec, late, agent, desired, troubles>>

Update(r, s) ==
  /\ Change /\ row[s] # Nothing /\ Begins(r, "update", s, changes')
  /\ row' = [row EXCEPT ![s] = changes']
  /\ UNCHANGED <<spec, late, agent, desired, troubles>>

Delete(r, s) ==
  /\ Change /\ row[s] # Nothing /\ Begins(r, "delete", s, Nothing)
  /\ UNCHANGED <<row, spec, late, agent, desired, troubles>>

\* The agent handles the call and its answer arrives.
Answered(r) ==
  /\ request[r].pc = "call" /\ agent # "down"
  /\ spec' = [spec EXCEPT ![request[r].server] = request[r].state]
  /\ IF request[r].op = "delete" THEN Goes(r, "drop") ELSE Ends(r)
  /\ UNCHANGED <<row, late, agent, desired, excused, mixed, changes, troubles>>

\* EngineError: the agent does not answer, or it does and the answer is lost, or it will handle
\* the call later.  A create then takes its row back.
Unanswered(r, fate) ==
  /\ request[r].pc = "call"
  /\ IF agent = "down" THEN fate = "lost" /\ UNCHANGED troubles ELSE Trouble
  /\ Excuses(request[r].server)
  /\ LET call == [server |-> request[r].server, state |-> request[r].state]
     IN  /\ spec' = IF fate = "handled" THEN [spec EXCEPT ![call.server] = call.state] ELSE spec
         /\ late' = IF fate = "late" THEN late \cup {call} ELSE late
  /\ IF request[r].op = "create" THEN Goes(r, "undo") ELSE Ends(r)
  /\ UNCHANGED <<row, agent, desired, mixed, changes>>

Undo(r) ==
  /\ request[r].pc = "undo"
  /\ row' = [row EXCEPT ![request[r].server] = Nothing] /\ Ends(r)
  /\ UNCHANGED <<spec, late, agent, desired, excused, mixed, changes, troubles>>

Drop(r) ==
  /\ request[r].pc = "drop"
  /\ row' = [row EXCEPT ![request[r].server] = Nothing] /\ Ends(r)
  /\ UNCHANGED <<spec, late, agent, desired, excused, mixed, changes, troubles>>

Arrives(c) ==
  /\ c \in late /\ agent # "down" /\ late' = late \ {c}
  /\ spec' = [spec EXCEPT ![c.server] = c.state] /\ mixed' = mixed \cup {c.server}
  /\ UNCHANGED <<row, request, agent, desired, excused, changes, troubles>>

\* The panel stops: its requests end where they are, unanswered.
PanelStops ==
  /\ Trouble
  /\ request' = [r \in Requests |-> Idle]
  /\ excused' = excused \cup {s \in Servers : Busy(s)}
  /\ UNCHANGED <<row, spec, late, agent, desired, mixed, changes>>

(***************************************************************************)
(* The agent: load() from its disk, and _reconcile.                        *)
(***************************************************************************)
AgentStarts ==
  /\ agent = "down" /\ agent' = "up"
  /\ UNCHANGED <<row, spec, request, late, desired, excused, mixed, changes, troubles>>

AgentStops ==
  /\ agent # "down" /\ Trouble /\ agent' = "down"
  /\ UNCHANGED <<row, spec, request, late, desired, excused, mixed, changes>>

\* The panel answers with its rows; who works on a server now may be ahead of that answer.
Fetches ==
  /\ agent = "up" /\ agent' = "got" /\ desired' = row
  /\ mixed' = {s \in Servers : Overlaps(s)}
  /\ UNCHANGED <<row, spec, request, late, excused, changes, troubles>>

\* put for every server the panel named; one it does not know is reported and left alone.
Taken(s) == IF desired[s] # Nothing THEN desired[s] ELSE spec[s]
Reconciles ==
  /\ agent = "got" /\ agent' = "settled"
  /\ spec' = [s \in Servers |-> Taken(s)]
  /\ excused' = (excused \cup mixed) \ {s \in Servers : desired[s] # Nothing /\ s \notin mixed}
  /\ UNCHANGED <<row, request, late, desired, mixed, changes, troubles>>

Next ==
  \/ \E r \in Requests, s \in Servers : Create(r, s) \/ Update(r, s) \/ Delete(r, s)
  \/ \E r \in Requests :
       Answered(r) \/ Undo(r) \/ Drop(r) \/ \E fate \in {"lost", "handled", "late"} : Unanswered(r, fate)
  \/ \E c \in late : Arrives(c)
  \/ PanelStops \/ AgentStarts \/ AgentStops \/ Fetches \/ Reconciles

Spec == Init /\ [][Next]_vars

(***************************************************************************)
(* Properties.                                                             *)
(***************************************************************************)
\* "if the push fails, the change is still recorded and the agent picks it up on its next
\* reconcile": with nothing under way, panel and node agree on a server, unless its last call
\* was answered with an error, or overlapped another, and the agent has not reconciled since.
QuietAgrees ==
  \A s \in Servers : ~Overlaps(s) /\ s \notin excused => spec[s] = row[s]

\* "creates what is missing": once an agent has reconciled, a server of the panel that nobody
\* worked on since it asked is on the node as the panel has it, whatever was lost before.
NothingMissing ==
  agent = "settled" =>
    \A s \in Servers : row[s] # Nothing /\ s \notin mixed => spec[s] = row[s]

\* The two together: what the panel decided is what the node does, once it could be told.
DecisionsHold == QuietAgrees /\ NothingMissing
===============================================================================
