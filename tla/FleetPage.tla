----------------------------- MODULE FleetPage ------------------------------
(***************************************************************************)
(* What the fleet page knows of a server (app/fleetbus.py, app/agent_api.py,*)
(* app/engine/agent.py, app/static/js/app.js): a change on the node is      *)
(* pushed to the page, which reads the fleet again; readings of the node are*)
(* shared for two seconds; and a poll is there for when the stream is not.  *)
(* A state of the server is the number of changes before it.                *)
(***************************************************************************)
EXTENDS Integers, Sequences

CONSTANTS
  Queue,       \* QUEUE: events a page may fall behind by
  MaxGets,     \* bound on the page's requests under way
  MaxChanges,  \* bound on the changes of the server
  MaxEvents,   \* bound on the events that carry numbers only
  MaxTroubles  \* bound on streams lost, pages hidden, nodes silent and powers asked for

VARIABLES
  now,    \* the state of the server on its node
  told,   \* changes that are on their way to the panel
  ent,    \* the reading of the node that is shared, and the fetch under way
  stream, \* the queue of the page in _subs
  page,   \* what the page shows and is about to do
  gets,   \* GET /api/instances: each with what was the state when the shared reading last grew old
  fence,  \* the state at that time, now
  budget

vars == <<now, told, ent, stream, page, gets, fence, budget>>

None == -1
States == 0 .. MaxChanges
Reading == [n : States \cup {None}, ok : BOOLEAN]
Unreachable == [n |-> None, ok |-> FALSE]   \* "orphan"
NoGet == [pc |-> "none", fence |-> 0, out |-> Unreachable]
Requests == 1 .. MaxGets

TypeOK ==
  /\ now \in States /\ told \in 0 .. MaxChanges /\ fence \in States
  /\ ent \in [last : Reading, fresh : BOOLEAN, task : {"none", "asked", "read"}, got : States \cup {None}]
  /\ stream \in [open : BOOLEAN, queue : Seq({"change", "numbers", "lagged"}), gap : BOOLEAN]
  /\ Len(stream.queue) <= Queue
  /\ page \in [shown : Reading, due : BOOLEAN, hidden : BOOLEAN]
  /\ gets \in [Requests -> [pc : {"none", "asked", "waits", "answer"}, fence : States, out : Reading]]
  /\ budget \in [events : 0 .. MaxEvents, troubles : 0 .. MaxTroubles]

Init ==
  /\ now = 0 /\ told = 0 /\ fence = 0
  /\ ent = [last |-> Unreachable, fresh |-> FALSE, task |-> "none", got |-> None]
  /\ stream = [open |-> FALSE, queue |-> <<>>, gap |-> FALSE]
  /\ page = [shown |-> Unreachable, due |-> FALSE, hidden |-> FALSE]
  /\ gets = [g \in Requests |-> NoGet]
  /\ budget = [events |-> 0, troubles |-> 0]

Trouble == /\ budget.troubles < MaxTroubles
           /\ budget' = [budget EXCEPT !.troubles = @ + 1]

(* The bus.  An event for a full queue takes its place and that of what was *)
(* in it; the place is told of.                                             *)
Published(kind) ==
  IF ~stream.open THEN stream
  ELSE IF Len(stream.queue) < Queue THEN [stream EXCEPT !.queue = Append(@, kind)]
  ELSE [stream EXCEPT !.queue = <<"lagged">>, !.gap = TRUE]

\* The server starts, stops or crashes; its node tells the panel, or has lost the event.
Changes ==
  /\ now < MaxChanges
  /\ now' = now + 1
  /\ \E lost \in {0, 1} : told' = told + 1 - lost
  /\ UNCHANGED <<ent, stream, page, gets, fence, budget>>

\* agent_events publishes before its session commits.
PanelHears ==
  /\ told > 0 /\ told' = told - 1
  /\ stream' = Published("change")
  /\ UNCHANGED <<now, ent, page, gets, fence, budget>>

\* A batch with the numbers of the node, which the page writes into what it shows.
NumbersCome ==
  /\ budget.events < MaxEvents
  /\ budget' = [budget EXCEPT !.events = @ + 1]
  /\ stream' = Published("numbers")
  /\ UNCHANGED <<now, told, ent, page, gets, fence>>

\* A power action that went through: what the node said a moment ago is about to be wrong.
Powers ==
  /\ Trouble
  /\ ent' = [ent EXCEPT !.fresh = FALSE]
  /\ stream' = Published("change")
  /\ UNCHANGED <<now, told, page, gets, fence>>

(* The page's stream and its timers.                                        *)
Opens ==
  /\ ~stream.open
  /\ stream' = [open |-> TRUE, queue |-> <<>>, gap |-> FALSE]
  /\ UNCHANGED <<now, told, ent, page, gets, fence, budget>>

\* The connection is lost: the queue goes, and EventSource comes back with a new one.
Loses ==
  /\ stream.open /\ Trouble
  /\ stream' = [open |-> FALSE, queue |-> <<>>, gap |-> FALSE]
  /\ UNCHANGED <<now, told, ent, page, gets, fence>>

Takes ==
  /\ stream.open /\ stream.queue # <<>>
  /\ stream' = [stream EXCEPT !.queue = Tail(@), !.gap = @ /\ Head(stream.queue) # "lagged"]
  /\ page' = [page EXCEPT !.due = @ \/ Head(stream.queue) # "numbers"]
  /\ UNCHANGED <<now, told, ent, gets, fence, budget>>

Asks ==
  \E g \in Requests :
    /\ gets[g].pc = "none" /\ \A h \in Requests : h < g => gets[h].pc # "none"
    /\ gets' = [gets EXCEPT ![g] = [pc |-> "asked", fence |-> fence, out |-> Unreachable]]

Rereads ==
  /\ page.due /\ Asks
  /\ page' = [page EXCEPT !.due = FALSE]
  /\ UNCHANGED <<now, told, ent, stream, fence, budget>>

\* Every fifteen seconds while somebody looks, and as soon as somebody looks again.
Polls ==
  /\ ~page.hidden /\ Asks
  /\ UNCHANGED <<now, told, ent, stream, page, fence, budget>>

Turns ==
  /\ Trouble
  /\ page' = [page EXCEPT !.hidden = ~@]
  /\ UNCHANGED <<now, told, ent, stream, gets, fence>>

(* The panel: readings of a node are shared, and fetched once.              *)
StatsAsked ==
  \E g \in Requests :
    /\ gets[g].pc = "asked"
    /\ gets' = [gets EXCEPT ![g].pc = IF ent.fresh THEN "answer" ELSE "waits",
                            ![g].out = IF ent.fresh THEN ent.last ELSE @]
    /\ ent' = IF ent.fresh \/ ent.task # "none" THEN ent ELSE [ent EXCEPT !.task = "asked"]
    /\ UNCHANGED <<now, told, stream, page, fence, budget>>

NodeReads ==
  /\ ent.task = "asked"
  /\ ent' = [ent EXCEPT !.task = "read", !.got = now]
  /\ UNCHANGED <<now, told, stream, page, gets, fence, budget>>

\* Whoever waited for the fetch has its outcome.
Ends(reading) ==
  /\ ent' = [last |-> reading, fresh |-> TRUE, task |-> "none", got |-> None]
  /\ gets' = [g \in Requests |->
       IF gets[g].pc = "waits" THEN [gets[g] EXCEPT !.pc = "answer", !.out = reading] ELSE gets[g]]
  /\ UNCHANGED <<now, told, stream, page, fence>>

FetchEnds ==
  /\ ent.task = "read"
  /\ Ends([n |-> ent.got, ok |-> TRUE]) /\ UNCHANGED budget

\* The node does not answer: the last reading stays, marked.
FetchFails ==
  /\ ent.task # "none" /\ Trouble
  /\ Ends([ent.last EXCEPT !.ok = FALSE])

\* The handler waits no longer than the node has to answer; the fetch goes on.
WaitsTooLong ==
  \E g \in Requests :
    /\ gets[g].pc = "waits" /\ Trouble
    /\ gets' = [gets EXCEPT ![g].pc = "answer"]
    /\ UNCHANGED <<now, told, ent, stream, page, fence>>

GrowsOld ==
  /\ ent.fresh
  /\ ent' = [ent EXCEPT !.fresh = FALSE]
  /\ fence' = now
  /\ UNCHANGED <<now, told, stream, page, gets, budget>>

\* Answers come in any order, and each replaces what is shown.
Shows ==
  \E g \in Requests :
    /\ gets[g].pc = "answer"
    /\ page' = [page EXCEPT !.shown = gets[g].out]
    /\ gets' = [gets EXCEPT ![g] = NoGet]
    /\ UNCHANGED <<now, told, ent, stream, fence, budget>>

Panel == StatsAsked \/ NodeReads \/ FetchEnds \/ GrowsOld
Page == Takes \/ Opens \/ Rereads \/ Polls \/ Shows
Next == Changes \/ PanelHears \/ NumbersCome \/ Powers \/ Loses \/ Turns \/ FetchFails \/ WaitsTooLong \/ Panel \/ Page

\* The timers of a page that is looked at run, its requests are carried out, a node answers the
\* fetches of the panel unless it counts as trouble, and time passes.
Fairness == WF_vars(StatsAsked) /\ WF_vars(NodeReads) /\ WF_vars(FetchEnds) /\ WF_vars(GrowsOld)
            /\ WF_vars(Polls) /\ WF_vars(Shows)
Spec == Init /\ [][Next]_vars /\ Fairness

(* Properties.                                                             *)

\* fleetbus.py, "a subscriber that falls behind loses events rather than holding memory, and is told
\* so": as long as a page has not heard of a gap, the word of it is in its queue.
GapsAreTold == stream.gap => \E i \in DOMAIN stream.queue : stream.queue[i] = "lagged"

\* A reading that is not marked is of after the time when the shared one last grew old: whichever
\* requests wait together, fail, or come while a fetch is under way.
UnmarkedIsRecent == \A g \in Requests : gets[g].out.ok => gets[g].out.n >= gets[g].fence

\* The two together: a page shows the fleet as it is, or knows that it may not.
PagesAreTrue == GapsAreTold /\ UnmarkedIsRecent

\* "The poll stays as the fallback": whatever was lost on the way, a page that is looked at comes to
\* show the state that the server has, and stays with it.
PageCatchesUp == <>[](page.hidden \/ page.shown = [n |-> now, ok |-> TRUE])
=============================================================================
