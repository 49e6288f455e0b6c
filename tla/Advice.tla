------------------------------- MODULE Advice -------------------------------
(***************************************************************************)
(* Assisted tuning (app/optimizer.py, and the turn of app/ai.py that asks  *)
(* the model): a plan is computed from the server and the machine, and what*)
(* the model says is clamped, laid over it and kept in a cache, for as long*)
(* as the server stays what it was.                                        *)
(*                                                                         *)
(* The model is external: it answers anything that has the right shape, or *)
(* nothing.  The heap is in half gigabytes.  Flags are known by their      *)
(* heads: "gc" is in the plan and on or off, "pause" is in the plan and has*)
(* a number, "oops" may be added, "bad" is neither.                        *)
(***************************************************************************)
EXTENDS Integers, Sequences, SequencesExt, FiniteSets

CONSTANTS
  Servers,     \* what a server and its machine can be: the baseline of a plan
  Answers,     \* what the model may say
  MaxAsks,     \* bound on questions
  MaxChanges   \* bound on changes of the server, restarts and switches

VARIABLES
  server,    \* the one the plan is for, as it is now
  cache,     \* answers the process holds and what they are about, by fingerprint
  disk,      \* the same in its file
  asking,    \* the server as it was when the model was asked, or None
  shown,     \* the last plan that was made
  on,        \* assisted tuning is switched on
  asks, changes

vars == <<server, cache, disk, asking, shown, on, asks, changes>>

None == [heap |-> 0]
Heads == {"gc", "pause", "oops", "bad"}
Keys == {"view-distance", "simulation-distance", "difficulty"}

-----------------------------------------------------------------------------
(* The plan.                                                               *)

\* build_plan(), _stamp_source(): each number is the optimizer's.
Baseline(s) ==
  [heap |-> s.heap, flags |-> s.flags, props |-> s.props, by |-> {}, changes |-> <<>>,
   rejected |-> 0, of |-> s, optimizer |-> [heap |-> s.heap, flags |-> s.flags, props |-> s.props]]

\* _fingerprint()
Fingerprint(s) == s.print

Between(n, low, high) == low <= n /\ n <= high

\* _clamp_heap(): nothing on a machine that was not measured, else never above the ceiling,
\* which is in tenths of a gigabyte; 0 is no heap.
ClampHeap(wanted, s) ==
  LET capped  == IF 5 * wanted > s.ceiling THEN s.ceiling ELSE 5 * wanted
      rounded == (IF capped < 10 THEN 20 ELSE 2 * capped + 5) \div 10
  IN  IF s.unmeasured \/ s.ceiling < 10 THEN 0
      ELSE IF 5 * rounded > s.ceiling THEN s.ceiling \div 5 ELSE rounded

\* _clamp_flag(): in the plan as it is, a number within its range, or on the short list.
FlagTaken(f, flags) ==
  \/ f.head \in DOMAIN flags /\ flags[f.head].value = f.value
  \/ f.head = "pause" /\ Between(f.value, 50, 500)
  \/ f.head = "oops"

\* _clamp_property(), and only keys of the plan.
PropTaken(p, props) == p.key \in DOMAIN props /\ Between(p.value, 3, 16)

Change(what, from, to) == [what |-> what, from |-> from, to |-> to]
Rejected(plan) == [plan EXCEPT !.rejected = @ + 1]
Changed(plan, what, from, to) ==
  [plan EXCEPT !.by = @ \cup {what}, !.changes = Append(@, Change(what, from, to))]

WithHeap(plan, answer) ==
  LET heap == ClampHeap(answer.heap, plan.of)
  IN  IF answer.heap = 0 THEN plan
      ELSE IF heap = 0 THEN Rejected(plan)
      ELSE IF heap = plan.heap THEN plan
      ELSE [Changed(plan, "heap", plan.heap, heap) EXCEPT !.heap = heap]

Off == [value |-> 0, on |-> FALSE]
WithFlag(plan, f) ==
  LET new == [value |-> f.value, on |-> f.on]
      was == plan.flags[f.head]
  IN  IF ~FlagTaken(f, plan.flags) \/ (f.head \notin DOMAIN plan.flags /\ ~f.on) THEN Rejected(plan)
      ELSE IF f.head \notin DOMAIN plan.flags
      THEN [Changed(plan, f.head, Off, new) EXCEPT
              !.flags = [h \in DOMAIN plan.flags \cup {f.head} |-> IF h = f.head THEN new ELSE @[h]]]
      ELSE IF new = was THEN plan
      ELSE [Changed(plan, f.head, was, new) EXCEPT !.flags[f.head] = new]

WithProp(plan, p) ==
  IF ~PropTaken(p, plan.props) THEN Rejected(plan)
  ELSE IF plan.props[p.key] = p.value THEN plan
  ELSE [Changed(plan, p.key, plan.props[p.key], p.value) EXCEPT !.props[p.key] = p.value]

\* _reconcile_distances(): nothing is simulated that no client is sent.  The change the model
\* asked for says where the number ended up.
Reconciled(plan) ==
  LET view == plan.props["view-distance"]
      sim  == plan.props["simulation-distance"]
      mine == {i \in DOMAIN plan.changes : plan.changes[i].what = "simulation-distance"}
      i    == CHOOSE i \in mine : \A j \in mine : i <= j
  IN  IF sim <= view THEN plan
      ELSE IF mine = {} THEN [Changed(plan, "simulation-distance", sim, view) EXCEPT
                                !.props["simulation-distance"] = view]
      ELSE [plan EXCEPT !.props["simulation-distance"] = view, !.changes[i].to = view]

\* _settle(): only what moved counts as moved by the assistant.
Settled(plan) ==
  LET same == {h \in DOMAIN plan.optimizer.flags : plan.flags[h] = plan.optimizer.flags[h]}
              \cup {k \in DOMAIN plan.props : plan.props[k] = plan.optimizer.props[k]}
              \cup (IF plan.heap = plan.optimizer.heap THEN {"heap"} ELSE {})
  IN  [plan EXCEPT !.by = @ \ same, !.changes = SelectSeq(@, LAMBDA c : c.from # c.to)]

\* apply_advice()
Advised(plan, answer) ==
  LET flagged == FoldLeft(WithFlag, WithHeap(plan, answer), answer.flags)
  IN  Settled(Reconciled(FoldLeft(WithProp, flagged, answer.props)))

\* build_plan(): what is cached for this very server, and never the model.
Plan(s, held) ==
  IF on /\ Fingerprint(s) \in DOMAIN held THEN Advised(Baseline(s), held[Fingerprint(s)].says) ELSE Baseline(s)

-----------------------------------------------------------------------------
Empty == [f \in {} |-> None]

TypeOK ==
  /\ server \in Servers /\ asking \in Servers \cup {None}
  /\ \A c \in {cache, disk} : /\ DOMAIN c \subseteq {s.print : s \in Servers}
                              /\ \A f \in DOMAIN c : c[f].says \in Answers
  /\ shown.of \in Servers /\ DOMAIN shown.flags \subseteq Heads /\ DOMAIN shown.props \subseteq Keys
  /\ on \in BOOLEAN /\ asks \in 0 .. MaxAsks /\ changes \in 0 .. MaxChanges

Init ==
  /\ server \in Servers
  /\ cache = Empty /\ disk = Empty
  /\ asking = None /\ shown = Baseline(server)
  /\ on = TRUE
  /\ asks = 0 /\ changes = 0

\* The Tune tab is opened.
Opens ==
  /\ shown' = Plan(server, cache)
  /\ UNCHANGED <<server, cache, disk, asking, on, asks, changes>>

\* advise(): the cache answers, unless it is told to ask again.
Asks(refresh) ==
  /\ on /\ asking = None /\ asks < MaxAsks
  /\ asks' = asks + 1
  /\ IF Fingerprint(server) \in DOMAIN cache /\ ~refresh
       THEN shown' = Plan(server, cache) /\ UNCHANGED asking
       ELSE asking' = server /\ UNCHANGED shown
  /\ UNCHANGED <<server, cache, disk, on, changes>>

\* _cache_put(): for the server it was asked about.
Kept(answer) == Fingerprint(asking) :> [says |-> answer, about |-> asking] @@ cache

\* The model answers; the file may not be writable, and the answer is kept all the same.
Answered(answer) ==
  /\ asking # None
  /\ cache' = Kept(answer)
  /\ disk' \in {disk, cache'}
  /\ shown' = Advised(Baseline(asking), answer)
  /\ asking' = None
  /\ UNCHANGED <<server, on, asks, changes>>

\* It is slow, gone or answers no JSON: the plan stays the optimizer's.
NoAnswer ==
  /\ asking # None
  /\ shown' = Baseline(asking) /\ asking' = None
  /\ UNCHANGED <<server, cache, disk, on, asks, changes>>

Changes ==
  /\ changes < MaxChanges /\ changes' = changes + 1
  /\ \/ server' \in Servers \ {server} /\ UNCHANGED <<cache, on, asking>>
     \/ on' = ~on /\ UNCHANGED <<server, cache, asking>>
     \/ cache' = disk /\ asking' = None /\ UNCHANGED <<server, on>>
  /\ UNCHANGED <<disk, shown, asks>>

\* The 14 days of ADVICE_TTL_SECONDS are over.
Expires ==
  /\ changes < MaxChanges /\ changes' = changes + 1
  /\ cache # Empty /\ cache' = Empty /\ disk' = Empty
  /\ UNCHANGED <<server, asking, shown, on, asks>>

Next ==
  \/ Opens \/ (\E refresh \in BOOLEAN : Asks(refresh))
  \/ (\E answer \in Answers : Answered(answer)) \/ NoAnswer
  \/ Changes \/ Expires

Spec == Init /\ [][Next]_vars

-----------------------------------------------------------------------------
(* Properties.                                                             *)

\* "It cannot exceed the host": no heap above the ceiling but the optimizer's own, no flag
\* outside its range, and never more simulated than is sent (the comment above the cache,
\* _reconcile_distances).
NumbersAreSafe ==
  /\ "heap" \in shown.by => 5 * shown.heap <= shown.of.ceiling /\ shown.heap >= 2
  /\ "bad" \notin DOMAIN shown.flags
  /\ "pause" \in shown.by => Between(shown.flags["pause"].value, 50, 500)
  /\ shown.by # {} => shown.props["simulation-distance"] <= shown.props["view-distance"]

\* The numbers as they are, by what they are called.
Number(plan, what) ==
  IF what = "heap" THEN plan.heap
  ELSE IF what \in Keys THEN plan.props[what]
  ELSE IF what \in DOMAIN plan.flags THEN plan.flags[what] ELSE Off

\* "Every mutation here is paired with a `changes` entry": what is listed is what moved, from
\* the optimizer's number to the one in the plan, and nothing else is called the assistant's.
Credited ==
  LET moved == {w \in {"heap"} \cup Heads \cup Keys :
                  /\ w \in {"heap"} \cup DOMAIN shown.flags \cup DOMAIN shown.props
                  /\ Number(shown, w) # Number(shown.optimizer, w)}
  IN  /\ shown.by = moved
      /\ moved = {shown.changes[i].what : i \in DOMAIN shown.changes}
      /\ \A i \in DOMAIN shown.changes :
           /\ shown.changes[i].to = Number(shown, shown.changes[i].what)
           /\ shown.changes[i].from = Number(shown.optimizer, shown.changes[i].what)

\* "What the advice was computed against" (_fingerprint): no server is given what the model
\* said of another one, though the server changed while the model was thinking.
AdviceIsOfServer ==
  \A f \in DOMAIN cache : Fingerprint(cache[f].about) = f
=============================================================================
