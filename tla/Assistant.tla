------------------------------ MODULE Assistant ------------------------------
(***************************************************************************)
(* The assistant (app/ai.py, app/main.py): a model is shown a server and   *)
(* proposes a plan.  What it writes is matched against the jars that were  *)
(* listed; a person approves the actions of an analysis, an automatic fix  *)
(* carries out those that can be undone, and a crash review names the jars *)
(* that are to blame.  People change the folder meanwhile, the model may   *)
(* fail or find its context too small, and so may calls of the node.       *)
(*                                                                         *)
(* A name is a sequence of words, its punctuation (mark), and a suffix;    *)
(* what is left of it without punctuation and case is the words alone.     *)
(***************************************************************************)
EXTENDS Integers, Sequences, FiniteSets

CONSTANTS Jars,         \* [words, mark]
          Short,        \* words of a few letters
          Answers,      \* what the model may write: [plan, culprits]
          Blamed,       \* sets of jars that the log itself may point at
          Ladder,       \* _CTX_LADDER: the sizes are 1..Ladder
          MaxAsks,      \* bound: jobs
          MaxChanges,   \* bound: changes by people
          MaxTroubles   \* bound: calls that fail

VARIABLES folder,       \* each jar is "on", "off" (.jar.disabled) or "gone"
          job, changes, asks, troubles

vars == <<folder, job, changes, asks, troubles>>

Kinds == {"analyse", "fix", "review"}
\* Actions that touch jars, one that can be undone (accept_eula, set_java, set_ram), one that
\* cannot (edit_property), one left to the page (install_mod...), and what does not exist.
Changing == {"disable", "delete"}
Known == Changing \cup {"heap", "property", "page"}

Whole(a, s) == [words |-> a.words, mark |-> a.mark, suffix |-> s]
FileOf(a) == Whole(a, IF folder[a] = "on" THEN "jar" ELSE "disabled")
Files == {FileOf(a) : a \in {b \in Jars : folder[b] # "gone"}}
JarOf(f) == [words |-> f.words, mark |-> f.mark]

NoJob == [pc |-> "idle", kind |-> "none", allow |-> FALSE, listed |-> {}, blamed |-> {}, ctx |-> 1, tries |-> 0,
          plan |-> <<>>, approved |-> {}, todo |-> <<>>, files |-> <<>>,
          applied |-> <<>>, failed |-> <<>>, held |-> <<>>, culprits |-> {},
          before |-> [a \in Jars |-> "gone"], snap |-> FALSE, others |-> {}, touched |-> {}]
PCs == {"idle", "list", "model", "shown", "snapshot", "apply", "files", "done"}

TypeOK ==
  /\ folder \in [Jars -> {"on", "off", "gone"}]
  /\ job.pc \in PCs /\ job.kind \in Kinds \cup {"none"} /\ job.ctx \in 1..Ladder /\ job.tries \in 0..2
  /\ \A f \in job.listed \cup job.culprits : JarOf(f) \in Jars
  /\ \A i \in DOMAIN job.plan : job.plan[i].kind \in Known
  /\ job.touched \subseteq Jars /\ changes \in 0..MaxChanges /\ troubles \in 0..MaxTroubles

Init ==
  /\ folder \in [Jars -> {"on", "off"}]
  /\ job = NoJob /\ changes = 0 /\ asks = 0 /\ troubles = 0

Works(ok) == IF ok THEN UNCHANGED troubles ELSE troubles < MaxTroubles /\ troubles' = troubles + 1

-----------------------------------------------------------------------------
(* Names.                                                                  *)

\* _norm_file
Norm(n) ==
  n.words \o (CASE n.suffix = "jar" -> <<"jar">> [] n.suffix = "disabled" -> <<"jar", "disabled">>
                [] OTHER -> <<>>)
Within(a, b) == \E i \in 1..(Len(b) - Len(a) + 1) : SubSeq(b, i, i + Len(a) - 1) = a
Long(w) == \E i \in DOMAIN w : w[i] \notin Short \cup {"jar"}

\* _match_file: the files that a name may be taken for.  Of two with the same words it is
\* whichever the dictionary has.
Matches(n, files) ==
  LET as(w) == {f \in files : Norm(f) = w}
      on == Norm([n EXCEPT !.suffix = "jar"])
      off == Norm([n EXCEPT !.suffix = "disabled"])
      near == {w \in {Norm(f) : f \in files} : Within(Norm(n), w) \/ Within(w, Norm(n))}
  IN  IF n \in files THEN {n}
      ELSE IF as(Norm(n)) # {} THEN as(Norm(n))
      ELSE IF as(on) # {} THEN as(on)
      ELSE IF as(off) # {} THEN as(off)
      ELSE IF Long(Norm(n)) /\ Cardinality(near) = 1 THEN as(CHOOSE w \in near : TRUE)
      ELSE {}

\* The names that resolve, each one as one of the files it may be.
RECURSIVE Resolved(_, _)
Resolved(names, files) ==
  IF names = <<>> THEN {<<>>}
  ELSE LET m == Matches(Head(names), files)
           rest == Resolved(Tail(names), files)
       IN  IF m = {} THEN rest
           ELSE {IF \E i \in DOMAIN r : r[i] = f THEN r ELSE <<f>> \o r : f \in m, r \in rest}

\* validate_plan: actions that exist, with the files that do; without any it is rejected.
RECURSIVE Validated(_, _)
Validated(plan, files) ==
  IF plan = <<>> THEN {<<>>}
  ELSE LET a == Head(plan)
           rest == Validated(Tail(plan), files)
           real == IF a.kind \in Changing THEN Resolved(a.names, files) \ {<<>>} ELSE {<<>>}
       IN  IF a.kind \notin Known \/ real = {} THEN rest
           ELSE {<<[kind |-> a.kind, names |-> n]>> \o r : n \in real, r \in rest}

Named(plan) == UNION {{plan[i].names[k] : k \in DOMAIN plan[i].names} : i \in DOMAIN plan}

-----------------------------------------------------------------------------
(* The analysis.                                                           *)

Asks(kind, allow) ==
  /\ asks < MaxAsks /\ job.pc \in {"idle", "done", "shown"}
  /\ job' = [NoJob EXCEPT !.pc = "list", !.kind = kind, !.allow = allow]
  /\ asks' = asks + 1
  /\ UNCHANGED <<folder, changes, troubles>>

\* The evidence: the mods, the log, and what the log itself points at (attribute_crash).
Lists(ok) ==
  /\ job.pc = "list" /\ Works(ok)
  /\ \E b \in Blamed, c \in 1..Ladder :
       job' = IF ok THEN [job EXCEPT !.pc = "model", !.listed = Files, !.ctx = c,
                                     !.blamed = {f \in Files : job.kind = "review" /\ JarOf(f) \in b}]
              ELSE NoJob
  /\ UNCHANGED <<folder, changes, asks>>

\* The model cannot be reached, takes too long or writes nothing that can be read.
ModelFails ==
  /\ job.pc = "model" /\ troubles < MaxTroubles /\ troubles' = troubles + 1
  /\ job' = [job EXCEPT !.pc = "done", !.culprits = IF job.kind = "review" THEN job.blamed ELSE {}]
  /\ UNCHANGED <<folder, changes, asks>>

\* A bug: it grows past the largest size.
TooSmallGrows(needs) ==
  /\ job.pc = "model" /\ needs > job.ctx
  /\ job' = [job EXCEPT !.ctx = needs, !.tries = 1]
  /\ UNCHANGED <<folder, changes, asks, troubles>>
\* _chat_json, _grow_context: the prompt needs more tokens than were asked for; once, the next
\* size that holds them is tried.  analyse has no second try.
TooSmall(needs) ==
  /\ job.pc = "model" /\ needs > job.ctx
  /\ job' = IF job.kind # "analyse" /\ job.tries = 0 /\ needs <= Ladder
            THEN [job EXCEPT !.ctx = needs, !.tries = 1]
            ELSE [job EXCEPT !.pc = "done", !.culprits = IF job.kind = "review" THEN job.blamed ELSE {}]
  /\ UNCHANGED <<folder, changes, asks, troubles>>

\* split_auto_actions
Auto(a) == a.kind \in {"disable", "heap"} \/ (job.allow /\ a.kind = "delete")

\* The two views merged: the log's own attributions lead.
Culprits(said) == job.blamed \cup said

Written(a) ==
  \E p \in Validated(a.plan, job.listed), c \in Resolved(a.culprits, job.listed) :
    LET said == {c[i] : i \in DOMAIN c}
        auto == SelectSeq(p, Auto)
    IN  job' = [job EXCEPT !.plan = p, !.ctx = 1, !.tries = 0,
                  !.pc = CASE job.kind = "analyse" -> "shown"
                           [] job.kind = "fix" /\ auto # <<>> -> "snapshot"
                           [] OTHER -> "done",
                  !.todo = IF job.kind = "fix" THEN auto ELSE <<>>,
                  !.held = IF job.kind = "fix" THEN SelectSeq(p, LAMBDA x : ~Auto(x)) ELSE <<>>,
                  !.culprits = IF job.kind = "review" THEN Culprits(said) ELSE {}]
Answered(a) ==
  /\ job.pc = "model" /\ Written(a)
  /\ UNCHANGED <<folder, changes, asks, troubles>>

\* ai_apply: what a person has approved is validated again, against what is there by now.
Approves(ok) ==
  /\ job.pc = "shown" /\ job.plan # <<>> /\ Works(ok)
  /\ \E p \in Validated(job.plan, Files) :
       job' = IF ~ok \/ p = <<>> THEN [job EXCEPT !.pc = "done"]
              ELSE [job EXCEPT !.pc = "snapshot", !.plan = p, !.todo = p, !.listed = Files,
                               !.approved = {JarOf(f) : f \in Named(job.plan)}, !.others = {}]
  /\ UNCHANGED <<folder, changes, asks>>

-----------------------------------------------------------------------------
(* _apply_actions                                                          *)

\* A snapshot that fails is not in the way of the plan.
Snapshot(ok) ==
  /\ job.pc = "snapshot" /\ Works(ok)
  /\ job' = [job EXCEPT !.pc = "apply", !.snap = ok, !.before = folder]
  /\ UNCHANGED <<folder, changes, asks>>

AfterAction(j, what) == [j EXCEPT !.pc = "apply", !.todo = Tail(@), !.files = <<>>,
                            !.applied = IF what = "applied" THEN Append(@, Head(j.todo)) ELSE @,
                            !.failed = IF what = "failed" THEN Append(@, Head(j.todo)) ELSE @]

\* Actions that touch no jar, or that only a person can complete.
Applies(ok) ==
  /\ job.pc = "apply" /\ job.todo # <<>>
  /\ LET a == Head(job.todo) IN
       IF a.kind \in Changing
       THEN ok /\ job' = [job EXCEPT !.pc = "files", !.files = a.names] /\ UNCHANGED troubles
       ELSE /\ IF a.kind = "page" THEN ok /\ UNCHANGED troubles ELSE Works(ok)
            /\ job' = AfterAction(job, IF ok /\ a.kind # "page" THEN "applied" ELSE "failed")
  /\ UNCHANGED <<folder, changes, asks>>

\* set_enabled(f, False) of one file after another; delete_paths, which stops at one that is not
\* there.
There(f) == f \in Files
OnFile(f, ok) ==
  LET delete == Head(job.todo).kind = "delete"
      already == ~delete /\ (f.suffix = "disabled" \/ folder[JarOf(f)] = "off")
  IN  IF already THEN UNCHANGED folder /\ job' = [job EXCEPT !.files = Tail(@)]
      ELSE IF There(f) /\ ok
      THEN /\ folder' = [folder EXCEPT ![JarOf(f)] = IF delete THEN "gone" ELSE "off"]
           /\ job' = [job EXCEPT !.files = Tail(@), !.touched = @ \cup {JarOf(f)}]
      ELSE UNCHANGED folder /\ job' = AfterAction(job, "failed")
TakesFile(ok) ==
  /\ job.pc = "files" /\ job.files # <<>> /\ Works(ok)
  /\ OnFile(Head(job.files), ok)
  /\ UNCHANGED <<changes, asks>>
FilesDone ==
  /\ job.pc = "files" /\ job.files = <<>>
  /\ job' = AfterAction(job, "applied")
  /\ UNCHANGED <<folder, changes, asks, troubles>>

Ends ==
  /\ job.pc = "apply" /\ job.todo = <<>>
  /\ job' = [job EXCEPT !.pc = "done"]
  /\ UNCHANGED <<folder, changes, asks, troubles>>

-----------------------------------------------------------------------------

\* Somebody switches, deletes or adds a mod.
PersonChanges(a, state) ==
  /\ changes < MaxChanges /\ changes' = changes + 1
  /\ folder[a] # state
  /\ folder' = [folder EXCEPT ![a] = state]
  /\ job' = [job EXCEPT !.others = @ \cup {a}]
  /\ UNCHANGED <<asks, troubles>>

Next ==
  \/ \E kind \in Kinds, allow \in BOOLEAN : (kind = "fix" \/ ~allow) /\ Asks(kind, allow)
  \/ \E ok \in BOOLEAN : Lists(ok) \/ Approves(ok) \/ Snapshot(ok) \/ Applies(ok) \/ TakesFile(ok)
  \/ ModelFails \/ FilesDone \/ Ends
  \/ \E needs \in 2..(Ladder + 1) : TooSmall(needs)
  \/ \E a \in Answers : Answered(a)
  \/ \E a \in Jars, state \in {"on", "off", "gone"} : PersonChanges(a, state)

Spec == Init /\ [][Next]_vars

-----------------------------------------------------------------------------
(* Properties.                                                             *)

Occurs(seq, x) == Cardinality({i \in DOMAIN seq : seq[i] = x})

\* _apply_actions, split_auto_actions: when a fix or an approved plan has ended, each of its actions
\* is applied, failed or held, once; and a jar that an applied action names, and that nobody else
\* has touched, is off, or gone if it was to be deleted.
ActionsAreTold ==
  job.pc = "done" /\ (job.kind = "fix" \/ job.approved # {}) =>
    /\ \A i \in DOMAIN job.plan :
         Occurs(job.plan, job.plan[i]) =
           Occurs(job.applied, job.plan[i]) + Occurs(job.failed, job.plan[i]) + Occurs(job.held, job.plan[i])
    /\ \A i \in DOMAIN job.applied : LET a == job.applied[i] IN
         a.kind \in Changing =>
           \A k \in DOMAIN a.names :
             JarOf(a.names[k]) \in job.others
               \/ folder[JarOf(a.names[k])] \in (IF a.kind = "delete" THEN {"gone"} ELSE {"off", "gone"})

\* ai_autofix, "only actions that can be undone from the Mods tab are applied, and deleting a jar
\* never is unless allow_destructive is set": a fix takes no jar away, and changes none that it has
\* not listed or that its plan does not name; and the snapshot was taken before any of it.
FixCanBeUndone ==
  job.kind = "fix" =>
    /\ \A a \in job.touched \ job.others : folder[a] = "gone" => job.allow
    /\ job.touched \subseteq {JarOf(f) : f \in Named(job.plan) \cap job.listed}
    /\ \A a \in job.touched \ job.others : job.before[a] \notin {"gone", folder[a]}

\* "If the model is unreachable, the deterministic culprits are still returned": a crash review that
\* has ended names all that the log points at, and only jars that were there.
CulpritsAreKept ==
  job.kind = "review" /\ job.pc = "done" => job.blamed \subseteq job.culprits /\ job.culprits \subseteq job.listed

\* ai_apply, "Execute AI-proposed actions the user has explicitly approved": no other jar is touched.
\* Does not hold: see README, section 6.
OnlyApproved == job.approved # {} => job.touched \subseteq job.approved
=============================================================================
