----------------------------- MODULE Schedules ------------------------------
(***************************************************************************)
(* Scheduled tasks (app/schedules.py): rows with a time they are due,      *)
(* loops that claim and run what is due, chains of steps, runs missed.     *)
(*                                                                         *)
(* One action is one database session, or one call of the engine.  Time is *)
(* an integer that passes between any two steps.                           *)
(***************************************************************************)
EXTENDS Integers, FiniteSets, FiniteSetTheorems, TLAPS

CONSTANTS
  Tasks,     \* ids of rows; an id is used once
  NoTask,    \* no parent
  Loops,     \* processes: loops of run_forever, and requests to run a task now
  Every,     \* minutes of "@every", and of the cron of the model
  Delay,     \* delay of a chained step
  Grace,     \* MISSED_GRACE
  MaxTime,   \* bound on the clock
  MaxEdits,  \* bound on the changes by hand
  MaxDeaths  \* bound on the processes that stop in the middle

VARIABLES
  clock,
  rows,    \* the table, from ids to rows; not yet or no longer there is absent
  loop,    \* what each process does
  ran,     \* ran[t][d]: how often a run of t that was due at d was made
  done,    \* how often a run of a task was recorded, by the clock, its parent or by hand
  since,   \* when a task came to be timed as it is: by the clock, or by that parent
  budget   \* changes by hand and deaths so far

vars == <<clock, rows, loop, ran, done, since, budget>>

Never == 0
Kinds == {"cron", "every", "none"}   \* of `cron`; "none" where it is empty
LastDue == MaxTime + Every + Delay
Rows == [kind : Kinds, parent : Tasks \cup {NoTask}, oneTime : BOOLEAN,
         enabled : BOOLEAN, due : 0 .. LastDue, last : {"none", "ran", "missed"}]
Absent == [kind |-> "absent"]
Present(t) == rows[t] # Absent
Step(t) == rows[t].parent # NoTask

\* What a loop keeps of a row it has read, until it has dealt with it.
Readings == [task : Tasks, at : 1 .. LastDue, kind : Kinds, step : BOOLEAN, oneTime : BOOLEAN]

Loop == [pc : {"idle", "batch", "missed", "do", "record", "off"}, now : 0 .. MaxTime,
         due : SUBSET Readings, task : Tasks \cup {NoTask},
         at : 0 .. LastDue, oneTime : BOOLEAN, manual : BOOLEAN]
Resting == [pc |-> "idle", now |-> 0, due |-> {}, task |-> NoTask, at |-> 0,
            oneTime |-> FALSE, manual |-> FALSE]

TypeOK ==
  /\ clock \in 1 .. MaxTime
  /\ rows \in [Tasks -> Rows \cup {Absent}]
  /\ loop \in [Loops -> Loop]
  /\ ran \in [Tasks -> [1 .. LastDue -> Nat]]
  /\ done \in [Tasks -> Nat]
  /\ since \in [Tasks -> [at : 0 .. MaxTime, base : Nat, left : BOOLEAN]]
  /\ budget \in [edits : 0 .. MaxEdits, deaths : 0 .. MaxDeaths, used : SUBSET Tasks]

Init ==
  /\ clock = 1
  /\ rows = [t \in Tasks |-> Absent]
  /\ loop = [p \in Loops |-> Resting]
  /\ ran = [t \in Tasks |-> [d \in 1 .. LastDue |-> 0]]
  /\ done = [t \in Tasks |-> 0]
  /\ since = [t \in Tasks |-> [at |-> 0, base |-> 0, left |-> FALSE]]
  /\ budget = [edits |-> 0, deaths |-> 0, used |-> {}]

-----------------------------------------------------------------------------
(* When.                                                                   *)

\* The first time strictly after `after` that is a whole number of steps from base.
FirstAfter(base, after) ==
  CHOOSE n \in after + 1 .. after + Every : (n - base) % Every = 0

\* next_after(): "@every" keeps the phase of its last run, cron that of the day.
NextAfter(kind, after, last) ==
  IF kind = "every" THEN FirstAfter(last, after) ELSE FirstAfter(0, after)

-----------------------------------------------------------------------------
(* Changes by hand.                                                        *)

Edits == budget.edits < MaxEdits
Edited(t) == budget' = [budget EXCEPT !.edits = @ + 1, !.used = @ \cup {t}]

\* From now on t is timed by the clock or by this parent; what it has left is a time it had before.
TimedFromNow(t, parent, due) ==
  since' = [since EXCEPT ![t] = [at   |-> clock,
                                 base |-> IF parent = NoTask THEN 0 ELSE done[parent],
                                 left |-> parent # NoTask /\ due # Never]]

\* create(): a step that follows a parent of its server has no time of its own.
CreateTask(t, kind, parent, oneTime, enabled) ==
  /\ Edits /\ t \notin budget.used /\ Edited(t)
  /\ IF parent = NoTask THEN kind # "none" ELSE kind = "none" /\ Present(parent)
  /\ LET due == IF enabled /\ parent = NoTask THEN NextAfter(kind, clock, clock) ELSE Never
     IN  /\ rows' = [rows EXCEPT ![t] = [kind |-> kind, parent |-> parent, oneTime |-> oneTime,
                                         enabled |-> enabled, last |-> "none", due |-> due]]
         /\ TimedFromNow(t, parent, due)
  /\ UNCHANGED <<clock, loop, ran, done>>

\* update_task(): any part of a task may change.  Without a parent it gets its next time.  With
\* one, whether it is there or not, it keeps the time it has, unless it is switched off.
UpdateTask(t, kind, parent, oneTime, enabled) ==
  /\ Edits /\ Present(t) /\ Edited(t)
  /\ IF parent = NoTask THEN kind # "none" ELSE kind = rows[t].kind
  /\ LET due == IF ~enabled THEN Never
                ELSE IF parent = NoTask THEN NextAfter(kind, clock, clock) ELSE rows[t].due
     IN  /\ rows' = [rows EXCEPT ![t] = [@ EXCEPT !.kind = kind, !.parent = parent,
                        !.oneTime = oneTime, !.enabled = enabled, !.due = due]]
         /\ IF Step(t) /\ parent = rows[t].parent THEN since' = since
            ELSE TimedFromNow(t, parent, due)
  /\ UNCHANGED <<clock, loop, ran, done>>

\* The steps chained after t, however far.
ChainOf(t) ==
  LET upTo[n \in 0 .. Cardinality(Tasks)] ==
        IF n = 0 THEN {t}
        ELSE upTo[n - 1] \cup {u \in Tasks : Present(u) /\ rows[u].parent \in upTo[n - 1]}
  IN  upTo[Cardinality(Tasks)]

\* remove(): a task and every step chained after it.  The walk does not end for a task that an
\* edit has made follow itself.
RemoveTask(t) ==
  /\ Edits /\ Present(t) /\ Edited(t)
  /\ rows[t].parent \notin ChainOf(t)
  /\ rows' = [u \in Tasks |-> IF u \in ChainOf(t) THEN Absent ELSE rows[u]]
  /\ UNCHANGED <<clock, loop, ran, done, since>>

-----------------------------------------------------------------------------
(* Running.                                                                *)

\* run_due(): what is due now, as the loop reads it.
DueNow ==
  {[task |-> t, at |-> rows[t].due, kind |-> rows[t].kind, step |-> Step(t),
    oneTime |-> rows[t].oneTime] :
     t \in {u \in Tasks : Present(u) /\ rows[u].enabled /\ rows[u].due \in 1 .. clock}}

LooksForDue(p) ==
  /\ loop[p].pc = "idle"
  /\ DueNow # {}
  /\ loop' = [loop EXCEPT ![p] = [Resting EXCEPT !.pc = "batch", !.now = clock, !.due = DueNow]]
  /\ UNCHANGED <<clock, rows, ran, done, since, budget>>

\* The time a claimed task gets: one that was chained or one-time has none any more.
Moved(e, now) == IF e.step \/ e.oneTime THEN Never ELSE NextAfter(e.kind, now, e.at)

PassesBy(p, e) ==
  /\ loop' = [loop EXCEPT ![p].due = @ \ {e}]
  /\ UNCHANGED <<clock, rows, ran, done, since, budget>>

TakesUp(p, e) ==
  LET x == loop[p]
  IN  /\ rows' = [rows EXCEPT ![e.task].due = Moved(e, x.now)]
      /\ loop' = [loop EXCEPT ![p] =
           [x EXCEPT !.due = @ \ {e}, !.task = e.task, !.at = e.at, !.oneTime = e.oneTime,
                     !.pc = IF x.now > e.at + Grace THEN "missed" ELSE "do"]]
      /\ UNCHANGED <<clock, ran, done, since, budget>>

\* A bug: the claim does not look at what the row says by now.
ClaimAnyway(p, e) ==
  /\ loop[p].pc = "batch" /\ e \in loop[p].due
  /\ IF Present(e.task) THEN TakesUp(p, e) ELSE PassesBy(p, e)

\* One row of the batch: it is this loop's if its time is still the one it read, whatever else
\* of it has changed.  A run that was too late when the loop looked is not made.
Claim(p, e) ==
  /\ loop[p].pc = "batch" /\ e \in loop[p].due
  /\ IF Present(e.task) /\ rows[e.task].due = e.at THEN TakesUp(p, e) ELSE PassesBy(p, e)

BatchEnds(p) ==
  /\ loop[p].pc = "batch" /\ loop[p].due = {}
  /\ loop' = [loop EXCEPT ![p] = Resting]
  /\ UNCHANGED <<clock, rows, ran, done, since, budget>>

\* The steps that follow t are due a while from now; an edit may have made t one of them.
FollowersOf(t) == {u \in Tasks : Present(u) /\ rows[u].parent = t /\ rows[u].enabled}
Recorded(t, what, followers) ==
  rows' = IF ~Present(t) THEN rows
          ELSE [u \in Tasks |->
                  LET due == IF u \in followers THEN clock + Delay ELSE rows[u].due
                  IN  CASE u = t -> [rows[t] EXCEPT !.last = what, !.due = due]
                        [] u \in followers \ {t} -> [rows[u] EXCEPT !.due = due]
                        [] OTHER -> rows[u]]

\* A run missed is said on the task.
SaysMissed(p) ==
  /\ loop[p].pc = "missed"
  /\ Recorded(loop[p].task, "missed", {})
  /\ loop' = [loop EXCEPT ![p].pc = "batch"]
  /\ UNCHANGED <<clock, ran, done, since, budget>>

\* POST .../run: the task is run now, whatever its time; nothing is claimed.
RunByHand(p, t) ==
  /\ Edits /\ Edited(t)
  /\ loop[p].pc = "idle" /\ Present(t)
  /\ loop' = [loop EXCEPT ![p] = [Resting EXCEPT !.pc = "do", !.task = t, !.manual = TRUE]]
  /\ UNCHANGED <<clock, rows, ran, done, since>>

\* _do(): the engine is asked, and it is done or refused.
Does(p) ==
  LET x == loop[p]
  IN  /\ x.pc = "do"
      /\ loop' = [loop EXCEPT ![p].pc = "record"]
      /\ ran' = IF x.manual THEN ran ELSE [ran EXCEPT ![x.task][x.at] = @ + 1]
      /\ UNCHANGED <<clock, rows, done, since, budget>>

\* run_task() afterwards: what happened, and the times of the steps that follow.
Records(p) ==
  LET x == loop[p]
  IN  /\ x.pc = "record"
      /\ Recorded(x.task, "ran", FollowersOf(x.task))
      /\ done' = [done EXCEPT ![x.task] = @ + 1]
      /\ loop' = [loop EXCEPT ![p] = IF x.manual THEN Resting
                                     ELSE [x EXCEPT !.pc = IF x.oneTime THEN "off" ELSE "batch"]]
      /\ UNCHANGED <<clock, ran, since, budget>>

\* A task that was one-time when it was read is switched off after its run.
SwitchesOff(p) ==
  LET t == loop[p].task
  IN  /\ loop[p].pc = "off"
      /\ rows' = IF Present(t) THEN [rows EXCEPT ![t].enabled = FALSE] ELSE rows
      /\ loop' = [loop EXCEPT ![p].pc = "batch"]
      /\ UNCHANGED <<clock, ran, done, since, budget>>

\* The process stops, in the middle of whatever it does, and comes back.
LoopDies(p) ==
  /\ loop[p].pc # "idle" /\ budget.deaths < MaxDeaths
  /\ budget' = [budget EXCEPT !.deaths = @ + 1]
  /\ loop' = [loop EXCEPT ![p] = Resting]
  /\ UNCHANGED <<clock, rows, ran, done, since>>

TimePasses ==
  /\ clock < MaxTime /\ clock' = clock + 1
  /\ UNCHANGED <<rows, loop, ran, done, since, budget>>

ByHand ==
  \E t \in Tasks :
    \/ \E kind \in Kinds, parent \in Tasks \cup {NoTask}, oneTime, enabled \in BOOLEAN :
         \/ CreateTask(t, kind, parent, oneTime, enabled)
         \/ UpdateTask(t, kind, parent, oneTime, enabled)
    \/ RemoveTask(t)
    \/ \E p \in Loops : RunByHand(p, t)

Working(p) ==
  \/ LooksForDue(p) \/ BatchEnds(p)
  \/ \E e \in loop[p].due : Claim(p, e)
  \/ SaysMissed(p) \/ Does(p) \/ Records(p) \/ SwitchesOff(p)

Next == ByHand \/ TimePasses \/ \E p \in Loops : Working(p) \/ LoopDies(p)

Spec == Init /\ [][Next]_vars

\* A loop looks again every TICK seconds and goes on with what it does.
Fairness == \A p \in Loops : WF_vars(Working(p))

-----------------------------------------------------------------------------
(* Properties.                                                             *)

\* schedules.py: "Exactly once, however many processes run the loop": no run
\* that was due is made by two of them, whoever edits the task meanwhile.
RunsOnce == \A t \in Tasks, d \in 1 .. LastDue : ran[t][d] <= 1

\* The due times of t that were run, of those later than when it came to be timed as it is.
\* Each counts once (RunsOnce).
RunsSince(t) == Cardinality({d \in 1 .. LastDue : d > since[t].at /\ ran[t][d] > 0})

\* run_task(): a chained step runs only after its parent did, and not more often, counted from
\* when it came to follow it; in particular a missed run stops the chain.  Only a step that was
\* given its parent while it still had a time of its own runs without it, at one time after that,
\* whoever had read it as what it was.
StepsFollow ==
  \A t \in Tasks :
    Present(t) /\ Step(t) =>
      RunsSince(t) <= done[rows[t].parent] - since[t].base + (IF since[t].left THEN 1 ELSE 0)

\* run_due(): a one-time task with a time of its own runs at one time after a person has saved
\* it, however often it ran before as another kind of task, whoever had read it as that, and
\* wherever the process that ran it stopped.
OneTimeOnce ==
  \A t \in Tasks : Present(t) /\ ~Step(t) /\ rows[t].oneTime => RunsSince(t) <= 1

\* The three together: a task runs as often as it became due, and no more.
RunsAreDue == RunsOnce /\ StepsFollow /\ OneTimeOnce

\* run_forever(): a task that is due does not stay due.
DueIsHandled ==
  \A t \in Tasks, d \in 1 .. MaxTime :
    (Present(t) /\ rows[t].due = d /\ rows[t].enabled /\ clock >= d)
      ~> ~(Present(t) /\ rows[t].due = d /\ rows[t].enabled)

-----------------------------------------------------------------------------
(***************************************************************************)
(* Proofs, for any number of tasks, of loops, and of changes and deaths    *)
(* between their steps: no run that was due is made twice, a chained step  *)
(* runs no more often than its parent did since it follows it, and a       *)
(* one-time task once after it was saved.                                  *)
(***************************************************************************)
\* The constants of a real panel.  A delay of nothing would, on a clock of
\* whole steps, make a chained step due again at the time it was claimed at.
Sizes ==
  /\ Every \in Nat \ {0} /\ Delay \in Nat \ {0} /\ Grace \in Nat
  /\ MaxTime \in Nat \ {0} /\ MaxEdits \in Nat /\ MaxDeaths \in Nat
  /\ NoTask \notin Tasks

-----------------------------------------------------------------------------
(* The invariant.                                                          *)

Dues == 1 .. LastDue
Budgets == [edits : 0 .. MaxEdits, deaths : 0 .. MaxDeaths, used : SUBSET Tasks]
Sinces == [at : 0 .. MaxTime, base : Nat, left : BOOLEAN]

\* Loop p is about to make the run of t that was due at d.
Doing(p, t, d) ==
  loop[p].pc = "do" /\ ~loop[p].manual /\ loop[p].task = t /\ loop[p].at = d

\* That run was made, or some loop has it.
Claimed(t, d) == ran[t][d] > 0 \/ \E p \in Loops : Doing(p, t, d)

\* A loop that works on a task has one, with the time it claimed it at, and what it read as due
\* was due then; its row is due then, not at all, or later.
Busy ==
  \A p \in Loops :
    /\ loop[p].pc \in {"missed", "do", "record", "off"} => loop[p].task \in Tasks
    /\ loop[p].pc = "do" /\ ~loop[p].manual => loop[p].at \in Dues
    /\ loop[p].now <= clock
    /\ \A e \in loop[p].due : e.at <= loop[p].now

Snapped ==
  \A p \in Loops : \A e \in loop[p].due :
    Present(e.task) /\ rows[e.task].due # Never => e.at <= rows[e.task].due

\* The time of a row is later than that of every run of it that was claimed.
Ahead ==
  \A t \in Tasks, d \in Dues :
    Claimed(t, d) => /\ d <= clock
                     /\ Present(t) /\ rows[t].due # Never => d < rows[t].due

\* A run that a loop is about to make was not made, and is no other loop's.
Alone ==
  \A t \in Tasks, d \in Dues, p \in Loops :
    Doing(p, t, d) => /\ ran[t][d] = 0
                      /\ \A q \in Loops : Doing(q, t, d) => q = p

IInv == TypeOK /\ Busy /\ Snapped /\ Ahead /\ Alone /\ RunsOnce

\* What a step may make of the time of a row: none, a later one than now, or what it was.
TimeMoves(t) ==
  \/ ~Present(t)'
  \/ rows'[t].due = Never
  \/ rows'[t].due \in Int /\ rows'[t].due > clock
  \/ Present(t) /\ rows'[t].due = rows[t].due

-----------------------------------------------------------------------------
(* When.                                                                   *)

LEMMA Mult == ASSUME NEW e \in Nat \ {0}, NEW q \in Int PROVE (e * q) % e = 0
OBVIOUS

LEMMA OneMore == ASSUME NEW e \in Int, NEW q \in Int PROVE e * (q + 1) = e * q + e
OBVIOUS

\* Among any `e` times in a row is a whole number of steps from b.
LEMMA StepExists ==
  ASSUME NEW e \in Nat \ {0}, NEW b \in Nat, NEW a \in Nat
  PROVE  \E n \in a + 1 .. a + e : (n - b) % e = 0
<1> DEFINE k == (a - b) % e
           n == a - k + e
<1>1. k \in 0 .. e - 1
  OBVIOUS
<1>2. (n - b) % e = 0
  <2>1. PICK q \in Int : a - b = e * q + k
    <3>1. a - b = e * ((a - b) \div e) + k /\ (a - b) \div e \in Int
      OBVIOUS
    <3> QED
      BY <3>1
  <2>2. n - b = e * (q + 1)
    <3>1. e * q \in Int
      OBVIOUS
    <3> HIDE DEF k
    <3>2. n - b = e * q + e
      BY <1>1, <2>1, <3>1
    <3> QED
      BY <3>2, OneMore
  <2>3. q + 1 \in Int
    OBVIOUS
  <2> HIDE DEF n
  <2> QED
    BY <2>2, <2>3, Mult
<1>3. n \in a + 1 .. a + e
  BY <1>1
<1> QED
  BY <1>2, <1>3

\* The next time is strictly later, and not by more than a step.
LEMMA NextIsLater ==
  ASSUME Sizes, NEW kind, NEW after \in Nat, NEW last \in Nat
  PROVE  NextAfter(kind, after, last) \in after + 1 .. after + Every
<1>1. ASSUME NEW base \in Nat
      PROVE  FirstAfter(base, after) \in after + 1 .. after + Every
  <2>1. \E n \in after + 1 .. after + Every : (n - base) % Every = 0
    BY StepExists DEF Sizes
  <2> QED
    BY <2>1 DEF FirstAfter
<1>2. 0 \in Nat
  OBVIOUS
<1> QED
  BY <1>1, <1>2 DEF NextAfter


\* So is the time a claimed task gets, when it gets one.
LEMMA MovedIsLater ==
  ASSUME Sizes, NEW e, e.at \in Nat, NEW now \in Nat
  PROVE  Moved(e, now) = Never \/ Moved(e, now) \in now + 1 .. now + Every
BY NextIsLater DEF Moved

\* A time after the clock is one that a row can have.
LEMMA DueType ==
  ASSUME Sizes, NEW now \in 0 .. MaxTime,
         NEW d, d = Never \/ d \in now + 1 .. now + Every \/ d = now + Delay
  PROVE  d \in 0 .. LastDue
BY DEF Sizes, LastDue, Never

-----------------------------------------------------------------------------
(* The steps, by what they leave of the invariant.                         *)

\* Nothing is claimed that was not, and the rows that changed have no time
\* or one that is later than now.
LEMMA AheadKept ==
  ASSUME Sizes, IInv, ran' = ran, clock' = clock,
         \A p \in Loops, t \in Tasks, d \in Dues : Doing(p, t, d)' => Doing(p, t, d),
         \A t \in Tasks : TimeMoves(t)
  PROVE  Ahead' /\ Alone' /\ RunsOnce'
<1>1. \A t \in Tasks, d \in Dues : Claimed(t, d)' => Claimed(t, d)
  BY DEF Claimed
<1>2. Ahead'
  <2> SUFFICES ASSUME NEW t \in Tasks, NEW d \in Dues, Claimed(t, d)'
               PROVE  /\ d <= clock
                      /\ Present(t)' /\ rows'[t].due # Never => d < rows'[t].due
    BY DEF Ahead
  <2>1. d <= clock /\ (Present(t) /\ rows[t].due # Never => d < rows[t].due)
    BY <1>1 DEF IInv, Ahead
  <2>2. clock \in Int /\ d \in Int
    BY DEF IInv, TypeOK, Dues, LastDue, Sizes
  <2> QED
    BY <2>1, <2>2 DEF TimeMoves
<1>3. Alone'
  <2> SUFFICES ASSUME NEW t \in Tasks, NEW d \in Dues, NEW p \in Loops, Doing(p, t, d)'
               PROVE  /\ ran'[t][d] = 0
                      /\ \A q \in Loops : Doing(q, t, d)' => q = p
    BY DEF Alone
  <2> QED
    BY DEF IInv, Alone
<1>4. RunsOnce'
  BY DEF IInv, RunsOnce
<1> QED
  BY <1>2, <1>3, <1>4

\* What a loop has read, of the types that it has.
LEMMA ReadingTyped ==
  ASSUME TypeOK, Busy, NEW p \in Loops, NEW e \in loop[p].due
  PROVE  /\ e \in Readings /\ e.task \in Tasks /\ e.at \in Dues
         /\ e.at <= loop[p].now /\ loop[p].now <= clock
         /\ loop[p].now \in 0 .. MaxTime /\ clock \in 0 .. MaxTime
<1>1. loop[p] \in Loop
  BY DEF TypeOK
<1>2. e \in Readings /\ loop[p].now \in 0 .. MaxTime
  BY <1>1 DEF Loop
<1>3. e.task \in Tasks /\ e.at \in Dues
  BY <1>2 DEF Readings, Dues
<1>4. clock \in 0 .. MaxTime
  BY DEF TypeOK
<1> QED
  BY <1>2, <1>3, <1>4 DEF Busy

\* A step that leaves the loops alone, and what they did.
LEMMA LoopsIdle ==
  ASSUME Sizes, IInv, UNCHANGED <<clock, loop, ran>>, \A t \in Tasks : TimeMoves(t)
  PROVE  Busy' /\ Snapped' /\ Ahead' /\ Alone' /\ RunsOnce'
<1>1. \A p \in Loops, t \in Tasks, d \in Dues : Doing(p, t, d)' => Doing(p, t, d)
  BY DEF Doing
<1>2. Ahead' /\ Alone' /\ RunsOnce'
  BY <1>1, AheadKept
<1>3. Busy'
  BY DEF IInv, Busy
<1>4. Snapped'
  <2> SUFFICES ASSUME NEW p \in Loops, NEW e \in loop[p].due,
                      Present(e.task)', rows'[e.task].due # Never
               PROVE  e.at <= rows'[e.task].due
    BY DEF Snapped
  <2> DEFINE t == e.task
  <2>1. t \in Tasks /\ e.at \in Int /\ e.at <= clock /\ clock \in Int
    BY ReadingTyped DEF IInv, Dues
  <2>2. Present(t) /\ rows[t].due # Never => e.at <= rows[t].due
    BY DEF IInv, Snapped
  <2>3. Present(t)' /\ rows'[t].due # Never
    OBVIOUS
  <2> HIDE DEF t
  <2>4. e.at <= rows'[t].due
    BY <2>1, <2>2, <2>3 DEF TimeMoves
  <2> QED
    BY <2>4 DEF t
<1> QED
  BY <1>2, <1>3, <1>4

\* The budget of changes by hand.
LEMMA EditedType ==
  ASSUME Sizes, TypeOK, NEW t \in Tasks, Edits, Edited(t)
  PROVE  budget' \in Budgets
<1> DEFINE n == budget.edits + 1
           v == budget.used \cup {t}
<1>1. budget' = [budget EXCEPT !.edits = n, !.used = v]
  BY DEF Edited
<1>2. budget \in Budgets
  BY DEF TypeOK, Budgets
<1>3. n \in 0 .. MaxEdits
  BY <1>2 DEF Edits, Sizes, Budgets
<1>4. v \in SUBSET Tasks
  BY <1>2 DEF Budgets
<1> HIDE DEF n, v
<1> QED
  BY <1>1, <1>2, <1>3, <1>4 DEF Budgets

\* Since when a task is timed as it is.
LEMMA SinceType ==
  ASSUME Sizes, TypeOK, NEW t \in Tasks, NEW parent \in Tasks \cup {NoTask}, NEW due,
         TimedFromNow(t, parent, due)
  PROVE  /\ since' \in [Tasks -> Sinces]
         /\ \A u \in Tasks : u # t => since'[u] = since[u]
         /\ since'[t].at = clock
         /\ parent # NoTask => since'[t].base = done[parent]
         /\ since'[t].left = (parent # NoTask /\ due # Never)
<1> DEFINE base == IF parent = NoTask THEN 0 ELSE done[parent]
           left == parent # NoTask /\ due # Never
           s == [at |-> clock, base |-> base, left |-> left]
<1>1. since' = [since EXCEPT ![t] = s] /\ since \in [Tasks -> Sinces]
  BY DEF TimedFromNow, TypeOK, Sinces
<1>2. base \in Nat /\ (parent # NoTask => base = done[parent])
  BY DEF TypeOK
<1>3. left \in BOOLEAN
  BY Zenon
<1>4. clock \in 0 .. MaxTime
  BY DEF TypeOK
<1> HIDE DEF base, left
<1>5. s \in Sinces /\ s.at = clock /\ s.base = base /\ s.left = left
  BY <1>2, <1>3, <1>4 DEF Sinces
<1> HIDE DEF s
<1>6. since' \in [Tasks -> Sinces] /\ since'[t] = s /\ \A u \in Tasks : u # t => since'[u] = since[u]
  BY <1>1, <1>5
<1>7. since'[t].left = (parent # NoTask /\ due # Never)
  BY <1>5, <1>6, Zenon DEF left
<1> QED
  BY <1>2, <1>5, <1>6, <1>7

\* A new row gets a time after the clock, or none.
LEMMA CreateRow ==
  ASSUME Sizes, TypeOK, NEW t \in Tasks, NEW kind \in Kinds,
         NEW parent \in Tasks \cup {NoTask}, NEW oneTime \in BOOLEAN, NEW enabled \in BOOLEAN,
         CreateTask(t, kind, parent, oneTime, enabled)
  PROVE  \E due \in 0 .. LastDue :
           /\ due = Never \/ (parent = NoTask /\ due > clock)
           /\ TimedFromNow(t, parent, due)
           /\ rows' \in [Tasks -> Rows \cup {Absent}] /\ rows'[t] \in Rows
           /\ rows'[t].due = due /\ rows'[t].parent = parent /\ rows'[t].oneTime = oneTime
           /\ \A u \in Tasks : u # t => rows'[u] = rows[u]
<1> DEFINE due == IF enabled /\ parent = NoTask THEN NextAfter(kind, clock, clock) ELSE Never
           row == [kind |-> kind, parent |-> parent, oneTime |-> oneTime,
                   enabled |-> enabled, last |-> "none", due |-> due]
<1>1. clock \in 0 .. MaxTime /\ clock \in Nat
  BY DEF TypeOK, Sizes
<1>2. due = Never \/ (parent = NoTask /\ due \in clock + 1 .. clock + Every)
  BY <1>1, NextIsLater
<1>3. rows' = [rows EXCEPT ![t] = row] /\ TimedFromNow(t, parent, due)
  BY DEF CreateTask
<1> HIDE DEF due
<1>4. due \in 0 .. LastDue
  BY <1>1, <1>2, DueType
<1>5. due = Never \/ (parent = NoTask /\ due > clock)
  BY <1>1, <1>2 DEF Sizes
<1>6. row \in Rows /\ row.due = due /\ row.parent = parent /\ row.oneTime = oneTime
  BY <1>4 DEF Rows
<1> HIDE DEF row
<1>7. /\ rows' \in [Tasks -> Rows \cup {Absent}] /\ rows'[t] = row
      /\ \A u \in Tasks : u # t => rows'[u] = rows[u]
  BY <1>3, <1>6 DEF TypeOK
<1> QED
  BY <1>3, <1>4, <1>5, <1>6, <1>7

\* A row that a person changed keeps its time if it follows another, loses it, or gets a later one.
LEMMA UpdateRow ==
  ASSUME Sizes, TypeOK, NEW t \in Tasks, NEW kind \in Kinds,
         NEW parent \in Tasks \cup {NoTask}, NEW oneTime \in BOOLEAN, NEW enabled \in BOOLEAN,
         UpdateTask(t, kind, parent, oneTime, enabled)
  PROVE  \E due \in 0 .. LastDue :
           /\ \/ due = Never
              \/ parent = NoTask /\ due > clock
              \/ parent # NoTask /\ due = rows[t].due
           /\ IF Step(t) /\ parent = rows[t].parent THEN since' = since
              ELSE TimedFromNow(t, parent, due)
           /\ rows' \in [Tasks -> Rows \cup {Absent}] /\ rows'[t] \in Rows
           /\ rows'[t].due = due /\ rows'[t].parent = parent /\ rows'[t].oneTime = oneTime
           /\ \A u \in Tasks : u # t => rows'[u] = rows[u]
<1> DEFINE due == IF ~enabled THEN Never
                  ELSE IF parent = NoTask THEN NextAfter(kind, clock, clock) ELSE rows[t].due
           row == [rows[t] EXCEPT !.kind = kind, !.parent = parent, !.oneTime = oneTime,
                                  !.enabled = enabled, !.due = due]
<1>1. clock \in 0 .. MaxTime /\ clock \in Nat
  BY DEF TypeOK, Sizes
<1>2. rows[t] \in Rows /\ rows[t].due \in 0 .. LastDue
  <2>1. rows[t] \in Rows
    BY DEF TypeOK, UpdateTask, Present
  <2> QED
    BY <2>1 DEF Rows
<1>3. \/ due = Never
      \/ parent = NoTask /\ due \in clock + 1 .. clock + Every
      \/ parent # NoTask /\ due = rows[t].due
  BY <1>1, NextIsLater
<1>4. /\ rows' = [rows EXCEPT ![t] = row]
      /\ IF Step(t) /\ parent = rows[t].parent THEN since' = since
         ELSE TimedFromNow(t, parent, due)
  BY DEF UpdateTask
<1> HIDE DEF due
<1>5. due \in 0 .. LastDue
  BY <1>1, <1>2, <1>3, DueType
<1>6. \/ due = Never
      \/ parent = NoTask /\ due > clock
      \/ parent # NoTask /\ due = rows[t].due
  BY <1>1, <1>3 DEF Sizes
<1>7. row \in Rows /\ row.due = due /\ row.parent = parent /\ row.oneTime = oneTime
  BY <1>2, <1>5 DEF Rows
<1> HIDE DEF row
<1>8. /\ rows' \in [Tasks -> Rows \cup {Absent}] /\ rows'[t] = row
      /\ \A u \in Tasks : u # t => rows'[u] = rows[u]
  BY <1>4, <1>7 DEF TypeOK
<1> QED
  BY <1>4, <1>5, <1>6, <1>7, <1>8

LEMMA CreateStep ==
  ASSUME Sizes, IInv, NEW t \in Tasks, NEW kind \in Kinds,
         NEW parent \in Tasks \cup {NoTask}, NEW oneTime \in BOOLEAN, NEW enabled \in BOOLEAN,
         CreateTask(t, kind, parent, oneTime, enabled)
  PROVE  IInv'
<1>1. PICK due \in 0 .. LastDue :
        /\ due = Never \/ (parent = NoTask /\ due > clock)
        /\ TimedFromNow(t, parent, due)
        /\ rows' \in [Tasks -> Rows \cup {Absent}] /\ rows'[t].due = due
        /\ \A u \in Tasks : u # t => rows'[u] = rows[u]
  BY CreateRow DEF IInv
<1>2. due \in Int
  BY DEF Sizes, LastDue
<1>3. TypeOK'
  <2>1. since' \in [Tasks -> Sinces]
    BY <1>1, SinceType DEF IInv
  <2>2. budget' \in Budgets
    BY EditedType DEF IInv, CreateTask
  <2> QED
    BY <1>1, <2>1, <2>2 DEF IInv, TypeOK, CreateTask, Sinces, Budgets
<1>4. \A u \in Tasks : TimeMoves(u)
  BY <1>1, <1>2 DEF TimeMoves, Present
<1> QED
  BY <1>3, <1>4, LoopsIdle DEF IInv, CreateTask

LEMMA UpdateStep ==
  ASSUME Sizes, IInv, NEW t \in Tasks, NEW kind \in Kinds,
         NEW parent \in Tasks \cup {NoTask}, NEW oneTime \in BOOLEAN, NEW enabled \in BOOLEAN,
         UpdateTask(t, kind, parent, oneTime, enabled)
  PROVE  IInv'
<1>1. PICK due \in 0 .. LastDue :
        /\ \/ due = Never
           \/ parent = NoTask /\ due > clock
           \/ parent # NoTask /\ due = rows[t].due
        /\ since' = since \/ TimedFromNow(t, parent, due)
        /\ rows' \in [Tasks -> Rows \cup {Absent}] /\ rows'[t].due = due
        /\ \A u \in Tasks : u # t => rows'[u] = rows[u]
  BY UpdateRow DEF IInv
<1>2. due \in Int /\ Present(t)
  BY DEF Sizes, LastDue, UpdateTask
<1>3. TypeOK'
  <2>1. since' \in [Tasks -> Sinces]
    <3>1. CASE since' = since
      BY <3>1 DEF IInv, TypeOK, Sinces
    <3>2. CASE TimedFromNow(t, parent, due)
      BY <3>2, SinceType DEF IInv
    <3> QED
      BY <1>1, <3>1, <3>2
  <2>2. budget' \in Budgets
    BY EditedType DEF IInv, UpdateTask
  <2> QED
    BY <1>1, <2>1, <2>2 DEF IInv, TypeOK, UpdateTask, Sinces, Budgets
<1>4. \A u \in Tasks : TimeMoves(u)
  BY <1>1, <1>2 DEF TimeMoves, Present
<1> QED
  BY <1>3, <1>4, LoopsIdle DEF IInv, UpdateTask

LEMMA RemoveStep ==
  ASSUME Sizes, IInv, NEW t \in Tasks, RemoveTask(t)
  PROVE  IInv'
<1>1. PICK gone : rows' = [u \in Tasks |-> IF u \in gone THEN Absent ELSE rows[u]]
  BY DEF RemoveTask
<1>2. TypeOK'
  <2>1. rows' \in [Tasks -> Rows \cup {Absent}]
    BY <1>1 DEF IInv, TypeOK
  <2>2. budget' \in Budgets
    BY EditedType DEF IInv, RemoveTask
  <2> QED
    BY <2>1, <2>2 DEF IInv, TypeOK, RemoveTask, Budgets
<1>3. \A u \in Tasks : TimeMoves(u)
  BY <1>1 DEF TimeMoves, Present
<1> QED
  BY <1>2, <1>3, LoopsIdle DEF IInv, RemoveTask

-----------------------------------------------------------------------------

\* A loop that does not take up a run afterwards takes up no new one.
LEMMA LoopMoves ==
  ASSUME Sizes, IInv, NEW p \in Loops, NEW x \in Loop,
         loop' = [loop EXCEPT ![p] = x], x.pc = "do" => x.manual
  PROVE  /\ loop' \in [Loops -> Loop]
         /\ \A q \in Loops, t \in Tasks, d \in Dues : Doing(q, t, d)' => Doing(q, t, d)
<1>1. loop' \in [Loops -> Loop]
  BY DEF IInv, TypeOK
<1>2. ASSUME NEW q \in Loops, NEW t \in Tasks, NEW d \in Dues, Doing(q, t, d)'
      PROVE  Doing(q, t, d)
  <2>1. CASE q = p
    <3>1. loop'[q] = x
      BY <2>1 DEF IInv, TypeOK
    <3> QED
      BY <1>2, <3>1 DEF Doing
  <2>2. CASE q # p
    <3>1. loop'[q] = loop[q]
      BY <2>2 DEF IInv, TypeOK
    <3> QED
      BY <1>2, <3>1 DEF Doing
  <2> QED
    BY <2>1, <2>2
<1> QED
  BY <1>1, <1>2

\* What a loop knows stays true when its own part is replaced by one that is.
LEMMA BusyKept ==
  ASSUME Sizes, IInv, NEW p \in Loops, NEW x \in Loop, clock' = clock,
         loop' = [loop EXCEPT ![p] = x],
         x.pc \in {"missed", "do", "record", "off"} => x.task \in Tasks,
         x.pc = "do" /\ ~x.manual => x.at \in Dues,
         x.now <= clock, \A e \in x.due : e.at <= x.now
  PROVE  Busy'
<1> SUFFICES ASSUME NEW q \in Loops
             PROVE  /\ loop'[q].pc \in {"missed", "do", "record", "off"} => loop'[q].task \in Tasks
                    /\ loop'[q].pc = "do" /\ ~loop'[q].manual => loop'[q].at \in Dues
                    /\ loop'[q].now <= clock
                    /\ \A e \in loop'[q].due : e.at <= loop'[q].now
  BY DEF Busy, Dues, LastDue
<1>1. CASE q = p
  <2>1. loop'[q] = x
    BY <1>1 DEF IInv, TypeOK
  <2> QED
    BY <2>1
<1>2. CASE q # p
  <2>1. loop'[q] = loop[q]
    BY <1>2 DEF IInv, TypeOK
  <2> QED
    BY <2>1 DEF IInv, Busy
<1> QED
  BY <1>1, <1>2

\* And so what it read, with the rows that were not there, have no time or a later one.
LEMMA SnappedKept ==
  ASSUME Sizes, IInv, NEW p \in Loops, NEW x \in Loop, clock' = clock,
         loop' = [loop EXCEPT ![p] = x], x.now <= clock,
         \A e \in x.due :
           /\ e.at <= x.now
           /\ Present(e.task) /\ rows[e.task].due # Never => e.at <= rows[e.task].due,
         \A t \in Tasks : TimeMoves(t)
  PROVE  Snapped'
<1> SUFFICES ASSUME NEW q \in Loops, NEW e \in loop'[q].due,
                    Present(e.task)', rows'[e.task].due # Never
             PROVE  e.at <= rows'[e.task].due
  BY DEF Snapped
<1> DEFINE t == e.task
<1>1. /\ t \in Tasks /\ e.at \in Int /\ e.at <= clock /\ clock \in Int
      /\ Present(t) /\ rows[t].due # Never => e.at <= rows[t].due
  <2>1. clock \in Int
    BY DEF IInv, TypeOK
  <2>2. CASE q = p
    <3>1. e \in x.due
      BY <2>2 DEF IInv, TypeOK
    <3>2. e \in Readings /\ x.now \in Int
      BY <3>1 DEF Loop
    <3>3. t \in Tasks /\ e.at \in Int
      BY <3>2 DEF Readings
    <3> QED
      BY <2>1, <3>1, <3>2, <3>3
  <2>3. CASE q # p
    <3>1. e \in loop[q].due
      BY <2>3 DEF IInv, TypeOK
    <3>2. t \in Tasks /\ e.at \in Int /\ e.at <= clock
      BY <3>1, ReadingTyped DEF IInv, Dues
    <3> QED
      BY <2>1, <3>1, <3>2 DEF IInv, Snapped
  <2> QED
    BY <2>2, <2>3
<1>2. Present(t)' /\ rows'[t].due # Never
  OBVIOUS
<1> HIDE DEF t
<1>3. e.at <= rows'[t].due
  BY <1>1, <1>2 DEF TimeMoves
<1> QED
  BY <1>3 DEF t

LEMMA RestingType ==
  ASSUME Sizes
  PROVE  /\ Resting \in Loop /\ Resting.pc = "idle" /\ Resting.now = 0
         /\ Resting.due = {} /\ ~Resting.manual
BY DEF Sizes, Resting, Loop, LastDue

\* A loop that goes on, with its row and the others as they are.
LEMMA LoopGoesOn ==
  ASSUME Sizes, IInv, NEW p \in Loops, NEW x \in Loop,
         loop' = [loop EXCEPT ![p] = x], x.pc = "do" => x.manual,
         x.pc \in {"missed", "do", "record", "off"} => x.task \in Tasks,
         x.now <= clock,
         \A e \in x.due :
           /\ e.at <= x.now
           /\ Present(e.task) /\ rows[e.task].due # Never => e.at <= rows[e.task].due,
         UNCHANGED <<clock, ran, since>>,
         rows' \in [Tasks -> Rows \cup {Absent}], done' \in [Tasks -> Nat], budget' \in Budgets,
         \A t \in Tasks : TimeMoves(t)
  PROVE  IInv'
<1>1. /\ loop' \in [Loops -> Loop]
      /\ \A q \in Loops, t \in Tasks, d \in Dues : Doing(q, t, d)' => Doing(q, t, d)
  BY LoopMoves
<1>2. TypeOK'
  BY <1>1 DEF IInv, TypeOK, Budgets
<1>3. Busy'
  BY BusyKept
<1>4. Ahead' /\ Alone' /\ RunsOnce'
  BY <1>1, AheadKept
<1>5. Snapped'
  BY SnappedKept
<1> QED
  BY <1>2, <1>3, <1>4, <1>5 DEF IInv

\* What a loop keeps of what it read is as true as all it read.
LEMMA StillRead ==
  ASSUME IInv, NEW p \in Loops, NEW S, S \subseteq loop[p].due
  PROVE  /\ loop[p].now <= clock
         /\ \A e \in S : /\ e.at <= loop[p].now
                         /\ Present(e.task) /\ rows[e.task].due # Never => e.at <= rows[e.task].due
BY DEF IInv, Busy, Snapped

\* The rows as they are.
LEMMA RowsStay ==
  ASSUME IInv, rows' = rows
  PROVE  /\ rows' \in [Tasks -> Rows \cup {Absent}]
         /\ \A t \in Tasks : TimeMoves(t)
BY DEF IInv, TypeOK, Present, TimeMoves

LEMMA BudgetStays == ASSUME IInv, budget' = budget PROVE budget' \in Budgets
BY DEF IInv, TypeOK, Budgets

\* What is due now is read as it is.
LEMMA Reads ==
  ASSUME Sizes, TypeOK, NEW e \in DueNow
  PROVE  /\ e \in Readings /\ e.at <= clock /\ Present(e.task) /\ rows[e.task].due = e.at
         /\ ~e.step => ~Step(e.task)
         /\ ~e.oneTime => ~rows[e.task].oneTime
<1>1. PICK t \in Tasks :
        /\ Present(t) /\ rows[t].due \in 1 .. clock
        /\ e = [task |-> t, at |-> rows[t].due, kind |-> rows[t].kind, step |-> Step(t),
                oneTime |-> rows[t].oneTime]
  BY DEF DueNow
<1>2. rows[t] \in Rows /\ clock \in 1 .. MaxTime
  BY <1>1 DEF TypeOK, Present
<1>3. /\ e.task = t /\ e.at = rows[t].due /\ e.kind = rows[t].kind /\ e.oneTime = rows[t].oneTime
      /\ e.step = Step(t)
  BY <1>1, Zenon
<1>4. rows[t].due \in 1 .. LastDue
  BY <1>1, <1>2 DEF Sizes, LastDue
<1>5. rows[t].kind \in Kinds /\ rows[t].oneTime \in BOOLEAN
  BY <1>2 DEF Rows
<1>6. Step(t) \in BOOLEAN
  BY Zenon DEF Step
<1> DEFINE at == rows[t].due
           kind == rows[t].kind
           step == Step(t)
           oneTime == rows[t].oneTime
<1>7. /\ e = [task |-> t, at |-> at, kind |-> kind, step |-> step, oneTime |-> oneTime]
      /\ at \in 1 .. LastDue /\ kind \in Kinds /\ step \in BOOLEAN /\ oneTime \in BOOLEAN
  BY <1>1, <1>4, <1>5, <1>6, Zenon
<1> HIDE DEF at, kind, step, oneTime
<1>8. e \in Readings
  BY <1>7 DEF Readings
<1>9. ~e.step => ~Step(e.task)
  BY <1>3, Zenon
<1>10. e.at <= clock
  BY <1>1, <1>3
<1> QED
  BY <1>1, <1>3, <1>8, <1>9, <1>10

\* The loop reads what is due by now.
LEMMA Looked ==
  ASSUME Sizes, TypeOK, NEW p \in Loops, LooksForDue(p)
  PROVE  \E x \in Loop : /\ loop' = [loop EXCEPT ![p] = x]
                         /\ x.pc = "batch" /\ x.now = clock /\ x.due = DueNow
<1> DEFINE x == [Resting EXCEPT !.pc = "batch", !.now = clock, !.due = DueNow]
<1>1. loop' = [loop EXCEPT ![p] = x]
  BY DEF LooksForDue
<1>2. Resting \in Loop
  BY RestingType
<1>3. clock \in 0 .. MaxTime
  BY DEF TypeOK
<1>4. DueNow \in SUBSET Readings
  BY Reads
<1> HIDE DEF Resting
<1>5. x \in Loop /\ x.pc = "batch" /\ x.now = clock /\ x.due = DueNow
  BY <1>2, <1>3, <1>4 DEF Loop
<1> QED
  BY <1>1, <1>5

LEMMA LookStep ==
  ASSUME Sizes, IInv, NEW p \in Loops, LooksForDue(p)
  PROVE  IInv'
<1>1. PICK x \in Loop : /\ loop' = [loop EXCEPT ![p] = x]
                        /\ x.pc = "batch" /\ x.now = clock /\ x.due = DueNow
  BY Looked DEF IInv
<1>2. /\ done' \in [Tasks -> Nat] /\ budget' \in Budgets /\ rows' = rows
      /\ UNCHANGED <<clock, ran, since>>
  BY BudgetStays DEF IInv, TypeOK, LooksForDue
<1>3. ASSUME NEW e \in x.due
      PROVE  /\ e.at <= x.now
             /\ Present(e.task) /\ rows[e.task].due # Never => e.at <= rows[e.task].due
  <2>1. e.at <= clock /\ rows[e.task].due = e.at /\ e \in Readings
    BY <1>1, <1>3, Reads DEF IInv
  <2>2. e.at \in Int
    BY <2>1 DEF Readings
  <2> QED
    BY <1>1, <2>1, <2>2
<1>4. x.now <= clock
  BY <1>1 DEF IInv, TypeOK
<1> QED
  BY <1>1, <1>2, <1>3, <1>4, RowsStay, LoopGoesOn

\* A row that is no longer as it was read is left alone.
LEMMA PassStep ==
  ASSUME Sizes, IInv, NEW p \in Loops, NEW e, loop[p].pc = "batch", PassesBy(p, e)
  PROVE  IInv'
<1> DEFINE x == [loop[p] EXCEPT !.due = @ \ {e}]
<1>1. loop' = [loop EXCEPT ![p] = x]
  BY DEF IInv, TypeOK, PassesBy
<1>2. loop[p] \in Loop
  BY DEF IInv, TypeOK
<1>3. x \in Loop /\ x.pc = "batch" /\ x.now = loop[p].now /\ x.due \subseteq loop[p].due
  BY <1>2 DEF Loop
<1> HIDE DEF x
<1>4. /\ x.now <= clock
      /\ \A f \in x.due :
           /\ f.at <= x.now
           /\ Present(f.task) /\ rows[f.task].due # Never => f.at <= rows[f.task].due
  BY <1>3, StillRead
<1>5. /\ done' \in [Tasks -> Nat] /\ budget' \in Budgets /\ rows' = rows
      /\ UNCHANGED <<clock, ran, since>>
  BY BudgetStays DEF IInv, TypeOK, PassesBy
<1> QED
  BY <1>1, <1>3, <1>4, <1>5, RowsStay, LoopGoesOn

\* A loop that rests again.
LEMMA RestStep ==
  ASSUME Sizes, IInv, NEW p \in Loops, loop' = [loop EXCEPT ![p] = Resting],
         UNCHANGED <<clock, rows, ran, done, since>>, budget' \in Budgets
  PROVE  IInv'
<1>1. /\ Resting \in Loop /\ Resting.pc = "idle" /\ Resting.now <= clock
      /\ \A e \in Resting.due :
           /\ e.at <= Resting.now
           /\ Present(e.task) /\ rows[e.task].due # Never => e.at <= rows[e.task].due
  BY RestingType DEF IInv, TypeOK, Sizes
<1>2. done' \in [Tasks -> Nat]
  BY DEF IInv, TypeOK
<1> QED
  BY <1>1, <1>2, RowsStay, LoopGoesOn

LEMMA BatchStep ==
  ASSUME Sizes, IInv, NEW p \in Loops, BatchEnds(p)
  PROVE  IInv'
BY BudgetStays, RestStep DEF BatchEnds

LEMMA DeathStep ==
  ASSUME Sizes, IInv, NEW p \in Loops, LoopDies(p)
  PROVE  IInv'
<1> DEFINE n == budget.deaths + 1
<1>1. budget' = [budget EXCEPT !.deaths = n]
  BY DEF LoopDies
<1>2. budget \in Budgets
  BY DEF IInv, TypeOK, Budgets
<1>3. n \in 0 .. MaxDeaths
  BY <1>2 DEF LoopDies, Sizes, Budgets
<1> HIDE DEF n
<1>4. budget' \in Budgets
  BY <1>1, <1>2, <1>3 DEF Budgets
<1> QED
  BY <1>4, RestStep DEF LoopDies

\* A run by hand claims nothing.
LEMMA ByHandStep ==
  ASSUME Sizes, IInv, NEW p \in Loops, NEW t \in Tasks, RunByHand(p, t)
  PROVE  IInv'
<1> DEFINE x == [Resting EXCEPT !.pc = "do", !.task = t, !.manual = TRUE]
<1>1. /\ loop' = [loop EXCEPT ![p] = x] /\ UNCHANGED <<clock, ran, since>> /\ rows' = rows
      /\ done' \in [Tasks -> Nat]
  BY DEF IInv, TypeOK, RunByHand
<1>2. x \in Loop /\ x.task = t /\ x.manual /\ x.now = 0 /\ x.due = {}
  <2>1. /\ Resting \in Loop /\ Resting.now = 0 /\ Resting.due = {}
        /\ t \in Tasks \cup {NoTask}
    BY RestingType
  <2> HIDE DEF Resting
  <2> QED
    BY <2>1 DEF Loop
<1> HIDE DEF x
<1>3. budget' \in Budgets
  BY EditedType DEF IInv, RunByHand
<1>4. x.now <= clock
  BY <1>2 DEF IInv, TypeOK, Sizes
<1> QED
  BY <1>1, <1>2, <1>3, <1>4, RowsStay, LoopGoesOn

\* What is written on a row, and on the rows that follow, of which it may be one.
LEMMA RecordedRows ==
  ASSUME Sizes, TypeOK, NEW t \in Tasks, NEW what \in {"ran", "missed"},
         NEW followers \in SUBSET Tasks, \A u \in followers : Present(u),
         Recorded(t, what, followers)
  PROVE  /\ rows' \in [Tasks -> Rows \cup {Absent}]
         /\ \A u \in Tasks :
              /\ Present(u)' => /\ Present(u) /\ rows'[u].parent = rows[u].parent
                                /\ rows'[u].oneTime = rows[u].oneTime
              /\ \/ ~Present(u)'
                 \/ u \in followers /\ rows'[u].due = clock + Delay /\ rows'[u].due > clock
                 \/ rows'[u].due = rows[u].due
<1>1. CASE ~Present(t)
  BY <1>1 DEF Recorded, Present, TypeOK
<1>2. CASE Present(t)
  <2>1. clock \in 0 .. MaxTime /\ clock + Delay \in 0 .. LastDue /\ clock + Delay > clock
    BY DEF TypeOK, Sizes, LastDue
  <2>2. ASSUME NEW u \in Tasks
        PROVE  /\ rows'[u] \in Rows \cup {Absent}
               /\ Present(u)' => /\ Present(u) /\ rows'[u].parent = rows[u].parent
                                 /\ rows'[u].oneTime = rows[u].oneTime
               /\ \/ ~Present(u)'
                  \/ u \in followers /\ rows'[u].due = clock + Delay /\ rows'[u].due > clock
                  \/ rows'[u].due = rows[u].due
    <3>0. rows[u] \in Rows \cup {Absent}
      BY DEF TypeOK
    <3> DEFINE due == IF u \in followers THEN clock + Delay ELSE rows[u].due
    <3>1. CASE u \notin followers /\ u # t
      <4>1. rows'[u] = rows[u]
        BY <1>2, <3>1 DEF Recorded
      <4> QED
        BY <3>0, <4>1 DEF Present
    <3>2. CASE u \in followers \/ u = t
      <4>1. Present(u) /\ rows[u] \in Rows
        BY <1>2, <3>0, <3>2 DEF Present
      <4>2. rows'[u] = [rows[u] EXCEPT !.last = what, !.due = due]
            \/ rows'[u] = [rows[u] EXCEPT !.due = due]
        BY <1>2, <3>2 DEF Recorded
      <4>3. due \in 0 .. LastDue
        BY <2>1, <4>1 DEF Rows
      <4>4. /\ due = clock + Delay /\ u \in followers /\ due > clock
            \/ due = rows[u].due
        BY <2>1
      <4> HIDE DEF due
      <4>5. /\ rows'[u] \in Rows /\ rows'[u].due = due /\ rows'[u].parent = rows[u].parent
            /\ rows'[u].oneTime = rows[u].oneTime
        BY <4>1, <4>2, <4>3 DEF Rows
      <4> QED
        BY <4>1, <4>4, <4>5
    <3> QED
      BY <3>1, <3>2
  <2>3. rows' = [u \in Tasks |-> rows'[u]]
    BY <1>2 DEF Recorded
  <2> QED
    BY <2>2, <2>3
<1> QED
  BY <1>1, <1>2

LEMMA RecordedMoves ==
  ASSUME Sizes, TypeOK, NEW t \in Tasks, NEW what \in {"ran", "missed"},
         NEW followers \in SUBSET Tasks, \A u \in followers : Present(u),
         Recorded(t, what, followers)
  PROVE  /\ rows' \in [Tasks -> Rows \cup {Absent}]
         /\ \A u \in Tasks : TimeMoves(u)
<1>1. clock + Delay \in Int
  BY DEF TypeOK, Sizes
<1> QED
  BY <1>1, RecordedRows DEF TimeMoves

LEMMA MissedStep ==
  ASSUME Sizes, IInv, NEW p \in Loops, SaysMissed(p)
  PROVE  IInv'
<1> DEFINE x == [loop[p] EXCEPT !.pc = "batch"]
<1>1. /\ loop' = [loop EXCEPT ![p] = x] /\ UNCHANGED <<clock, ran, since>>
      /\ done' \in [Tasks -> Nat] /\ budget' \in Budgets
  BY BudgetStays DEF IInv, TypeOK, SaysMissed
<1>2. loop[p] \in Loop
  BY DEF IInv, TypeOK
<1>3. x \in Loop /\ x.pc = "batch" /\ x.now = loop[p].now /\ x.due = loop[p].due
  BY <1>2 DEF Loop
<1> HIDE DEF x
<1>4. /\ x.now <= clock
      /\ \A f \in x.due :
           /\ f.at <= x.now
           /\ Present(f.task) /\ rows[f.task].due # Never => f.at <= rows[f.task].due
  BY <1>3, StillRead
<1>5. loop[p].task \in Tasks /\ Recorded(loop[p].task, "missed", {})
  BY DEF IInv, Busy, SaysMissed
<1>6. rows' \in [Tasks -> Rows \cup {Absent}] /\ \A u \in Tasks : TimeMoves(u)
  <2>1. {} \in SUBSET Tasks /\ \A u \in {} : Present(u)
    OBVIOUS
  <2> QED
    BY <1>5, <2>1, RecordedMoves DEF IInv
<1> QED
  BY <1>1, <1>3, <1>4, <1>6, LoopGoesOn

\* The loop after it recorded a run.
LEMMA RecordMoves ==
  ASSUME Sizes, IInv, NEW p \in Loops, Records(p)
  PROVE  \E x \in Loop :
           /\ loop' = [loop EXCEPT ![p] = x]
           /\ x.pc \in {"idle", "off", "batch"} /\ (x.pc = "idle" \/ x.task = loop[p].task)
           /\ x.now <= clock /\ (x.now = loop[p].now \/ x.due = {}) /\ x.due \subseteq loop[p].due
<1> DEFINE x == IF loop[p].manual THEN Resting
                ELSE [loop[p] EXCEPT !.pc = IF loop[p].oneTime THEN "off" ELSE "batch"]
<1>1. loop' = [loop EXCEPT ![p] = x]
  BY DEF Records
<1>2. loop[p] \in Loop /\ loop[p].now <= clock
  BY DEF IInv, TypeOK, Busy
<1>3. CASE loop[p].manual
  <2>1. x = Resting /\ 0 <= clock
    BY <1>3 DEF IInv, TypeOK, Sizes
  <2> HIDE DEF x
  <2> QED
    BY <1>1, <2>1, RestingType
<1>4. CASE ~loop[p].manual
  <2>1. x = [loop[p] EXCEPT !.pc = IF loop[p].oneTime THEN "off" ELSE "batch"]
    BY <1>4
  <2> HIDE DEF x
  <2>2. /\ x \in Loop /\ x.pc \in {"off", "batch"} /\ x.task = loop[p].task
        /\ x.now = loop[p].now /\ x.due = loop[p].due
    BY <1>2, <2>1 DEF Loop
  <2> QED
    BY <1>1, <1>2, <2>2
<1> QED
  BY <1>3, <1>4

LEMMA RecordStep ==
  ASSUME Sizes, IInv, NEW p \in Loops, Records(p)
  PROVE  IInv'
<1>1. PICK x \in Loop :
        /\ loop' = [loop EXCEPT ![p] = x]
        /\ x.pc \in {"idle", "off", "batch"} /\ (x.pc = "idle" \/ x.task = loop[p].task)
        /\ x.now <= clock /\ (x.now = loop[p].now \/ x.due = {}) /\ x.due \subseteq loop[p].due
  BY RecordMoves
<1>2. loop[p].task \in Tasks
  BY DEF IInv, Busy, Records
<1>3. UNCHANGED <<clock, ran, since>> /\ done' \in [Tasks -> Nat] /\ budget' \in Budgets
  BY <1>2, BudgetStays DEF IInv, TypeOK, Records
<1>4. rows' \in [Tasks -> Rows \cup {Absent}] /\ \A u \in Tasks : TimeMoves(u)
  <2>1. FollowersOf(loop[p].task) \in SUBSET Tasks /\ \A u \in FollowersOf(loop[p].task) : Present(u)
    BY DEF FollowersOf
  <2>2. Recorded(loop[p].task, "ran", FollowersOf(loop[p].task))
    BY DEF Records
  <2> QED
    BY <1>2, <2>1, <2>2, RecordedMoves DEF IInv
<1>5. \A f \in x.due :
        /\ f.at <= x.now
        /\ Present(f.task) /\ rows[f.task].due # Never => f.at <= rows[f.task].due
  BY <1>1, StillRead
<1>6. x.pc \in {"missed", "do", "record", "off"} => x.task \in Tasks
  BY <1>1, <1>2
<1> QED
  BY <1>1, <1>3, <1>4, <1>5, <1>6, LoopGoesOn

\* The row of a task that is switched off.
LEMMA OffRows ==
  ASSUME TypeOK, NEW p \in Loops, loop[p].task \in Tasks, SwitchesOff(p)
  PROVE  /\ rows' \in [Tasks -> Rows \cup {Absent}]
         /\ \A u \in Tasks :
              Present(u)' => /\ Present(u) /\ rows'[u].parent = rows[u].parent
                             /\ rows'[u].oneTime = rows[u].oneTime
                             /\ rows'[u].due = rows[u].due
<1> DEFINE t == loop[p].task
<1>1. CASE ~Present(t)
  BY <1>1 DEF SwitchesOff, TypeOK, Present
<1>2. CASE Present(t)
  <2> DEFINE row == [rows[t] EXCEPT !.enabled = FALSE]
  <2>1. rows' = [rows EXCEPT ![t] = row]
    BY <1>2 DEF SwitchesOff, TypeOK
  <2>2. rows[t] \in Rows
    BY <1>2 DEF TypeOK, Present
  <2>3. /\ row \in Rows /\ row.due = rows[t].due /\ row.parent = rows[t].parent
        /\ row.oneTime = rows[t].oneTime
    BY <2>2 DEF Rows
  <2> HIDE DEF row, t
  <2>4. rows' \in [Tasks -> Rows \cup {Absent}]
    BY <2>1, <2>3 DEF TypeOK
  <2>5. ASSUME NEW u \in Tasks, Present(u)'
        PROVE  /\ Present(u) /\ rows'[u].parent = rows[u].parent
               /\ rows'[u].oneTime = rows[u].oneTime
               /\ rows'[u].due = rows[u].due
    <3>1. CASE u = t
      <4>1. rows'[u] = row
        BY <2>1, <3>1 DEF TypeOK
      <4> QED
        BY <1>2, <2>3, <3>1, <4>1
    <3>2. CASE u # t
      <4>1. rows'[u] = rows[u]
        BY <2>1, <3>2 DEF TypeOK
      <4> QED
        BY <2>5, <4>1 DEF Present
    <3> QED
      BY <3>1, <3>2
  <2> QED
    BY <2>4, <2>5
<1> QED
  BY <1>1, <1>2

LEMMA OffStep ==
  ASSUME Sizes, IInv, NEW p \in Loops, SwitchesOff(p)
  PROVE  IInv'
<1> DEFINE x == [loop[p] EXCEPT !.pc = "batch"]
<1>1. /\ loop' = [loop EXCEPT ![p] = x] /\ UNCHANGED <<clock, ran, since>>
      /\ done' \in [Tasks -> Nat] /\ budget' \in Budgets
  BY BudgetStays DEF IInv, TypeOK, SwitchesOff
<1>2. loop[p] \in Loop /\ loop[p].task \in Tasks
  BY DEF IInv, TypeOK, Busy, SwitchesOff
<1>3. x \in Loop /\ x.pc = "batch" /\ x.now = loop[p].now /\ x.due = loop[p].due
  BY <1>2 DEF Loop
<1> HIDE DEF x
<1>4. /\ x.now <= clock
      /\ \A f \in x.due :
           /\ f.at <= x.now
           /\ Present(f.task) /\ rows[f.task].due # Never => f.at <= rows[f.task].due
  BY <1>3, StillRead
<1>5. rows' \in [Tasks -> Rows \cup {Absent}] /\ \A u \in Tasks : TimeMoves(u)
  BY <1>2, OffRows DEF IInv, TimeMoves
<1> QED
  BY <1>1, <1>3, <1>4, <1>5, LoopGoesOn

-----------------------------------------------------------------------------
(* The claim, and the run.                                                 *)

\* What a claim makes of the row and the loop: the time that the row gets instead is later than
\* the one it had, and none for a step or a one-time task that was read as one.
LEMMA TakenUp ==
  ASSUME Sizes, TypeOK, Busy, NEW p \in Loops, NEW e \in loop[p].due, Present(e.task),
         rows[e.task].due = e.at, TakesUp(p, e)
  PROVE  \E x \in Loop, new \in 0 .. LastDue :
           /\ loop' = [loop EXCEPT ![p] = x]
           /\ x.pc \in {"missed", "do"} /\ x.task = e.task /\ x.at = e.at
           /\ x.now = loop[p].now /\ x.due \subseteq loop[p].due
           /\ rows' \in [Tasks -> Rows \cup {Absent}] /\ rows'[e.task] \in Rows
           /\ rows'[e.task].due = new /\ rows'[e.task].parent = rows[e.task].parent
           /\ rows'[e.task].oneTime = rows[e.task].oneTime
           /\ \A u \in Tasks : u # e.task => rows'[u] = rows[u]
           /\ new = Never \/ new > e.at
           /\ e.step \/ e.oneTime => new = Never
<1> DEFINE t == e.task
           new == Moved(e, loop[p].now)
           row == [rows[t] EXCEPT !.due = new]
           pc == IF loop[p].now > e.at + Grace THEN "missed" ELSE "do"
           x == [loop[p] EXCEPT !.due = @ \ {e}, !.task = t, !.at = e.at,
                   !.oneTime = e.oneTime, !.pc = pc]
<1>1. loop' = [loop EXCEPT ![p] = x] /\ rows' = [rows EXCEPT ![t] = row]
  BY DEF TakesUp
<1>2. /\ t \in Tasks /\ e \in Readings /\ e.at \in Dues /\ e.at <= loop[p].now
      /\ loop[p].now \in 0 .. MaxTime
  BY ReadingTyped
<1>3. loop[p] \in Loop /\ rows[t] \in Rows
  BY <1>2 DEF TypeOK, Present
<1>4. e.at \in Nat /\ loop[p].now \in Nat /\ e.at \in 0 .. LastDue
  BY <1>2 DEF Dues, Sizes, LastDue
<1>5. new = Never \/ new \in loop[p].now + 1 .. loop[p].now + Every
  BY <1>4, MovedIsLater
<1>6. e.step \/ e.oneTime => new = Never
  BY DEF Moved
<1> HIDE DEF new
<1>7. new \in 0 .. LastDue
  BY <1>2, <1>5, DueType
<1>8. new = Never \/ new > e.at
  BY <1>2, <1>4, <1>5 DEF Sizes
<1>9. /\ row \in Rows /\ row.due = new /\ row.parent = rows[t].parent
      /\ row.oneTime = rows[t].oneTime
  BY <1>3, <1>7 DEF Rows
<1> HIDE DEF row
<1>10. /\ rows' \in [Tasks -> Rows \cup {Absent}] /\ rows'[t] = row
       /\ \A u \in Tasks : u # t => rows'[u] = rows[u]
  BY <1>1, <1>2, <1>9 DEF TypeOK
<1>11. pc \in {"missed", "do"}
  OBVIOUS
<1> HIDE DEF pc
<1>12. e.oneTime \in BOOLEAN
  BY <1>2 DEF Readings
<1>13. /\ x \in Loop /\ x.pc = pc /\ x.task = t /\ x.at = e.at
       /\ x.now = loop[p].now /\ x.due \subseteq loop[p].due
  BY <1>2, <1>3, <1>4, <1>11, <1>12 DEF Loop
<1> HIDE DEF x
<1> QED
  BY <1>1, <1>6, <1>7, <1>8, <1>9, <1>10, <1>11, <1>13

\* The row still has the time it was read with, so no claim of that run came
\* before, and the time it gets instead is later.
LEMMA ClaimStep ==
  ASSUME Sizes, IInv, NEW p \in Loops, NEW e \in loop[p].due, Claim(p, e)
  PROVE  IInv'
<1>1. CASE ~(Present(e.task) /\ rows[e.task].due = e.at)
  BY <1>1, PassStep DEF Claim
<1>2. CASE Present(e.task) /\ rows[e.task].due = e.at
  <2> DEFINE t == e.task
             old == e.at
  <2>1. PICK x \in Loop, new \in 0 .. LastDue :
           /\ loop' = [loop EXCEPT ![p] = x]
           /\ x.pc \in {"missed", "do"} /\ x.task = t /\ x.at = old
           /\ x.now = loop[p].now /\ x.due \subseteq loop[p].due
           /\ rows' \in [Tasks -> Rows \cup {Absent}] /\ rows'[t].due = new
           /\ \A u \in Tasks : u # t => rows'[u] = rows[u]
           /\ new = Never \/ new > old
    BY <1>2, TakenUp DEF IInv, Claim
  <2>2. UNCHANGED <<clock, ran, done, since, budget>>
    BY <1>2 DEF Claim, TakesUp
  <2>3. /\ t \in Tasks /\ old \in Dues /\ old \in Int /\ old # Never /\ old <= clock
        /\ clock \in Int /\ new \in Int
    BY ReadingTyped DEF IInv, Dues, Never, Sizes, LastDue
  <2>4. Present(t) /\ rows[t].due = old
    BY <1>2
  <2> HIDE DEF t, old
  <2>5. ~Claimed(t, old)
    <3> SUFFICES ASSUME Claimed(t, old) PROVE FALSE
      OBVIOUS
    <3>1. old < rows[t].due
      BY <2>3, <2>4 DEF IInv, Ahead
    <3> QED
      BY <2>3, <2>4, <3>1
  <2>6. loop' \in [Loops -> Loop]
    BY <2>1 DEF IInv, TypeOK
  <2>7. TypeOK'
    BY <2>1, <2>2, <2>6 DEF IInv, TypeOK
  <2>8. /\ x.now <= clock
        /\ \A f \in x.due :
             /\ f.at <= x.now
             /\ Present(f.task) /\ rows[f.task].due # Never => f.at <= rows[f.task].due
    BY <2>1, StillRead
  <2>9. Busy'
    BY <2>1, <2>2, <2>3, <2>8, BusyKept
  <2>10. Snapped'
    <3> SUFFICES ASSUME NEW q \in Loops, NEW f \in loop'[q].due,
                        Present(f.task)', rows'[f.task].due # Never
                 PROVE  f.at <= rows'[f.task].due
      BY DEF Snapped
    <3>1. f \in loop[q].due
      <4>1. CASE q = p
        BY <2>1, <4>1 DEF IInv, TypeOK
      <4>2. CASE q # p
        BY <2>1, <4>2 DEF IInv, TypeOK
      <4> QED
        BY <4>1, <4>2
    <3>2. f.task \in Tasks /\ f.at \in Int
      BY <3>1, ReadingTyped DEF IInv, Dues
    <3>3. Present(f.task) /\ rows[f.task].due # Never => f.at <= rows[f.task].due
      BY <3>1 DEF IInv, Snapped
    <3>4. CASE f.task = t
      <4>1. f.at <= old
        BY <2>3, <2>4, <3>3, <3>4
      <4>2. rows'[f.task].due = new /\ new > old
        BY <2>1, <3>4
      <4> QED
        BY <2>3, <3>2, <4>1, <4>2
    <3>5. CASE f.task # t
      <4>1. rows'[f.task] = rows[f.task]
        BY <2>1, <3>2, <3>5
      <4>2. Present(f.task)
        BY <4>1 DEF Present
      <4> QED
        BY <3>3, <4>1, <4>2
    <3> QED
      BY <3>4, <3>5
  <2>11. ASSUME NEW q \in Loops, NEW u \in Tasks, NEW d \in Dues, Doing(q, u, d)'
         PROVE  (q = p /\ u = t /\ d = old) \/ (q # p /\ Doing(q, u, d))
    <3>1. CASE q = p
      <4>1. loop'[q] = x
        BY <2>1, <3>1 DEF IInv, TypeOK
      <4> QED
        BY <2>1, <2>11, <3>1, <4>1 DEF Doing
    <3>2. CASE q # p
      <4>1. loop'[q] = loop[q]
        BY <2>1, <3>2 DEF IInv, TypeOK
      <4> QED
        BY <2>11, <3>2, <4>1 DEF Doing
    <3> QED
      BY <3>1, <3>2
  <2>12. Ahead'
    <3> SUFFICES ASSUME NEW u \in Tasks, NEW d \in Dues, Claimed(u, d)'
                 PROVE  /\ d <= clock
                        /\ Present(u)' /\ rows'[u].due # Never => d < rows'[u].due
      BY <2>2 DEF Ahead
    <3>1. (u = t /\ d = old) \/ Claimed(u, d)
      BY <2>2, <2>11 DEF Claimed
    <3>2. CASE u # t
      <4>1. rows'[u] = rows[u] /\ Claimed(u, d)
        BY <2>1, <3>1, <3>2
      <4> QED
        BY <4>1 DEF IInv, Ahead, Present
    <3>3. CASE u = t
      <4>1. rows'[u].due = new
        BY <2>1, <3>3
      <4>2. d \in Int /\ d <= clock /\ d <= old
        <5>1. CASE d = old
          BY <2>3, <5>1
        <5>2. CASE Claimed(t, d)
          <6>1. d <= clock /\ d < old
            BY <2>3, <2>4, <5>2 DEF IInv, Ahead
          <6> QED
            BY <6>1, <2>3 DEF Dues, LastDue, Sizes
        <5> QED
          BY <3>1, <3>3, <5>1, <5>2
      <4> QED
        BY <2>1, <2>3, <4>1, <4>2
    <3> QED
      BY <3>2, <3>3
  <2>13. Alone'
    <3> SUFFICES ASSUME NEW u \in Tasks, NEW d \in Dues, NEW q \in Loops, Doing(q, u, d)'
                 PROVE  /\ ran'[u][d] = 0
                        /\ \A q2 \in Loops : Doing(q2, u, d)' => q2 = q
      BY DEF Alone
    <3>1. CASE u = t /\ d = old
      <4>1. ran[u][d] = 0
        <5>1. ran \in [Tasks -> [Dues -> Nat]]
          BY DEF IInv, TypeOK, Dues
        <5>2. ran[u][d] \in Nat
          BY <5>1
        <5> QED
          BY <2>5, <3>1, <5>2 DEF Claimed
      <4>2. \A q2 \in Loops : ~Doing(q2, u, d)
        BY <2>5, <3>1 DEF Claimed
      <4>3. \A q2 \in Loops : Doing(q2, u, d)' => q2 = p
        BY <2>11, <4>2
      <4> QED
        BY <2>2, <4>1, <4>3
    <3>2. CASE ~(u = t /\ d = old)
      <4>1. \A q2 \in Loops : Doing(q2, u, d)' => Doing(q2, u, d)
        BY <2>11, <3>2
      <4> QED
        BY <2>2, <4>1 DEF IInv, Alone
    <3> QED
      BY <3>1, <3>2
  <2>14. RunsOnce'
    BY <2>2 DEF IInv, RunsOnce
  <2> QED
    BY <2>7, <2>9, <2>10, <2>12, <2>13, <2>14 DEF IInv
<1> QED
  BY <1>1, <1>2

\* The loop that makes a run, and the count of it.
LEMMA DoMoves ==
  ASSUME Sizes, IInv, NEW p \in Loops, Does(p)
  PROVE  /\ \E x \in Loop : /\ loop' = [loop EXCEPT ![p] = x]
                            /\ x.pc = "record" /\ x.task = loop[p].task
                            /\ x.now = loop[p].now /\ x.due = loop[p].due
         /\ loop[p].task \in Tasks
         /\ ~loop[p].manual => loop[p].at \in Dues /\ Doing(p, loop[p].task, loop[p].at)
<1> DEFINE x == [loop[p] EXCEPT !.pc = "record"]
<1>1. loop' = [loop EXCEPT ![p] = x]
  BY DEF Does, IInv, TypeOK
<1>2. loop[p] \in Loop
  BY DEF IInv, TypeOK
<1>3. /\ x \in Loop /\ x.pc = "record" /\ x.task = loop[p].task
      /\ x.now = loop[p].now /\ x.due = loop[p].due
  BY <1>2 DEF Loop
<1>4. loop[p].task \in Tasks
  BY DEF IInv, Busy, Does
<1>5. ~loop[p].manual => loop[p].at \in Dues /\ Doing(p, loop[p].task, loop[p].at)
  BY DEF IInv, Busy, Does, Doing
<1> QED
  BY <1>1, <1>3, <1>4, <1>5

\* Nothing is claimed by it that was not.
LEMMA DoClaims ==
  ASSUME Sizes, IInv, NEW p \in Loops, Does(p), NEW u \in Tasks, NEW d \in Dues, Claimed(u, d)'
  PROVE  Claimed(u, d)
<1>1. PICK x \in Loop : /\ loop' = [loop EXCEPT ![p] = x]
                        /\ x.pc = "record" /\ x.task = loop[p].task
  BY DoMoves
<1>2. \A q \in Loops : Doing(q, u, d)' => Doing(q, u, d)
  BY <1>1, LoopMoves
<1>3. CASE loop[p].manual
  BY <1>2, <1>3 DEF Does, Claimed
<1>4. CASE ~loop[p].manual
  <2> DEFINE t == loop[p].task
             at == loop[p].at
  <2>1. t \in Tasks /\ at \in Dues /\ Doing(p, t, at)
    BY <1>4, DoMoves
  <2>2. ran' = [ran EXCEPT ![t][at] = @ + 1] /\ ran \in [Tasks -> [Dues -> Nat]]
    BY <1>4 DEF Does, IInv, TypeOK, Dues
  <2> HIDE DEF t, at
  <2>3. CASE u = t /\ d = at
    BY <2>1, <2>3 DEF Claimed
  <2>4. CASE ~(u = t /\ d = at)
    <3>1. ran'[u][d] = ran[u][d]
      BY <2>1, <2>2, <2>4
    <3> QED
      BY <1>2, <3>1 DEF Claimed
  <2> QED
    BY <2>3, <2>4
<1> QED
  BY <1>3, <1>4

\* The run is made: the claim was this loop's alone, and it gives it up.
LEMMA DoStep ==
  ASSUME Sizes, IInv, NEW p \in Loops, Does(p)
  PROVE  IInv'
<1>1. PICK x \in Loop : /\ loop' = [loop EXCEPT ![p] = x]
                        /\ x.pc = "record" /\ x.task = loop[p].task
                        /\ x.now = loop[p].now /\ x.due = loop[p].due
  BY DoMoves
<1>2. loop[p].task \in Tasks
  BY DoMoves
<1>3. /\ x.now <= clock
      /\ \A f \in x.due :
           /\ f.at <= x.now
           /\ Present(f.task) /\ rows[f.task].due # Never => f.at <= rows[f.task].due
  BY <1>1, StillRead
<1>4. /\ rows' = rows /\ UNCHANGED <<clock, since>> /\ done' \in [Tasks -> Nat]
      /\ budget' \in Budgets
  BY BudgetStays DEF IInv, TypeOK, Does
<1>5. CASE loop[p].manual
  <2>1. ran' = ran
    BY <1>5 DEF Does
  <2> QED
    BY <1>1, <1>2, <1>3, <1>4, <2>1, RowsStay, LoopGoesOn
<1>6. CASE ~loop[p].manual
  <2> DEFINE t == loop[p].task
             at == loop[p].at
  <2>1. t \in Tasks /\ at \in Dues /\ Doing(p, t, at)
    BY <1>6, DoMoves
  <2>2. ran' = [ran EXCEPT ![t][at] = @ + 1]
    BY <1>6 DEF Does
  <2> HIDE DEF t, at
  <2>3. /\ ran \in [Tasks -> [Dues -> Nat]] /\ ran' \in [Tasks -> [Dues -> Nat]]
        /\ ran'[t][at] = ran[t][at] + 1
        /\ \A u \in Tasks, d \in Dues : ~(u = t /\ d = at) => ran'[u][d] = ran[u][d]
    <3>1. ran \in [Tasks -> [Dues -> Nat]]
      BY DEF IInv, TypeOK, Dues
    <3> QED
      BY <2>1, <2>2, <3>1
  <2>4. ran[t][at] = 0 /\ \A q \in Loops : Doing(q, t, at) => q = p
    BY <2>1 DEF IInv, Alone
  <2>5. /\ loop' \in [Loops -> Loop]
        /\ \A q \in Loops, u \in Tasks, d \in Dues : Doing(q, u, d)' => Doing(q, u, d)
    BY <1>1, LoopMoves
  <2>6. \A u \in Tasks, d \in Dues : ~Doing(p, u, d)'
    <3>1. loop'[p] = x
      BY <1>1 DEF IInv, TypeOK
    <3> QED
      BY <1>1, <3>1 DEF Doing
  <2>7. Ahead'
    <3> SUFFICES ASSUME NEW u \in Tasks, NEW d \in Dues, Claimed(u, d)'
                 PROVE  /\ d <= clock
                        /\ Present(u) /\ rows[u].due # Never => d < rows[u].due
      BY <1>4 DEF Ahead, Present
    <3>1. Claimed(u, d)
      BY DoClaims
    <3> QED
      BY <3>1 DEF IInv, Ahead
  <2>8. Alone'
    <3> SUFFICES ASSUME NEW u \in Tasks, NEW d \in Dues, NEW q \in Loops, Doing(q, u, d)'
                 PROVE  /\ ran'[u][d] = 0
                        /\ \A q2 \in Loops : Doing(q2, u, d)' => q2 = q
      BY DEF Alone
    <3>1. q # p /\ Doing(q, u, d)
      BY <2>5, <2>6
    <3>2. ~(u = t /\ d = at)
      BY <2>4, <3>1
    <3>3. ran[u][d] = 0 /\ \A q2 \in Loops : Doing(q2, u, d) => q2 = q
      BY <3>1 DEF IInv, Alone
    <3> QED
      BY <2>3, <2>5, <3>2, <3>3
  <2>9. RunsOnce'
    <3> SUFFICES ASSUME NEW u \in Tasks, NEW d \in Dues PROVE ran'[u][d] <= 1
      BY DEF RunsOnce, Dues, LastDue
    <3>1. CASE u = t /\ d = at
      BY <2>3, <2>4, <3>1
    <3>2. CASE ~(u = t /\ d = at)
      <4>1. ran[u][d] <= 1
        BY DEF IInv, RunsOnce, Dues
      <4> QED
        BY <2>3, <3>2, <4>1
    <3> QED
      BY <3>1, <3>2
  <2>10. Busy'
    BY <1>1, <1>2, <1>3, <1>4, BusyKept
  <2>11. Snapped'
    BY <1>1, <1>3, <1>4, RowsStay, SnappedKept
  <2>12. TypeOK'
    BY <1>4, <2>3, <2>5 DEF IInv, TypeOK, Dues, Budgets
  <2> QED
    BY <2>7, <2>8, <2>9, <2>10, <2>11, <2>12 DEF IInv
<1> QED
  BY <1>5, <1>6

LEMMA TimeStep ==
  ASSUME Sizes, IInv, TimePasses
  PROVE  IInv'
<1>1. clock' = clock + 1 /\ clock \in Int /\ UNCHANGED <<rows, loop, ran, done, since, budget>>
  BY DEF TimePasses, IInv, TypeOK
<1>2. TypeOK'
  BY DEF TimePasses, IInv, TypeOK, Sizes
<1>3. Busy'
  <2>1. \A p \in Loops : loop[p].now <= clock + 1
    <3> TAKE p \in Loops
    <3>1. loop[p].now \in Int /\ loop[p].now <= clock
      BY DEF IInv, TypeOK, Busy, Loop
    <3> QED
      BY <1>1, <3>1
  <2> QED
    BY <1>1, <2>1 DEF IInv, Busy
<1>4. Snapped'
  BY <1>1 DEF IInv, Snapped, Present
<1>5. \A t \in Tasks, d \in Dues : Claimed(t, d)' => Claimed(t, d)
  BY <1>1 DEF Claimed, Doing
<1>6. Ahead'
  <2> SUFFICES ASSUME NEW t \in Tasks, NEW d \in Dues, Claimed(t, d)'
               PROVE  /\ d <= clock + 1
                      /\ Present(t) /\ rows[t].due # Never => d < rows[t].due
    BY <1>1 DEF Ahead, Present
  <2>1. d <= clock /\ (Present(t) /\ rows[t].due # Never => d < rows[t].due) /\ d \in Int
    BY <1>5 DEF IInv, Ahead, Dues
  <2> QED
    BY <1>1, <2>1
<1>7. Alone' /\ RunsOnce'
  BY <1>1 DEF IInv, Alone, RunsOnce, Doing
<1> QED
  BY <1>2, <1>3, <1>4, <1>6, <1>7 DEF IInv

-----------------------------------------------------------------------------

LEMMA Begins == ASSUME Sizes, Init PROVE IInv
<1>1. TypeOK
  BY DEF Sizes, Init, TypeOK, Resting, Loop, LastDue
<1>2. Busy /\ Snapped
  BY RestingType DEF Sizes, Init, Busy, Snapped
<1>3. \A t \in Tasks, d \in Dues : ~Claimed(t, d)
  BY RestingType DEF Init, Claimed, Doing, Dues
<1>4. Ahead /\ Alone
  BY <1>3 DEF Ahead, Alone, Claimed
<1>5. RunsOnce
  BY DEF Init, RunsOnce
<1> QED
  BY <1>1, <1>2, <1>4, <1>5 DEF IInv

LEMMA Steps == ASSUME Sizes, IInv, [Next]_vars PROVE IInv'
<1>1. CASE UNCHANGED vars
  BY <1>1 DEF vars, IInv, TypeOK, Busy, Snapped, Ahead, Alone, RunsOnce, Claimed, Doing, Present
<1>2. CASE ByHand
  BY <1>2, CreateStep, UpdateStep, RemoveStep, ByHandStep DEF ByHand
<1>3. CASE TimePasses
  BY <1>3, TimeStep
<1>4. ASSUME NEW p \in Loops, Working(p) PROVE IInv'
  BY <1>4, ClaimStep, LookStep, BatchStep, MissedStep, DoStep, RecordStep, OffStep DEF Working
<1>5. ASSUME NEW p \in Loops, LoopDies(p) PROVE IInv'
  BY <1>5, DeathStep
<1> QED
  BY <1>1, <1>2, <1>3, <1>4, <1>5 DEF Next

\* schedules.py: "Exactly once, however many processes run the loop": no run
\* that was due is made twice, for any number of tasks and loops, whoever
\* edits, removes or runs tasks meanwhile and wherever a process stops.
THEOREM DueRunsOnce == ASSUME Sizes PROVE Spec => []RunsOnce
<1>1. Spec => []IInv
  <2>1. Init => IInv
    BY Begins
  <2>2. IInv /\ [Next]_vars => IInv'
    BY Steps
  <2> QED
    BY <2>1, <2>2, PTL DEF Spec
<1>2. IInv => RunsOnce
  BY DEF IInv
<1> QED
  BY <1>1, <1>2, PTL

\* Rows, loops and counts keep their types: in particular a row is never due
\* later than a step or a delay from now.
THEOREM SchedulesTyped == ASSUME Sizes PROVE Spec => []TypeOK
<1>1. Spec => []IInv
  <2>1. Init => IInv
    BY Begins
  <2>2. IInv /\ [Next]_vars => IInv'
    BY Steps
  <2> QED
    BY <2>1, <2>2, PTL DEF Spec
<1>2. IInv => TypeOK
  BY DEF IInv
<1> QED
  BY <1>1, <1>2, PTL


-----------------------------------------------------------------------------
(* Chains and one-time tasks: what made a run possible, and how often.     *)

\* The times of t that are spent or waiting, since it is timed as it is.
Times(t) ==
  {d \in Dues : d > since[t].at /\ (Claimed(t, d) \/ (Present(t) /\ rows[t].due = d))}

\* A loop has read t as a task that comes again, and its claim would give it one more time.
Stale(t) ==
  \E p \in Loops : \E e \in loop[p].due :
    e.task = t /\ e.at = rows[t].due /\ ~e.step /\ ~e.oneTime
More(t) == IF Stale(t) THEN 1 ELSE 0

\* A step has a time for each run of its parent that was recorded since it follows it, and the
\* one it had left; a one-time task the one it was saved with.
Allowed(t) ==
  IF Step(t) THEN done[rows[t].parent] - since[t].base + (IF since[t].left THEN 1 ELSE 0) ELSE 1

Earned(t) ==
  Present(t) /\ (Step(t) \/ rows[t].oneTime) => Cardinality(Times(t)) + More(t) <= Allowed(t)

AllEarned == \A t \in Tasks : Earned(t)

\* What makes every other proof finite, now and after a step.
LEMMA DuesFinite == ASSUME Sizes PROVE IsFiniteSet(Dues)
<1>1. 1 \in Int /\ LastDue \in Int
  BY DEF Sizes, LastDue
<1> QED
  BY <1>1, FS_Interval DEF Dues

LEMMA Finite ==
  ASSUME Sizes, NEW t
  PROVE  /\ IsFiniteSet(Times(t)) /\ Cardinality(Times(t)) \in Nat
         /\ IsFiniteSet(Times(t)') /\ Cardinality(Times(t)') \in Nat
<1>1. IsFiniteSet(Dues)
  BY DuesFinite
<1>2. Times(t) \subseteq Dues /\ Times(t)' \subseteq Dues
  BY DEF Times, Dues, LastDue
<1>3. IsFiniteSet(Times(t)) /\ IsFiniteSet(Times(t)')
  BY <1>1, <1>2, FS_Subset
<1> QED
  BY <1>3, FS_CardinalityType

LEMMA Fewer ==
  ASSUME NEW T, IsFiniteSet(T), NEW S, S \subseteq T
  PROVE  Cardinality(S) <= Cardinality(T) /\ Cardinality(S) \in Nat /\ Cardinality(T) \in Nat
BY FS_Subset, FS_CardinalityType

\* One more at most.
LEMMA OneMoreOf ==
  ASSUME NEW T, IsFiniteSet(T), NEW e, NEW S, S \subseteq T \cup {e}
  PROVE  Cardinality(S) <= Cardinality(T) + 1 /\ Cardinality(S) \in Nat /\ Cardinality(T) \in Nat
<1>1. /\ IsFiniteSet(T \cup {e}) /\ Cardinality(T) \in Nat
      /\ Cardinality(T \cup {e}) <= Cardinality(T) + 1
  BY FS_AddElement, FS_CardinalityType
<1> QED
  BY <1>1, Fewer

\* What is allowed is a number.
LEMMA AllowedTyped ==
  ASSUME TypeOK, NEW t \in Tasks, Present(t)
  PROVE  Allowed(t) \in Int /\ since[t].base \in Int
         /\ (Step(t) => rows[t].parent \in Tasks /\ done[rows[t].parent] \in Int)
<1>1. rows[t] \in Rows /\ since[t] \in Sinces /\ done \in [Tasks -> Nat]
  BY DEF TypeOK, Present, Sinces
<1>2. rows[t].parent \in Tasks \cup {NoTask} /\ since[t].base \in Nat
  BY <1>1 DEF Rows, Sinces
<1>3. Step(t) => rows[t].parent \in Tasks /\ done[rows[t].parent] \in Nat
  BY <1>1, <1>2 DEF Step
<1> QED
  BY <1>2, <1>3 DEF Allowed

\* What a task follows stays while it is there, and, if that is nothing, whether it runs once.
SameTask(t) ==
  Present(t)' => /\ Present(t) /\ rows'[t].parent = rows[t].parent
                 /\ Step(t) \/ rows'[t].oneTime = rows[t].oneTime

\* Then it is allowed no less, when no run that was recorded is forgotten.
LEMMA AllowedGrows ==
  ASSUME Sizes, TypeOK, TypeOK', NEW t \in Tasks, SameTask(t), Present(t)',
         since'[t] = since[t], \A u \in Tasks : done[u] <= done'[u]
  PROVE  Allowed(t) <= Allowed(t)' /\ Allowed(t) \in Int /\ Allowed(t)' \in Int
<1>1. /\ Present(t) /\ rows'[t].parent = rows[t].parent
      /\ Allowed(t) \in Int /\ since[t].base \in Int
      /\ (Step(t) => rows[t].parent \in Tasks /\ done[rows[t].parent] \in Int)
  BY AllowedTyped DEF SameTask
<1>2. CASE Step(t)
  <2> DEFINE u == rows[t].parent
             a == done[u]
             b == done'[u]
             c == since[t].base
             l == IF since[t].left THEN 1 ELSE 0
  <2>1. a \in Int /\ b \in Int /\ c \in Int /\ l \in Int /\ a <= b
    BY <1>1, <1>2 DEF TypeOK
  <2>2. Allowed(t) = a - c + l /\ Allowed(t)' = b - c + l
    BY <1>1, <1>2 DEF Allowed, Step
  <2> HIDE DEF a, b, c, l
  <2> QED
    BY <2>1, <2>2
<1>3. CASE ~Step(t)
  BY <1>1, <1>3 DEF Allowed, Step
<1> QED
  BY <1>2, <1>3

\* No time is won.
LEMMA EarnedKept ==
  ASSUME Sizes, TypeOK, TypeOK', AllEarned, NEW t \in Tasks, SameTask(t), since'[t] = since[t],
         \A u \in Tasks : done[u] <= done'[u],
         Present(t)' /\ (Step(t) \/ rows[t].oneTime) =>
           Times(t)' \subseteq Times(t) /\ (Stale(t)' => Stale(t))
  PROVE  Earned(t)'
<1> SUFFICES ASSUME Present(t)', Step(t)' \/ rows'[t].oneTime
             PROVE  Cardinality(Times(t)') + More(t)' <= Allowed(t)'
  BY DEF Earned
<1>1. Present(t) /\ (Step(t) \/ rows[t].oneTime)
  BY DEF SameTask, Step
<1>2. Cardinality(Times(t)) + More(t) <= Allowed(t)
  BY <1>1 DEF AllEarned, Earned
<1>3. Allowed(t) <= Allowed(t)' /\ Allowed(t) \in Int /\ Allowed(t)' \in Int
  BY AllowedGrows
<1>4. /\ Cardinality(Times(t)') <= Cardinality(Times(t)) /\ Cardinality(Times(t)') \in Nat
      /\ Cardinality(Times(t)) \in Nat
  BY <1>1, Finite, Fewer
<1>5. More(t)' <= More(t) /\ More(t)' \in Nat /\ More(t) \in Nat
  BY <1>1 DEF More
<1> QED
  BY <1>2, <1>3, <1>4, <1>5

\* A loop that moves on without a run that was due, and a row that keeps its time.
LEMMA MoveEarnsNothing ==
  ASSUME Sizes, IInv, IInv', AllEarned, NEW p \in Loops, NEW x \in Loop,
         loop' = [loop EXCEPT ![p] = x], x.pc = "do" => x.manual,
         \A e \in x.due : \/ e \in loop[p].due
                          \/ ~e.step /\ ~e.oneTime => ~Step(e.task) /\ ~rows[e.task].oneTime,
         UNCHANGED <<ran, since>>, \A u \in Tasks : done[u] <= done'[u],
         NEW t \in Tasks, SameTask(t), Present(t)' => rows'[t].due = rows[t].due
  PROVE  Earned(t)'
<1>1. \A d \in Dues : Claimed(t, d)' => Claimed(t, d)
  BY LoopMoves DEF Claimed
<1>2. Present(t)' => Times(t)' \subseteq Times(t)
  BY <1>1 DEF Times, SameTask, Dues, LastDue
<1>3. ASSUME Present(t)', Step(t) \/ rows[t].oneTime, Stale(t)'
      PROVE  Stale(t)
  <2>1. PICK q \in Loops : \E e \in loop'[q].due :
          e.task = t /\ e.at = rows'[t].due /\ ~e.step /\ ~e.oneTime
    BY <1>3 DEF Stale
  <2>2. PICK e \in loop'[q].due : e.task = t /\ e.at = rows[t].due /\ ~e.step /\ ~e.oneTime
    BY <1>3, <2>1
  <2>3. e \in loop[q].due
    <3>1. CASE q = p
      <4>1. e \in x.due
        BY <3>1 DEF IInv, TypeOK
      <4> QED
        BY <1>3, <2>2, <3>1, <4>1
    <3>2. CASE q # p
      BY <3>2 DEF IInv, TypeOK
    <3> QED
      BY <3>1, <3>2
  <2> QED
    BY <2>2, <2>3 DEF Stale
<1>4. since'[t] = since[t]
  OBVIOUS
<1> QED
  BY <1>2, <1>3, <1>4, EarnedKept DEF IInv

LEMMA RowsAreSame ==
  ASSUME rows' = rows, NEW t
  PROVE  SameTask(t) /\ (Present(t)' => rows'[t].due = rows[t].due)
BY DEF SameTask, Present

LEMMA DoneStays ==
  ASSUME IInv, done' = done
  PROVE  \A u \in Tasks : done[u] <= done'[u]
BY DEF IInv, TypeOK

\* What is due now is read as it is: what is read to come again does.
LEMMA LookEarns ==
  ASSUME Sizes, IInv, IInv', AllEarned, NEW p \in Loops, LooksForDue(p)
  PROVE  AllEarned'
<1>1. PICK x \in Loop : /\ loop' = [loop EXCEPT ![p] = x]
                        /\ x.pc = "batch" /\ x.now = clock /\ x.due = DueNow
  BY Looked DEF IInv
<1>2. \A e \in x.due : ~e.step /\ ~e.oneTime => ~Step(e.task) /\ ~rows[e.task].oneTime
  BY <1>1, Reads DEF IInv
<1>3. rows' = rows /\ UNCHANGED <<ran, since>> /\ done' = done
  BY DEF LooksForDue
<1>4. ASSUME NEW t \in Tasks PROVE Earned(t)'
  BY <1>1, <1>2, <1>3, RowsAreSame, DoneStays, MoveEarnsNothing
<1> QED
  BY <1>4 DEF AllEarned

LEMMA PassEarns ==
  ASSUME Sizes, IInv, IInv', AllEarned, NEW p \in Loops, NEW e, loop[p].pc = "batch",
         PassesBy(p, e)
  PROVE  AllEarned'
<1> DEFINE x == [loop[p] EXCEPT !.due = @ \ {e}]
<1>1. loop' = [loop EXCEPT ![p] = x] /\ rows' = rows /\ UNCHANGED <<ran, since>> /\ done' = done
  BY DEF IInv, TypeOK, PassesBy
<1>2. loop[p] \in Loop
  BY DEF IInv, TypeOK
<1>3. x \in Loop /\ x.pc = "batch" /\ x.due \subseteq loop[p].due
  BY <1>2 DEF Loop
<1> HIDE DEF x
<1>4. ASSUME NEW t \in Tasks PROVE Earned(t)'
  BY <1>1, <1>3, RowsAreSame, DoneStays, MoveEarnsNothing
<1> QED
  BY <1>4 DEF AllEarned

\* A loop that rests again.
LEMMA RestEarns ==
  ASSUME Sizes, IInv, IInv', AllEarned, NEW p \in Loops, BatchEnds(p) \/ LoopDies(p)
  PROVE  AllEarned'
<1>1. /\ loop' = [loop EXCEPT ![p] = Resting] /\ rows' = rows /\ UNCHANGED <<ran, since>>
      /\ done' = done
  BY DEF BatchEnds, LoopDies
<1>2. Resting \in Loop /\ Resting.pc = "idle" /\ Resting.due = {}
  BY RestingType
<1>3. ASSUME NEW t \in Tasks PROVE Earned(t)'
  BY <1>1, <1>2, RowsAreSame, DoneStays, MoveEarnsNothing
<1> QED
  BY <1>3 DEF AllEarned

LEMMA ByHandEarns ==
  ASSUME Sizes, IInv, IInv', AllEarned, NEW p \in Loops, NEW t \in Tasks, RunByHand(p, t)
  PROVE  AllEarned'
<1> DEFINE x == [Resting EXCEPT !.pc = "do", !.task = t, !.manual = TRUE]
<1>1. loop' = [loop EXCEPT ![p] = x] /\ rows' = rows /\ UNCHANGED <<ran, since>> /\ done' = done
  BY DEF RunByHand
<1>2. x \in Loop /\ x.manual /\ x.due = {}
  <2>1. Resting \in Loop /\ Resting.due = {} /\ t \in Tasks \cup {NoTask}
    BY RestingType
  <2> HIDE DEF Resting
  <2> QED
    BY <2>1 DEF Loop
<1> HIDE DEF x
<1>3. ASSUME NEW u \in Tasks PROVE Earned(u)'
  BY <1>1, <1>2, RowsAreSame, DoneStays, MoveEarnsNothing
<1> QED
  BY <1>3 DEF AllEarned

LEMMA MissedEarns ==
  ASSUME Sizes, IInv, IInv', AllEarned, NEW p \in Loops, SaysMissed(p)
  PROVE  AllEarned'
<1> DEFINE x == [loop[p] EXCEPT !.pc = "batch"]
<1>1. loop' = [loop EXCEPT ![p] = x] /\ UNCHANGED <<ran, since>> /\ done' = done
  BY DEF IInv, TypeOK, SaysMissed
<1>2. loop[p] \in Loop /\ loop[p].task \in Tasks
  BY DEF IInv, TypeOK, Busy, SaysMissed
<1>3. x \in Loop /\ x.pc = "batch" /\ x.due = loop[p].due
  BY <1>2 DEF Loop
<1> HIDE DEF x
<1>4. ASSUME NEW u \in Tasks
      PROVE  SameTask(u) /\ (Present(u)' => rows'[u].due = rows[u].due)
  <2>1. {} \in SUBSET Tasks /\ \A v \in {} : Present(v)
    OBVIOUS
  <2>2. Recorded(loop[p].task, "missed", {})
    BY DEF SaysMissed
  <2> QED
    BY <1>2, <2>1, <2>2, RecordedRows DEF IInv, SameTask
<1>5. ASSUME NEW u \in Tasks PROVE Earned(u)'
  BY <1>1, <1>3, <1>4, DoneStays, MoveEarnsNothing
<1> QED
  BY <1>5 DEF AllEarned

LEMMA OffEarns ==
  ASSUME Sizes, IInv, IInv', AllEarned, NEW p \in Loops, SwitchesOff(p)
  PROVE  AllEarned'
<1> DEFINE x == [loop[p] EXCEPT !.pc = "batch"]
<1>1. loop' = [loop EXCEPT ![p] = x] /\ UNCHANGED <<ran, since>> /\ done' = done
  BY DEF IInv, TypeOK, SwitchesOff
<1>2. loop[p] \in Loop /\ loop[p].task \in Tasks
  BY DEF IInv, TypeOK, Busy, SwitchesOff
<1>3. x \in Loop /\ x.pc = "batch" /\ x.due = loop[p].due
  BY <1>2 DEF Loop
<1> HIDE DEF x
<1>4. ASSUME NEW u \in Tasks
      PROVE  SameTask(u) /\ (Present(u)' => rows'[u].due = rows[u].due)
  BY <1>2, OffRows DEF IInv, SameTask
<1>5. ASSUME NEW u \in Tasks PROVE Earned(u)'
  BY <1>1, <1>3, <1>4, DoneStays, MoveEarnsNothing
<1> QED
  BY <1>5 DEF AllEarned

\* The loops and what they did as they are, and a row that is as it was, or gone.
LEMMA RowEarnsNothing ==
  ASSUME Sizes, IInv, IInv', AllEarned, UNCHANGED <<loop, ran, done>>,
         NEW t \in Tasks, since'[t] = since[t], SameTask(t),
         Present(t)' => rows'[t].due = rows[t].due \/ rows'[t].due = Never
  PROVE  Earned(t)'
<1>1. \A d \in Dues : Claimed(t, d)' = Claimed(t, d)
  BY DEF Claimed, Doing
<1>2. \A d \in Dues : d # Never
  BY DEF Dues, Never
<1>3. Present(t)' => Times(t)' \subseteq Times(t)
  BY <1>1, <1>2 DEF Times, SameTask, Dues, LastDue
<1>4. ASSUME Present(t)', Stale(t)' PROVE Stale(t)
  <2>1. PICK p \in Loops : \E e \in loop[p].due :
          e.task = t /\ e.at = rows'[t].due /\ ~e.step /\ ~e.oneTime
    BY <1>4 DEF Stale
  <2>2. PICK e \in loop[p].due : e.task = t /\ e.at = rows'[t].due /\ ~e.step /\ ~e.oneTime
    BY <2>1
  <2>3. e.at \in Dues
    BY ReadingTyped DEF IInv
  <2>4. e.at = rows[t].due
    BY <1>2, <1>4, <2>2, <2>3
  <2> QED
    BY <2>2, <2>4 DEF Stale
<1> QED
  BY <1>3, <1>4, DoneStays, EarnedKept DEF IInv

LEMMA RemoveEarns ==
  ASSUME Sizes, IInv, IInv', AllEarned, NEW t \in Tasks, RemoveTask(t)
  PROVE  AllEarned'
<1>1. ASSUME NEW u \in Tasks PROVE Earned(u)'
  <2>1. SameTask(u) /\ (Present(u)' => rows'[u].due = rows[u].due)
    BY DEF RemoveTask, SameTask, Present
  <2> QED
    BY <2>1, RowEarnsNothing DEF RemoveTask
<1> QED
  BY <1>1 DEF AllEarned

LEMMA TimeEarns ==
  ASSUME Sizes, IInv, IInv', AllEarned, TimePasses \/ UNCHANGED vars
  PROVE  AllEarned'
<1>1. UNCHANGED <<loop, ran, done, since>> /\ rows' = rows
  BY DEF TimePasses, vars
<1>2. ASSUME NEW u \in Tasks PROVE Earned(u)'
  BY <1>1, RowsAreSame, RowEarnsNothing
<1> QED
  BY <1>2 DEF AllEarned

\* No loop has read a task that has no time, or a later one than now, with that time.
LEMMA NotStale ==
  ASSUME Sizes, TypeOK', Busy', NEW t \in Tasks, rows'[t].due \in Int,
         rows'[t].due = Never \/ rows'[t].due > clock'
  PROVE  ~Stale(t)'
<1> SUFFICES ASSUME NEW p \in Loops, NEW e \in loop'[p].due, e.at = rows'[t].due
             PROVE  FALSE
  BY DEF Stale
<1>1. loop'[p] \in Loop /\ clock' \in Int
  BY DEF TypeOK
<1>2. e \in Readings /\ loop'[p].now \in Int
  BY <1>1 DEF Loop
<1>3. e.at \in Int /\ e.at # Never
  BY <1>2 DEF Readings, Never, Sizes, LastDue
<1>4. e.at <= loop'[p].now /\ loop'[p].now <= clock'
  BY DEF Busy
<1> QED
  BY <1>1, <1>2, <1>3, <1>4

\* A task that is timed from now has the time that it was given, and no other.
LEMMA NewlyTimed ==
  ASSUME Sizes, IInv, IInv', UNCHANGED <<clock, loop, ran>>, NEW t \in Tasks,
         since'[t].at = clock, rows'[t].due \in 0 .. LastDue
  PROVE  /\ rows'[t].due = Never => Cardinality(Times(t)') + More(t)' = 0
         /\ Cardinality(Times(t)') + More(t)' <= 1
<1> DEFINE due == rows'[t].due
<1>1. clock \in Int /\ due \in Int
  BY DEF IInv, TypeOK, Sizes, LastDue
<1>2. \A d \in Dues : d \in Int /\ d # Never
  BY DEF Dues, Never
<1>3. \A d \in Dues : Claimed(t, d)' => d <= clock
  BY DEF IInv, Ahead, Claimed, Doing
<1>4. Times(t)' \subseteq {d \in Dues : d > clock /\ d = due}
  BY <1>1, <1>2, <1>3 DEF Times, Dues, LastDue
<1>5. More(t)' \in {0, 1} /\ Cardinality({}) = 0
  BY FS_EmptySet DEF More
<1>6. CASE due = Never
  <2>1. ~Stale(t)'
    BY <1>1, <1>6, NotStale DEF IInv
  <2>2. Times(t)' = {}
    BY <1>2, <1>4, <1>6
  <2> QED
    BY <1>5, <2>1, <2>2 DEF More
<1>7. CASE due # Never /\ due > clock
  <2>1. ~Stale(t)'
    BY <1>1, <1>7, NotStale DEF IInv
  <2> DEFINE T == {due}
  <2>2. Times(t)' \subseteq T
    BY <1>4
  <2>3. IsFiniteSet(T) /\ Cardinality(T) = 1
    BY FS_Singleton
  <2> HIDE DEF T
  <2>4. Cardinality(Times(t)') <= 1 /\ Cardinality(Times(t)') \in Nat
    BY <2>2, <2>3, Fewer
  <2>5. More(t)' = 0
    BY <2>1 DEF More
  <2> QED
    BY <1>7, <2>4, <2>5
<1>8. CASE due # Never /\ ~(due > clock)
  <2>1. Times(t)' = {}
    BY <1>1, <1>2, <1>4, <1>8
  <2> QED
    BY <1>5, <1>8, <2>1
<1> QED
  BY <1>6, <1>7, <1>8

\* So it may run once if it is to run once, or as often as its parent is recorded from now on,
\* and once more for the time that it had.
LEMMA TimedEarns ==
  ASSUME Sizes, IInv, IInv', UNCHANGED <<clock, loop, ran, done>>, NEW t \in Tasks,
         NEW parent \in Tasks \cup {NoTask}, NEW due \in 0 .. LastDue,
         TimedFromNow(t, parent, due), rows'[t].due = due, rows'[t].parent = parent
  PROVE  Earned(t)'
<1>1. /\ since'[t].at = clock
      /\ parent # NoTask => since'[t].base = done[parent]
      /\ since'[t].left = (parent # NoTask /\ due # Never)
  BY SinceType DEF IInv
<1>2. /\ due = Never => Cardinality(Times(t)') + More(t)' = 0
      /\ Cardinality(Times(t)') + More(t)' <= 1
  BY <1>1, NewlyTimed
<1>3. CASE parent = NoTask
  <2>1. Allowed(t)' = 1
    BY <1>3 DEF Allowed, Step
  <2> QED
    BY <1>2, <2>1 DEF Earned
<1>4. CASE parent # NoTask
  <2> DEFINE n == done[parent]
             l == IF since'[t].left THEN 1 ELSE 0
  <2>1. n \in Int
    BY <1>4 DEF IInv, TypeOK
  <2>2. Allowed(t)' = n - n + l
    BY <1>1, <1>4 DEF Allowed, Step
  <2>3. due = Never => l = 0
    BY <1>1, <1>4
  <2>4. due # Never => l = 1
    BY <1>1, <1>4
  <2>5. l \in {0, 1}
    OBVIOUS
  <2> HIDE DEF n, l
  <2>6. Allowed(t)' = l
    BY <2>1, <2>2, <2>5
  <2>7. Cardinality(Times(t)') + More(t)' <= Allowed(t)'
    BY <1>2, <2>3, <2>4, <2>6
  <2> QED
    BY <2>7 DEF Earned
<1> QED
  BY <1>3, <1>4

LEMMA CreateEarns ==
  ASSUME Sizes, IInv, IInv', AllEarned, NEW t \in Tasks, NEW kind \in Kinds,
         NEW parent \in Tasks \cup {NoTask}, NEW oneTime \in BOOLEAN, NEW enabled \in BOOLEAN,
         CreateTask(t, kind, parent, oneTime, enabled)
  PROVE  AllEarned'
<1>1. PICK due \in 0 .. LastDue :
        /\ TimedFromNow(t, parent, due)
        /\ rows'[t].due = due /\ rows'[t].parent = parent
        /\ \A u \in Tasks : u # t => rows'[u] = rows[u]
  BY CreateRow DEF IInv
<1>2. UNCHANGED <<clock, loop, ran, done>>
  BY DEF CreateTask
<1>3. Earned(t)'
  BY <1>1, <1>2, TimedEarns
<1>4. ASSUME NEW u \in Tasks, u # t PROVE Earned(u)'
  <2>1. SameTask(u) /\ (Present(u)' => rows'[u].due = rows[u].due)
    BY <1>1, <1>4 DEF SameTask, Present
  <2>2. since'[u] = since[u]
    BY <1>1, <1>4, SinceType DEF IInv
  <2> QED
    BY <1>2, <2>1, <2>2, RowEarnsNothing
<1> QED
  BY <1>3, <1>4 DEF AllEarned

\* A person may change all of a task: it then begins again, unless it stays the step it was.
LEMMA UpdateEarns ==
  ASSUME Sizes, IInv, IInv', AllEarned, NEW t \in Tasks, NEW kind \in Kinds,
         NEW parent \in Tasks \cup {NoTask}, NEW oneTime \in BOOLEAN, NEW enabled \in BOOLEAN,
         UpdateTask(t, kind, parent, oneTime, enabled)
  PROVE  AllEarned'
<1>1. PICK due \in 0 .. LastDue :
        /\ \/ due = Never
           \/ parent = NoTask /\ due > clock
           \/ parent # NoTask /\ due = rows[t].due
        /\ IF Step(t) /\ parent = rows[t].parent THEN since' = since
           ELSE TimedFromNow(t, parent, due)
        /\ rows'[t].due = due /\ rows'[t].parent = parent
        /\ \A u \in Tasks : u # t => rows'[u] = rows[u]
  BY UpdateRow DEF IInv
<1>2. UNCHANGED <<clock, loop, ran, done>> /\ Present(t)
  BY DEF UpdateTask
<1>3. ASSUME NEW u \in Tasks, u # t PROVE Earned(u)'
  <2>1. SameTask(u) /\ (Present(u)' => rows'[u].due = rows[u].due)
    BY <1>1, <1>3 DEF SameTask, Present
  <2>2. since'[u] = since[u]
    BY <1>1, <1>3, SinceType DEF IInv
  <2> QED
    BY <1>2, <2>1, <2>2, RowEarnsNothing
<1>4. CASE Step(t) /\ parent = rows[t].parent
  <2>1. since'[t] = since[t] /\ parent # NoTask
    BY <1>1, <1>4 DEF Step
  <2>2. rows'[t].due = rows[t].due \/ rows'[t].due = Never
    BY <1>1, <2>1
  <2>3. SameTask(t)
    BY <1>1, <1>2, <1>4 DEF SameTask
  <2>4. Earned(t)'
    BY <1>2, <2>1, <2>2, <2>3, RowEarnsNothing
  <2> QED
    BY <1>3, <2>4 DEF AllEarned
<1>5. CASE ~(Step(t) /\ parent = rows[t].parent)
  <2>1. Earned(t)'
    BY <1>1, <1>2, <1>5, TimedEarns
  <2> QED
    BY <1>3, <2>1 DEF AllEarned
<1> QED
  BY <1>4, <1>5

\* A claim spends the time it found.  It gives another one only to what was read as a task that
\* comes again, and that was counted.
LEMMA ClaimEarns ==
  ASSUME Sizes, IInv, IInv', AllEarned, NEW p \in Loops, NEW e \in loop[p].due, Claim(p, e)
  PROVE  AllEarned'
<1>1. CASE ~(Present(e.task) /\ rows[e.task].due = e.at)
  BY <1>1, PassEarns DEF Claim
<1>2. CASE Present(e.task) /\ rows[e.task].due = e.at
  <2> DEFINE t == e.task
             old == e.at
  <2>1. PICK x \in Loop, new \in 0 .. LastDue :
           /\ loop' = [loop EXCEPT ![p] = x]
           /\ x.task = t /\ x.at = old /\ x.due \subseteq loop[p].due
           /\ rows'[t].due = new /\ rows'[t].parent = rows[t].parent
           /\ rows'[t].oneTime = rows[t].oneTime
           /\ \A u \in Tasks : u # t => rows'[u] = rows[u]
           /\ new = Never \/ new > old
           /\ e.step \/ e.oneTime => new = Never
    BY <1>2, TakenUp DEF IInv, Claim
  <2>2. ran' = ran /\ since' = since /\ done' = done
    BY <1>2 DEF Claim, TakesUp
  <2>3. /\ t \in Tasks /\ old \in Dues /\ old \in Int /\ new \in Int
        /\ Present(t) /\ rows[t].due = old
    BY <1>2, ReadingTyped DEF IInv, Dues, Sizes, LastDue
  <2>4. ~e.step /\ ~e.oneTime => Stale(t)
    BY <2>3 DEF Stale
  <2> HIDE DEF t, old
  <2>5. \A q \in Loops : \A f \in loop'[q].due : f \in loop[q].due
    <3> SUFFICES ASSUME NEW q \in Loops, NEW f \in loop'[q].due PROVE f \in loop[q].due
      OBVIOUS
    <3>1. CASE q = p
      BY <2>1, <3>1 DEF IInv, TypeOK
    <3>2. CASE q # p
      BY <2>1, <3>2 DEF IInv, TypeOK
    <3> QED
      BY <3>1, <3>2
  <2>6. ASSUME NEW u \in Tasks, NEW d \in Dues, Claimed(u, d)'
        PROVE  Claimed(u, d) \/ (u = t /\ d = old)
    <3>1. CASE ran[u][d] > 0
      BY <3>1 DEF Claimed
    <3>2. CASE ~(ran[u][d] > 0)
      <4>1. PICK q \in Loops : Doing(q, u, d)'
        BY <2>2, <2>6, <3>2 DEF Claimed
      <4>2. CASE q = p
        <5>1. loop'[q] = x
          BY <2>1, <4>2 DEF IInv, TypeOK
        <5> QED
          BY <2>1, <4>1, <5>1 DEF Doing
      <4>3. CASE q # p
        <5>1. loop'[q] = loop[q]
          BY <2>1, <4>3 DEF IInv, TypeOK
        <5> QED
          BY <4>1, <5>1 DEF Claimed, Doing
      <4> QED
        BY <4>2, <4>3
    <3> QED
      BY <3>1, <3>2
  <2>7. ASSUME NEW u \in Tasks, u # t PROVE Earned(u)'
    <3>1. SameTask(u) /\ rows'[u] = rows[u] /\ since'[u] = since[u]
      BY <2>1, <2>2, <2>7 DEF SameTask, Present
    <3>2. Times(u)' \subseteq Times(u)
      BY <2>6, <2>7, <3>1 DEF Times, Present, Dues, LastDue
    <3>3. Stale(u)' => Stale(u)
      BY <2>5, <3>1 DEF Stale
    <3> QED
      BY <2>2, <3>1, <3>2, <3>3, DoneStays, EarnedKept DEF IInv
  <2>8. SameTask(t)
    BY <2>1, <2>3 DEF SameTask
  <2>9. ~Stale(t)'
    <3> SUFFICES ASSUME NEW q \in Loops, NEW f \in loop'[q].due, f.task = t, f.at = new
                 PROVE  FALSE
      BY <2>1 DEF Stale
    <3>1. f \in loop[q].due
      BY <2>5
    <3>2. f.at \in Int /\ f.at # Never
      BY <3>1, ReadingTyped DEF IInv, Dues, Never
    <3>3. Present(f.task) /\ rows[f.task].due # Never => f.at <= rows[f.task].due
      BY <3>1 DEF IInv, Snapped
    <3>4. rows[f.task].due = old /\ old # Never
      BY <2>3 DEF Dues, Never
    <3> QED
      BY <2>1, <2>3, <3>2, <3>3, <3>4
  <2>10. Times(t)' \subseteq Times(t) \cup {new}
    BY <2>1, <2>2, <2>3, <2>6 DEF Times, Dues, LastDue
  <2>11. CASE new = Never
    <3>1. new \notin Dues
      BY <2>11 DEF Dues, Never
    <3>2. Times(t)' \subseteq Times(t)
      BY <2>10, <3>1 DEF Times, Dues, LastDue
    <3>3. Earned(t)'
      BY <2>2, <2>3, <2>8, <2>9, <3>2, DoneStays, EarnedKept DEF IInv
    <3> QED
      BY <2>7, <3>3 DEF AllEarned
  <2>12. CASE new # Never
    <3>1. Stale(t)
      BY <2>1, <2>4, <2>12
    <3>2. Earned(t)'
      <4> SUFFICES ASSUME Present(t)', Step(t)' \/ rows'[t].oneTime
                   PROVE  Cardinality(Times(t)') + More(t)' <= Allowed(t)'
        BY DEF Earned
      <4>1. Cardinality(Times(t)) + More(t) <= Allowed(t)
        BY <2>1, <2>3 DEF AllEarned, Earned, Step
      <4>2. More(t) = 1 /\ More(t)' = 0
        BY <2>9, <3>1 DEF More
      <4>3. Allowed(t) <= Allowed(t)' /\ Allowed(t) \in Int /\ Allowed(t)' \in Int
        BY <2>2, <2>3, <2>8, DoneStays, AllowedGrows DEF IInv
      <4>4. IsFiniteSet(Times(t))
        BY Finite
      <4>5. /\ Cardinality(Times(t)') <= Cardinality(Times(t)) + 1
            /\ Cardinality(Times(t)') \in Nat /\ Cardinality(Times(t)) \in Nat
        BY <2>10, <4>4, OneMoreOf
      <4> QED
        BY <4>1, <4>2, <4>3, <4>5
    <3> QED
      BY <2>7, <3>2 DEF AllEarned
  <2> QED
    BY <2>11, <2>12
<1> QED
  BY <1>1, <1>2

\* A run that is made was claimed before.
LEMMA DoEarns ==
  ASSUME Sizes, IInv, IInv', AllEarned, NEW p \in Loops, Does(p)
  PROVE  AllEarned'
<1>1. PICK x \in Loop : loop' = [loop EXCEPT ![p] = x] /\ x.due = loop[p].due
  BY DoMoves
<1>2. \A q \in Loops : loop'[q].due = loop[q].due
  BY <1>1 DEF IInv, TypeOK
<1>3. rows' = rows /\ since' = since /\ done' = done
  BY DEF Does
<1>4. ASSUME NEW u \in Tasks PROVE Earned(u)'
  <2>1. SameTask(u) /\ since'[u] = since[u]
    BY <1>3, RowsAreSame
  <2>2. Times(u)' \subseteq Times(u)
    BY <1>3, DoClaims DEF Times, Present, Dues, LastDue
  <2>3. Stale(u)' => Stale(u)
    BY <1>2, <1>3 DEF Stale
  <2> QED
    BY <1>3, <2>1, <2>2, <2>3, DoneStays, EarnedKept DEF IInv
<1> QED
  BY <1>4 DEF AllEarned

\* A run that is recorded gives the steps that follow it one time, and allows them one.
LEMMA RecordEarns ==
  ASSUME Sizes, IInv, IInv', AllEarned, NEW p \in Loops, Records(p)
  PROVE  AllEarned'
<1> DEFINE t == loop[p].task
<1>1. PICK x \in Loop :
        /\ loop' = [loop EXCEPT ![p] = x]
        /\ x.pc \in {"idle", "off", "batch"} /\ x.due \subseteq loop[p].due
  BY RecordMoves
<1>2. t \in Tasks
  BY DEF IInv, Busy, Records
<1>3. UNCHANGED <<ran, since>> /\ clock' = clock
  BY DEF Records
<1>4. done' = [done EXCEPT ![t] = @ + 1] /\ done \in [Tasks -> Nat]
  BY DEF Records, IInv, TypeOK
<1>5. FollowersOf(t) \in SUBSET Tasks /\ \A u \in FollowersOf(t) : Present(u) /\ rows[u].parent = t
  BY DEF FollowersOf
<1>6. Recorded(t, "ran", FollowersOf(t))
  BY DEF Records
<1> HIDE DEF t
<1>7. \A u \in Tasks : done[u] <= done'[u]
  BY <1>2, <1>4
<1>8. \A u \in Tasks :
        /\ SameTask(u)
        /\ \/ ~Present(u)'
           \/ u \in FollowersOf(t) /\ rows'[u].due = clock + Delay /\ rows'[u].due > clock
           \/ rows'[u].due = rows[u].due
  BY <1>2, <1>5, <1>6, RecordedRows DEF IInv, SameTask
<1>9. ASSUME NEW u \in Tasks, Present(u)' => rows'[u].due = rows[u].due PROVE Earned(u)'
  BY <1>1, <1>3, <1>7, <1>8, <1>9, MoveEarnsNothing
<1>10. ASSUME NEW u \in Tasks, u \in FollowersOf(t), rows'[u].due = clock + Delay,
              rows'[u].due > clock, Present(u)'
       PROVE  Earned(u)'
  <2> DEFINE due == rows'[u].due
  <2>1. \A d \in Dues : Claimed(u, d)' => Claimed(u, d)
    BY <1>1, <1>3, LoopMoves DEF Claimed
  <2>2. Times(u)' \subseteq Times(u) \cup {due}
    BY <1>3, <2>1 DEF Times, Dues, LastDue
  <2>3. clock + Delay \in Int
    BY DEF IInv, TypeOK, Sizes
  <2>4. ~Stale(u)'
    BY <1>3, <1>10, <2>3, NotStale DEF IInv
  <2>5. IsFiniteSet(Times(u))
    BY Finite
  <2> HIDE DEF due
  <2>6. /\ Cardinality(Times(u)') <= Cardinality(Times(u)) + 1
        /\ Cardinality(Times(u)') \in Nat /\ Cardinality(Times(u)) \in Nat
    BY <2>2, <2>5, OneMoreOf
  <2>7. More(u)' = 0 /\ More(u) \in {0, 1}
    BY <2>4 DEF More
  <2>8. Present(u) /\ rows[u].parent = t /\ rows'[u].parent = t /\ Step(u)
    <3>1. Present(u) /\ rows[u].parent = t /\ rows'[u].parent = t
      BY <1>5, <1>8, <1>10 DEF SameTask
    <3> QED
      BY <1>2, <3>1 DEF Step, Sizes
  <2>9. Cardinality(Times(u)) + More(u) <= Allowed(u)
    BY <2>8 DEF AllEarned, Earned
  <2>10. Allowed(u)' = Allowed(u) + 1 /\ Allowed(u) \in Int
    <3> DEFINE a == done[t]
               b == done'[t]
               c == since[u].base
               l == IF since[u].left THEN 1 ELSE 0
    <3>1. a \in Int /\ b = a + 1 /\ c \in Int /\ l \in Int
      BY <1>2, <1>4, <2>8, AllowedTyped DEF IInv
    <3>2. Step(u)'
      BY <2>8 DEF Step
    <3>3. Allowed(u) = a - c + l /\ Allowed(u)' = b - c + l
      BY <1>3, <2>8, <3>2 DEF Allowed
    <3> HIDE DEF a, b, c, l
    <3> QED
      BY <3>1, <3>3
  <2>11. Cardinality(Times(u)') + More(u)' <= Allowed(u)'
    BY <2>6, <2>7, <2>9, <2>10
  <2> QED
    BY <2>11 DEF Earned
<1>11. ASSUME NEW u \in Tasks PROVE Earned(u)'
  BY <1>8, <1>9, <1>10
<1> QED
  BY <1>11 DEF AllEarned

LEMMA EarnsStep ==
  ASSUME Sizes, IInv, IInv', AllEarned, [Next]_vars
  PROVE  AllEarned'
<1>1. CASE TimePasses \/ UNCHANGED vars
  BY <1>1, TimeEarns
<1>2. CASE ByHand
  BY <1>2, CreateEarns, UpdateEarns, RemoveEarns, ByHandEarns DEF ByHand
<1>3. ASSUME NEW p \in Loops, Working(p) PROVE AllEarned'
  BY <1>3, ClaimEarns, LookEarns, RestEarns, MissedEarns, DoEarns, RecordEarns, OffEarns
  DEF Working
<1>4. ASSUME NEW p \in Loops, LoopDies(p) PROVE AllEarned'
  BY <1>4, RestEarns
<1> QED
  BY <1>1, <1>2, <1>3, <1>4 DEF Next

LEMMA EarnsBegin == ASSUME Init PROVE AllEarned
BY DEF Init, AllEarned, Earned, Present

\* The runs that were made are among the times that are spent.
LEMMA WhatIsRunIsEarned ==
  ASSUME Sizes, IInv, AllEarned
  PROVE  StepsFollow /\ OneTimeOnce
<1>1. ASSUME NEW t \in Tasks, Present(t), Step(t) \/ rows[t].oneTime
      PROVE  RunsSince(t) <= Allowed(t)
  <2> DEFINE R == {d \in 1 .. LastDue : d > since[t].at /\ ran[t][d] > 0}
  <2>1. R \subseteq Times(t)
    BY DEF Times, Claimed, Dues
  <2>2. IsFiniteSet(Times(t))
    BY Finite
  <2>3. RunsSince(t) = Cardinality(R)
    BY DEF RunsSince
  <2> HIDE DEF R
  <2>4. /\ RunsSince(t) <= Cardinality(Times(t)) /\ RunsSince(t) \in Nat
        /\ Cardinality(Times(t)) \in Nat
    BY <2>1, <2>2, <2>3, Fewer
  <2>5. Cardinality(Times(t)) + More(t) <= Allowed(t)
    BY <1>1 DEF AllEarned, Earned
  <2>6. More(t) \in {0, 1}
    BY DEF More
  <2>7. Allowed(t) \in Int
    BY <1>1, AllowedTyped DEF IInv
  <2> QED
    BY <2>4, <2>5, <2>6, <2>7
<1>2. StepsFollow
  BY <1>1 DEF StepsFollow, Allowed
<1>3. OneTimeOnce
  BY <1>1 DEF OneTimeOnce, Allowed
<1> QED
  BY <1>2, <1>3

\* run_task(): at times after it came to follow its parent, a chained step runs no more often than
\* a run of the parent was recorded since then, and once more if it still had a time of its own -
\* for any number of tasks and processes, whatever people change of any task, and wherever a
\* process stops.
THEOREM StepsComeAfter == ASSUME Sizes PROVE Spec => []StepsFollow
<1>1. IInv /\ AllEarned => StepsFollow
  BY WhatIsRunIsEarned
<1>2. Init => IInv /\ AllEarned
  BY Begins, EarnsBegin
<1>3. IInv /\ AllEarned /\ [Next]_vars => (IInv /\ AllEarned)'
  BY Steps, EarnsStep
<1> QED
  BY <1>1, <1>2, <1>3, PTL DEF Spec

\* run_due(): a one-time task that follows no other runs at one time after a person saved it, also
\* when it came again before and a loop has still read it as that: the save moved its time, so the
\* claim of what was read before finds another one.
THEOREM AskedRunsOnce == ASSUME Sizes PROVE Spec => []OneTimeOnce
<1>1. IInv /\ AllEarned => OneTimeOnce
  BY WhatIsRunIsEarned
<1>2. Init => IInv /\ AllEarned
  BY Begins, EarnsBegin
<1>3. IInv /\ AllEarned /\ [Next]_vars => (IInv /\ AllEarned)'
  BY Steps, EarnsStep
<1> QED
  BY <1>1, <1>2, <1>3, PTL DEF Spec

\* schedules.py: run_due, run_task, set_next: the three together, as the run of the panel
\* checks them (RunsAreDue).
THEOREM TasksRunWhenDue == ASSUME Sizes PROVE Spec => []RunsAreDue
<1>1. RunsOnce /\ StepsFollow /\ OneTimeOnce => RunsAreDue
  BY DEF RunsAreDue
<1> QED
  BY <1>1, DueRunsOnce, StepsComeAfter, AskedRunsOnce, PTL
=============================================================================
