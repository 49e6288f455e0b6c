------------------------------ MODULE MCPanel -------------------------------
(* What people share on the panel: schedules, accounts, the layout of the   *)
(* fleet, decisions, the desired state, consoles and jobs.  The parts share *)
(* no state, and a behaviour is one of one part: one run explores them all. *)
EXTENDS JobStream, Panel, Integers, TLC

VARIABLES part,   \* the part that this behaviour is of
  world, rollAsked, phase, hand, tried, round, pack, rollRecord, rerolls, troubles

CONSTANTS r1, w1, w2, f1, f2

Symmetry == Permutations({w1, w2}) \cup Permutations({f1, f2})

\* Two jars of one project, one of them without a mod id.
ReviewJars == {[key |-> "a", mod |-> "m", project |-> "p"], [key |-> "b", mod |-> "none", project |-> "p"]}

\* Five mods, of which the pool knows four: a parent outside the pool, one that clashes with what
\* is more popular, one that is filed as a library, one without a build, one that needs another.
Catalogues ==
  {[facts |-> <<{}, {}, {"side"}, {}, {}>>, parent |-> <<0, 5, 0, 5, 0>>, clash |-> {{1, 3}},
    needs |-> <<{}, {5}, {}, {5}, {}>>],
   [facts |-> <<{}, {}, {}, {"heavy"}, {}>>, parent |-> <<0, 0, 2, 0, 0>>, clash |-> {{1, 2}},
    needs |-> <<{}, {}, {2}, {}, {}>>],
   [facts |-> <<{}, {"library"}, {"filed"}, {"nobuild"}, {"blocked"}>>, parent |-> <<0, 0, 2, 0, 0>>,
    clash |-> {{1, 3}}, needs |-> <<{5}, {}, {1}, {}, {}>>],
   [facts |-> <<{"stale"}, {}, {}, {"nobuild"}, {}>>, parent |-> <<0, 4, 4, 0, 0>>, clash |-> {},
    needs |-> <<{}, {4}, {4}, {}, {}>>],
   [facts |-> <<{}, {}, {}, {}, {"library"}>>, parent |-> <<0, 3, 0, 0, 0>>, clash |-> {{1, 4}},
    needs |-> <<{5}, {3}, {}, {5}, {}>>]}
Asked(n, i, client) ==
  [count |-> n, intensity |-> i, client |-> client, conflict |-> FALSE, cap |-> TRUE, deps |-> TRUE]
Asks == {Asked(2, 3, FALSE), Asked(3, 1, TRUE)}

Longer == INSTANCE JobStream WITH
  MaxFrames <- 2
Rolling == INSTANCE Roulette WITH
  Mods <- 1..5, Pool <- 1..4, Worlds <- Catalogues, Settings <- Asks, Holds <- {{}, {3}},
  Spare <- 1, MaxRounds <- 3, MaxRerolls <- 1, MaxTroubles <- 1, asked <- rollAsked,
  record <- rollRecord

schedVars ==
  <<clock, rows, loop, schedRan, done, since, budget>>
accountsVars ==
  <<users, lock, tx, changes, moved>>
signinVars ==
  <<signClock, row, held, spent, again, streak>>
fleetVars ==
  <<groups, assign, activity, persisted, db, save, fleetLock, unsaved, sighted, fleetBudget>>
reviewVars ==
  <<lists, memory, saves, reviewDb, last, reviewTold, blind, decisions, reviewTroubles>>
desiredVars ==
  <<desiredRow, spec, request, late, agent, desired, excused, mixed, desiredChanges,
    desiredTroubles>>
consoleVars ==
  <<life, count, ring, sub, wire, task, feed, viewers, consoleQueue, shown, cursor, seen, sure,
    lines, joins, consoleTroubles>>
pageVars ==
  <<status, jobLines, conn, jobFrames, overran, jobAsked, rec, view, ends, jobTroubles>>
viewVars ==
  <<now, viewTold, ent, viewStream, page, gets, fence, viewBudget>>
jobsVars ==
  <<queue, tries, runner, worker, beat, pc, requeue, job, pump, ran, stream, record, flag, told,
    reader, trouble>>
rollVars ==
  <<world, rollAsked, phase, hand, tried, round, pack, rollRecord, rerolls, troubles>>
allVars == <<part, schedVars, accountsVars, signinVars, fleetVars, reviewVars, desiredVars,
       consoleVars, pageVars, viewVars, jobsVars, rollVars>>

\* The parts that are not of the behaviour stay as they begin.
PartsInit ==
  /\ part \in {"sched", "accounts", "signin", "fleet", "review", "desired", "console", "page",
               "view", "jobs", "follow", "roll"}
  /\ Scheduled!Init
  /\ Accounting!Init
  /\ SigningIn!Init
  /\ Fleet!Init
  /\ Reviewing!Init
  /\ Desiring!Init
  /\ Console!Init
  /\ Job!Init
  /\ part # "page" => status = "running"
  /\ Viewing!Init
  /\ Init
  /\ Rolling!Init
  /\ part # "roll" => world = (CHOOSE w \in Catalogues : TRUE) /\ rollAsked = [set |-> Asked(2, 3, FALSE), held |-> {}]

SchedStep ==
  /\ part = "sched" /\ Scheduled!Next
  /\ UNCHANGED <<part, accountsVars, signinVars, fleetVars, reviewVars, desiredVars, consoleVars,
                 pageVars, viewVars, jobsVars, rollVars>>
AccountsStep ==
  /\ part = "accounts" /\ Accounting!Next
  /\ UNCHANGED <<part, schedVars, signinVars, fleetVars, reviewVars, desiredVars, consoleVars,
                 pageVars, viewVars, jobsVars, rollVars>>
SigninStep ==
  /\ part = "signin" /\ SigningIn!Next
  /\ UNCHANGED <<part, schedVars, accountsVars, fleetVars, reviewVars, desiredVars, consoleVars,
                 pageVars, viewVars, jobsVars, rollVars>>
FleetStep ==
  /\ part = "fleet" /\ Fleet!Next
  /\ UNCHANGED <<part, schedVars, accountsVars, signinVars, reviewVars, desiredVars, consoleVars,
                 pageVars, viewVars, jobsVars, rollVars>>
ReviewStep ==
  /\ part = "review" /\ Reviewing!Next
  /\ UNCHANGED <<part, schedVars, accountsVars, signinVars, fleetVars, desiredVars, consoleVars,
                 pageVars, viewVars, jobsVars, rollVars>>
DesiredStep ==
  /\ part = "desired" /\ Desiring!Next
  /\ UNCHANGED <<part, schedVars, accountsVars, signinVars, fleetVars, reviewVars, consoleVars,
                 pageVars, viewVars, jobsVars, rollVars>>
ConsoleStep ==
  /\ part = "console" /\ Console!Next
  /\ UNCHANGED <<part, schedVars, accountsVars, signinVars, fleetVars, reviewVars, desiredVars,
                 pageVars, viewVars, jobsVars, rollVars>>
PageStep ==
  /\ part = "page" /\ Job!Next
  /\ UNCHANGED <<part, schedVars, accountsVars, signinVars, fleetVars, reviewVars, desiredVars,
                 consoleVars, viewVars, jobsVars, rollVars>>
ViewStep ==
  /\ part = "view" /\ Viewing!Next
  /\ UNCHANGED <<part, schedVars, accountsVars, signinVars, fleetVars, reviewVars, desiredVars,
                 consoleVars, pageVars, jobsVars, rollVars>>
JobsStep ==
  /\ part = "jobs" /\ Next
  /\ UNCHANGED <<part, schedVars, accountsVars, signinVars, fleetVars, reviewVars, desiredVars,
                 consoleVars, pageVars, viewVars, rollVars>>
FollowStep ==
  /\ part = "follow" /\ Longer!Next /\ \E r \in Readers : reader'[r] = Away
  /\ UNCHANGED <<part, schedVars, accountsVars, signinVars, fleetVars, reviewVars, desiredVars,
                 consoleVars, pageVars, viewVars, rollVars>>
RollStep ==
  /\ part = "roll" /\ Rolling!Next
  /\ UNCHANGED <<part, schedVars, accountsVars, signinVars, fleetVars, reviewVars, desiredVars,
                 consoleVars, pageVars, viewVars, jobsVars>>
PartsNext == SchedStep \/ AccountsStep \/ SigninStep \/ FleetStep \/ ReviewStep \/ DesiredStep \/
             ConsoleStep \/ PageStep \/ ViewStep \/ JobsStep \/ FollowStep \/ RollStep

PartsSpec == PartsInit /\ [][PartsNext]_allVars

(* Properties.                                                             *)

\* Every variable keeps its type.
PartsTyped ==
  /\ part = "sched" => Scheduled!TypeOK
  /\ part = "accounts" => Accounting!TypeOK
  /\ part = "signin" => SigningIn!TypeOK
  /\ part = "fleet" => Fleet!TypeOK
  /\ part = "review" => Reviewing!TypeOK
  /\ part = "desired" => Desiring!TypeOK
  /\ part = "console" => Console!TypeOK
  /\ part = "page" => Job!TypeOK
  /\ part = "view" => Viewing!TypeOK
  /\ part = "jobs" => TypeOK
  /\ part = "follow" => Longer!TypeOK
  /\ part = "roll" => Rolling!TypeOK

\* Roulette: a hand is of mods that exist, agree and are as many as were asked for, and what is
\* installed has what it needs.
HandHolds ==
  part = "roll" => Rolling!HandIsReal /\ Rolling!HandAgrees /\ Rolling!SlotsHold /\ Rolling!PackLoads
=============================================================================
