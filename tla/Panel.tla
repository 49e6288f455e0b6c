-------------------------------- MODULE Panel --------------------------------
(***************************************************************************)
(* What the panel promises those who use it: its scheduled tasks           *)
(* (Schedules), accounts (Accounts, SignIn), the layout of the fleet       *)
(* (FleetGroups), what was decided about jars and servers (Decisions,      *)
(* DesiredState), and the pages that show consoles, the fleet and jobs     *)
(* (ConsoleRelay, FleetPage, JobsClient).  The parts share no state, only  *)
(* the servers and the requests they are about.                            *)
(***************************************************************************)
CONSTANTS
  Tasks, NoTask, Loops, Every, Delay, Grace, MaxTime, MaxEdits, MaxDeaths,
  Ids, Procs, Nobody, MaxUserChanges,
  MaxFailures, Lockout, ChallengeTtl, Skew, Recovery, MaxSteps, MaxSecrets, MaxHeld,
  Servers, Callers,
  RackIds, Yard, NoRequest, MaxRacked, MaxRackTroubles,
  Jars, Unnamed, OneServer, MaxDecisions, MaxReviewTroubles,
  MaxDesired, MaxDesiredTroubles,
  Viewers, Pollers, Ring, AgentQueue, ViewerQueue, ConsoleBatch, MaxLines, MaxJoins,
  MaxConsoleTroubles,
  PageQueue, MaxGets, MaxNews, MaxNumbers, MaxPageTroubles,
  QueueMax, LogKept, LogSent, LogInDom, MaxLogged, MaxJobTroubles

VARIABLES
  clock, rows, loop, schedRan, done, since, budget,
  users, lock, tx, changes, moved,
  signClock, row, held, spent, again, streak,
  groups, assign, activity, persisted, db, save, fleetLock, unsaved, sighted, fleetBudget,
  lists, memory, saves, reviewDb, last, reviewTold, blind, decisions, reviewTroubles,
  desiredRow, spec, request, late, agent, desired, excused, mixed, desiredChanges, desiredTroubles,
  life, count, ring, sub, wire, task, feed, viewers, consoleQueue, shown, cursor, seen, sure,
  lines, joins, consoleTroubles,
  now, viewTold, ent, viewStream, page, gets, fence, viewBudget,
  status, jobLines, conn, jobFrames, overran, jobAsked, rec, view, ends, jobTroubles

Scheduled == INSTANCE Schedules WITH ran <- schedRan
Accounting == INSTANCE Accounts WITH MaxChanges <- MaxUserChanges
SigningIn == INSTANCE SignIn WITH clock <- signClock
Fleet == INSTANCE FleetGroups WITH
  Requests <- Callers, MaxChanges <- MaxRacked, MaxTroubles <- MaxRackTroubles, lock <- fleetLock,
  budget <- fleetBudget
Reviewing == INSTANCE Decisions WITH
  None <- Unnamed, Server <- OneServer, MaxChanges <- MaxDecisions, MaxTroubles <- MaxReviewTroubles,
  db <- reviewDb, told <- reviewTold, changes <- decisions, troubles <- reviewTroubles
Desiring == INSTANCE DesiredState WITH
  Requests <- Callers, MaxChanges <- MaxDesired, MaxTroubles <- MaxDesiredTroubles,
  row <- desiredRow, changes <- desiredChanges, troubles <- desiredTroubles
Console == INSTANCE ConsoleRelay WITH
  Readers <- Pollers, Batch <- ConsoleBatch, MaxTroubles <- MaxConsoleTroubles,
  queue <- consoleQueue, troubles <- consoleTroubles
Viewing == INSTANCE FleetPage WITH
  Queue <- PageQueue, MaxChanges <- MaxNews, MaxEvents <- MaxNumbers, MaxTroubles <- MaxPageTroubles,
  told <- viewTold, stream <- viewStream, budget <- viewBudget
Job == INSTANCE JobsClient WITH
  MaxLines <- MaxLogged, MaxTroubles <- MaxJobTroubles, lines <- jobLines, frames <- jobFrames,
  asked <- jobAsked, troubles <- jobTroubles

-----------------------------------------------------------------------------
(***************************************************************************)
(* The promises.                                                           *)
(***************************************************************************)
\* Schedules: one run of a due date, steps after their parent, one-time tasks once.
RunsAreDue == Scheduled!RunsAreDue

\* Accounts: one administrator can always get in, and changes to them queue up.  SignIn: a code
\* works once, wrong answers lock, and nobody is asked for what they never set up.
AccountsHold == Accounting!AccountsHold /\ SigningIn!AccountsHold

\* FleetGroups: the tables hold the layout that is shown, without racks nobody made, and an
\* uptime is from when the server came up.
LayoutHolds == Fleet!LayoutHolds

\* Decisions: the latest counts, is in the tables when it was called persisted, and is in force.
\* DesiredState: panel and node agree once nothing is under way, and a node misses no server.
DecisionsHold == Reviewing!DecisionsHold /\ Desiring!DecisionsHold

\* ConsoleRelay, JobsClient: what a page shows of a console is one unbroken piece of it, and
\* what it says of a job is true.  FleetPage: a page hears of what its stream left out, and is
\* shown no old reading without a mark.
PagesAreTrue == Console!PagesAreTrue /\ Viewing!PagesAreTrue /\ Job!PagesAreTrue
=============================================================================
