----------------------------- MODULE MCStreams ------------------------------
(* What travels between the node, the panel and its pages, and what works *)
(* in the background.  The parts share no state: each behaviour is one of *)
(* one part, so that one run explores them all.                           *)
EXTENDS AgentEvents

VARIABLES part,   \* the part that this behaviour is of
  jobsQueue, tries, runner, worker, beat, pc, requeue, job, pump, ran, stream, record, flag,
  jobsTold, reader, trouble,
  clock, rows, loop, schedRan, done, since, budget,
  world, readBy, server, saving, disk, backupJob, srvLock, backupLock, net, count,
  copy, lru, users, lockNo, fetch, trim, landed, hits, fetchCount,
  consoleLife, consoleCount, ring, sub, consoleWire, task, feed, viewers, consoleQueue, shown,
  cursor, consoleSeen, sure, lines, joins, troubles,
  pageStatus, pageLines, conn, frames, overran, pageAsked, rec, view, ends, pageTroubles,
  now, viewTold, ent, viewStream, page, gets, fence, viewBudget

Stream == INSTANCE JobStream WITH
  Workers <- {"w1"}, NoWorker <- "nobody", Readers <- {"r1", "r2"}, MaxTries <- 1, Batch <- 2,
  MaxFrames <- 1, MaxStops <- 1, Troubles <- {}, MaxTroubles <- 0, queue <- jobsQueue,
  told <- jobsTold
Scheduled == INSTANCE Schedules WITH
  Tasks <- {"t1"}, NoTask <- "none", Loops <- {"p1", "p2"}, Every <- 2, Delay <- 1, Grace <- 0,
  MaxTime <- 3, MaxEdits <- 2, MaxDeaths <- 1, ran <- schedRan
Backup == INSTANCE WorldBackup WITH
  Files <- {"f1"}, Contents <- {"a", "b"}, Gone <- "gone", Jobs <- {"j1", "j2"}, NoJob <- "none",
  Keep <- 1, MaxRequests <- 2, MaxStarts <- 1, MaxWrites <- 1, MaxTroubles <- 1,
  job <- backupJob
Fetched == INSTANCE Downloads WITH
  Shas <- {"x"}, ByHand <- {}, Installs <- {"i1", "i2"}, Concurrency <- 1, Limit <- 0,
  Attempts <- 2, MaxFails <- 1, MaxOthers <- 1, count <- fetchCount
Console == INSTANCE ConsoleRelay WITH
  Viewers <- {"v1"}, Readers <- {"r1"}, Ring <- 2, AgentQueue <- 1, ViewerQueue <- 1, Batch <- 1,
  MaxLines <- 3, MaxJoins <- 2, MaxTroubles <- 1, life <- consoleLife, count <- consoleCount,
  wire <- consoleWire, queue <- consoleQueue, seen <- consoleSeen
Page == INSTANCE JobsClient WITH
  QueueMax <- 2, LogKept <- 3, LogSent <- 2, LogInDom <- 2, MaxLines <- 3, MaxTroubles <- 1,
  status <- pageStatus, lines <- pageLines, asked <- pageAsked, troubles <- pageTroubles
Viewing == INSTANCE FleetPage WITH
  Queue <- 1, MaxGets <- 1, MaxChanges <- 1, MaxEvents <- 1, MaxTroubles <- 1, told <- viewTold,
  stream <- viewStream, budget <- viewBudget

eventsVars ==
  <<emitted, queue, dropped, reported, post, accepted, wire, fails, late, life, seen, status,
    told>>
jobsVars ==
  <<jobsQueue, tries, runner, worker, beat, pc, requeue, job, pump, ran, stream, record, flag,
    jobsTold, reader, trouble>>
schedVars ==
  <<clock, rows, loop, schedRan, done, since, budget>>
backupVars ==
  <<world, readBy, server, saving, disk, backupJob, srvLock, backupLock, net, count>>
fetchVars ==
  <<copy, lru, users, lockNo, fetch, trim, landed, hits, fetchCount>>
consoleVars ==
  <<consoleLife, consoleCount, ring, sub, consoleWire, task, feed, viewers, consoleQueue, shown,
    cursor, consoleSeen, sure, lines, joins, troubles>>
pageVars ==
  <<pageStatus, pageLines, conn, frames, overran, pageAsked, rec, view, ends, pageTroubles>>
viewVars ==
  <<now, viewTold, ent, viewStream, page, gets, fence, viewBudget>>
allVars == <<part, eventsVars, jobsVars, schedVars, backupVars, fetchVars, consoleVars, pageVars,
       viewVars>>

\* The parts that are not of the behaviour stay as they begin.
PartsInit ==
  /\ part \in {"events", "jobs", "sched", "backup", "fetch", "console", "page", "view"}
  /\ Init
  /\ Stream!Init
  /\ Scheduled!Init
  /\ Backup!Init
  /\ Fetched!Init
  /\ Console!Init
  /\ Page!Init
  /\ part # "page" => pageStatus = "running"
  /\ Viewing!Init

EventsStep ==
  /\ part = "events" /\ Next
  /\ UNCHANGED <<part, jobsVars, schedVars, backupVars, fetchVars, consoleVars, pageVars,
                 viewVars>>
JobsStep ==
  /\ part = "jobs" /\ Stream!Next
  /\ UNCHANGED <<part, eventsVars, schedVars, backupVars, fetchVars, consoleVars, pageVars,
                 viewVars>>
SchedStep ==
  /\ part = "sched" /\ Scheduled!Next
  /\ UNCHANGED <<part, eventsVars, jobsVars, backupVars, fetchVars, consoleVars, pageVars,
                 viewVars>>
BackupStep ==
  /\ part = "backup" /\ Backup!Next
  /\ UNCHANGED <<part, eventsVars, jobsVars, schedVars, fetchVars, consoleVars, pageVars,
                 viewVars>>
FetchStep ==
  /\ part = "fetch" /\ Fetched!Next
  /\ UNCHANGED <<part, eventsVars, jobsVars, schedVars, backupVars, consoleVars, pageVars,
                 viewVars>>
ConsoleStep ==
  /\ part = "console" /\ Console!Next
  /\ UNCHANGED <<part, eventsVars, jobsVars, schedVars, backupVars, fetchVars, pageVars,
                 viewVars>>
PageStep ==
  /\ part = "page" /\ Page!Next
  /\ UNCHANGED <<part, eventsVars, jobsVars, schedVars, backupVars, fetchVars, consoleVars,
                 viewVars>>
ViewStep ==
  /\ part = "view" /\ Viewing!Next
  /\ UNCHANGED <<part, eventsVars, jobsVars, schedVars, backupVars, fetchVars, consoleVars,
                 pageVars>>
PartsNext == EventsStep \/ JobsStep \/ SchedStep \/ BackupStep \/ FetchStep \/ ConsoleStep \/
             PageStep \/ ViewStep

PartsSpec ==
  /\ PartsInit /\ [][PartsNext]_allVars
  /\ WF_eventsVars(part = "events" /\ FlushBegins)
  /\ WF_eventsVars(part = "events" /\ FlushSucceeds)
  /\ WF_eventsVars(part = "events" /\ \E p \in wire : PanelHandles(p))
  /\ WF_jobsVars(part = "jobs" /\ Stream!QueueStep)
  /\ WF_jobsVars(part = "jobs" /\ Stream!RunStep)
  /\ WF_jobsVars(part = "jobs" /\ Stream!PumpStep)
  /\ WF_jobsVars(part = "jobs" /\ Stream!RecordAges)
  /\ \A w \in {"w1"} : WF_jobsVars(part = "jobs" /\ (Stream!BeatExpires(w) \/ Stream!Beats(w) \/ Stream!WorkerStopped(w)))
  /\ \A r \in {"r1", "r2"} : WF_jobsVars(part = "jobs" /\ Stream!ReaderStep(r))
  /\ \A p \in {"p1", "p2"} : WF_schedVars(part = "sched" /\ Scheduled!Working(p))
  /\ WF_backupVars(part = "backup" /\ \E j \in {"j1", "j2"} : Backup!JobMoves(j))
  /\ \A p \in Fetched!Fetches : WF_fetchVars(part = "fetch" /\ Fetched!FetchMoves(p))
  /\ WF_consoleVars(part = "console" /\ Console!AgentSends)
  /\ WF_consoleVars(part = "console" /\ Console!Connects)
  /\ WF_consoleVars(part = "console" /\ Console!Takes)
  /\ WF_consoleVars(part = "console" /\ Console!Closed)
  /\ \A v \in {"v1"} : WF_consoleVars(part = "console" /\ Console!Shows(v))
  /\ WF_pageVars(part = "page" /\ Page!Hearing)
  /\ WF_viewVars(part = "view" /\ Viewing!StatsAsked)
  /\ WF_viewVars(part = "view" /\ Viewing!NodeReads)
  /\ WF_viewVars(part = "view" /\ Viewing!FetchEnds)
  /\ WF_viewVars(part = "view" /\ Viewing!GrowsOld)
  /\ WF_viewVars(part = "view" /\ Viewing!Polls)
  /\ WF_viewVars(part = "view" /\ Viewing!Shows)

(* Properties.                                                             *)

\* Every variable keeps its type.
PartsTyped ==
  /\ part = "events" => TypeOK
  /\ part = "jobs" => Stream!TypeOK
  /\ part = "sched" => Scheduled!TypeOK
  /\ part = "backup" => Backup!TypeOK
  /\ part = "fetch" => Fetched!TypeOK
  /\ part = "console" => Console!TypeOK
  /\ part = "page" => Page!TypeOK
  /\ part = "view" => Viewing!TypeOK

\* AgentEvents: the panel hears of the events that were lost.  ConsoleRelay: a page that stays
\* comes to show the newest line.  JobsClient: whoever waits for a job is told of its end.
\* FleetPage: a page that is looked at comes to show the state that the server has.
NewsArrives ==
  /\ DropsTold /\ Console!CatchesUp /\ Page!EndIsTold
  /\ part = "view" => Viewing!PageCatchesUp

\* JobStream: every follower of a job that runs comes to its end, and a cancel ends a body
\* that never would.
JobsAnswer == Stream!FollowEnds /\ Stream!CancelReaches

\* Schedules: what is due is dealt with, whichever loop dies.  WorldBackup: whatever happens to
\* a backup, the server saves again.  Downloads: every fetch comes to its end.
WorkEnds ==
  /\ Scheduled!DueIsHandled
  /\ Backup!SavingComesBack
  /\ \A p \in Fetched!Fetches : part = "fetch" => Fetched!EveryFetchEnds(p)
=============================================================================
