------------------------------ MODULE JobsClient ------------------------------
(***************************************************************************)
(* The browser's side of a job (app/static/js/jobs.js) and the stream it   *)
(* follows (app/jobs.py: Job.emit, JobRegistry.follow): one job, one page. *)
(*                                                                         *)
(* A line of the job's log is its number.  A frame carries what the page   *)
(* looks at: the job's status, a line or the tail of the log, and whether  *)
(* the result is with it.  What Redis adds between a worker and follow()   *)
(* is module JobStream.                                                    *)
(***************************************************************************)
EXTENDS Integers, SequencesExt

CONSTANTS QueueMax,   \* frames a follower's queue holds (1000)
          LogKept,    \* lines the page keeps of a log (220)
          LogSent,    \* lines a snapshot carries (100)
          LogInDom,   \* lines a card shows (LOG_IN_DOM)
          MaxLines,   \* bound: lines the job writes
          MaxTroubles \* bound: connections lost, requests that fail

VARIABLES status, lines,   \* the job: its status, and how many lines it has written
          conn, frames,    \* the EventSource of the page, and what is on its way to it
          overran,         \* a frame was dropped: the queue of the follower was full
          asked,           \* the answer to GET /api/jobs/{id} that is on its way
          rec,             \* the page's record of the job
          view,            \* its card in the drawer
          ends,            \* what onEnd was called with
          troubles

vars == <<status, lines, conn, frames, overran, asked, rec, view, ends, troubles>>

Terminal == {"done", "error", "cancelled"}
Statuses == Terminal \cup {"pending", "running"}
NoFrame == [status |-> "pending", line |-> 0, log |-> <<>>, snap |-> FALSE, result |-> FALSE]
Frames == [status : Statuses, line : 0..(MaxLines + 1), log : Seq(1..(MaxLines + 1)),
           snap : BOOLEAN, result : BOOLEAN]
Newest(s, n) == IF Len(s) > n THEN SubSeq(s, Len(s) - n + 1, Len(s)) ELSE s

TypeOK ==
  /\ status \in Statuses /\ lines \in 0..(MaxLines + 1)
  /\ conn \in {"open", "lost", "asking", "waiting", "retrying", "dead", "closed"}
  /\ frames \in Seq(Frames) /\ overran \in BOOLEAN /\ asked \in Seq(Frames)
  /\ rec.status \in Statuses /\ rec.log \in Seq(1..(MaxLines + 1)) /\ Len(rec.log) <= LogKept
  /\ {rec.there, rec.result} \subseteq BOOLEAN /\ rec.total \in Nat /\ rec.epoch \in Nat
  /\ view.epoch \in Int /\ view.seen \in Nat /\ Len(view.dom) <= LogInDom
  /\ ends \in Seq([status : Statuses, result : BOOLEAN]) /\ troubles \in 0..MaxTroubles

\* snapshot: the last lines, the status, and the result when there is one.
Snapshot(st, n) ==
  [status |-> st, line |-> 0, log |-> Newest([i \in 1..n |-> i], LogSent),
   snap |-> TRUE, result |-> st = "done"]

\* follow() on the page, while follow() on the server subscribes and then, in the same step,
\* takes its snapshot.
Init ==
  /\ status \in {"pending", "running"} /\ lines = 0
  /\ conn = "open" /\ frames = <<Snapshot(status, 0)>> /\ overran = FALSE /\ asked = <<>>
  /\ rec = [there |-> TRUE, status |-> "running", log |-> <<>>, total |-> 0, epoch |-> 0, result |-> FALSE]
  /\ view = [epoch |-> -1, seen |-> 0, dom |-> <<>>]
  /\ ends = <<>> /\ troubles = 0

Trouble == troubles < MaxTroubles /\ troubles' = troubles + 1

(***************************************************************************)
(* The job, and the queue of its follower.                                 *)
(***************************************************************************)
\* emit: put_nowait, and a full queue drops what it is given.  The snapshot is no part of the queue.
Queued == IF frames # <<>> /\ Head(frames).snap THEN Len(frames) - 1 ELSE Len(frames)
WithResult(f, isEnd) == [f EXCEPT !.result = f.status = "done"]
Emits(fs) ==
  IF conn = "open"
  THEN LET room == QueueMax - Queued
       IN  /\ frames' = frames \o SubSeq(fs, 1, IF Len(fs) < room THEN Len(fs) ELSE room)
           /\ overran' = (overran \/ room < Len(fs))
  ELSE UNCHANGED <<frames, overran>>

JobStarts ==
  /\ status = "pending" /\ status' = "running"
  /\ Emits(<<[NoFrame EXCEPT !.status = "running"]>>)
  /\ UNCHANGED <<lines, conn, asked, rec, view, ends, troubles>>

JobLogs ==
  /\ status = "running" /\ lines < MaxLines /\ lines' = lines + 1
  /\ Emits(<<[NoFrame EXCEPT !.status = status, !.line = lines']>>)
  /\ UNCHANGED <<status, conn, asked, rec, view, ends, troubles>>

\* run_job: "Finished" is a step that says done already, a failure or a cancel writes a line, and
\* then comes the end.
JobEnds(st) ==
  /\ status = "running" /\ status' = st
  /\ lines' = IF st = "done" THEN lines ELSE lines + 1
  /\ LET f == [NoFrame EXCEPT !.status = st]
     IN  Emits(<<WithResult(IF st = "done" THEN f ELSE [f EXCEPT !.line = lines'], FALSE), WithResult(f, TRUE)>>)
  /\ UNCHANGED <<conn, asked, rec, view, ends, troubles>>

(***************************************************************************)
(* The page.                                                               *)
(***************************************************************************)
\* applyFrame and pushLog.
LogsSameEpoch(r, f) ==
  IF f.snap THEN [r EXCEPT !.log = f.log, !.total = Len(f.log)]
  ELSE IF f.line = 0 THEN r
  ELSE [r EXCEPT !.log = Newest(Append(@, f.line), LogKept), !.total = @ + 1]
Logs(r, f) ==
  IF f.snap
  THEN [r EXCEPT !.log = f.log, !.total = Len(f.log), !.epoch = @ + 1]
  ELSE IF f.line = 0 THEN r
       ELSE [r EXCEPT !.log = Newest(Append(@, f.line), LogKept), !.total = @ + 1]
Applied(r, f) == [Logs(r, f) EXCEPT !.status = f.status, !.result = @ \/ f.result]

\* finish: the source is closed, and who waits is told once.
Ended(r) == ends' = Append(ends, [status |-> r.status, result |-> r.result])

Hears(f, rest) ==
  /\ rec' = Applied(rec, f)
  /\ IF f.status \in Terminal
     THEN conn' = "closed" /\ frames' = <<>> /\ Ended(rec')
     ELSE conn' = "open" /\ frames' = rest /\ UNCHANGED ends

OnMessage ==
  /\ conn = "open" /\ frames # <<>>
  /\ Hears(Head(frames), Tail(frames))
  /\ UNCHANGED <<status, lines, overran, asked, view, troubles>>

\* follow(): a job that is over, and nothing left in the queue.
FollowEnds ==
  /\ conn = "open" /\ frames = <<>> /\ status \in Terminal
  /\ Hears(Snapshot(status, lines), <<>>)
  /\ UNCHANGED <<status, lines, overran, asked, view, troubles>>

SocketLost ==
  /\ conn = "open" /\ Trouble
  /\ conn' = "lost" /\ frames' = <<>>
  /\ UNCHANGED <<status, lines, overran, asked, rec, view, ends>>

\* es.onerror: of a job that runs the server is asked for the truth; for any other the browser's
\* own retry is left to it.
OnError ==
  /\ conn = "lost"
  /\ conn' = IF rec.status = "running" THEN "asking" ELSE "retrying"
  /\ UNCHANGED <<status, lines, frames, overran, asked, rec, view, ends, troubles>>

ServerTells ==
  /\ conn = "asking" /\ asked = <<>>
  /\ asked' = <<Snapshot(status, lines)>>
  /\ UNCHANGED <<status, lines, conn, frames, overran, rec, view, ends, troubles>>

TruthArrives ==
  /\ conn = "asking" /\ asked # <<>> /\ asked' = <<>>
  /\ rec' = Applied(rec, Head(asked))
  /\ IF Head(asked).status \in Terminal
     THEN conn' = "closed" /\ Ended(rec')
     ELSE conn' = "waiting" /\ UNCHANGED ends
  /\ UNCHANGED <<status, lines, frames, overran, view, troubles>>

AskingFails ==
  /\ conn = "asking" /\ Trouble
  /\ asked' = <<>> /\ conn' = "closed"
  /\ rec' = [rec EXCEPT !.status = "error"] /\ Ended(rec')
  /\ UNCHANGED <<status, lines, frames, overran, view>>

\* openStream after 2.5 seconds, if the record says running by then; the browser's own retry.
Connect == conn' = "open" /\ frames' = <<Snapshot(status, lines)>>
Reopens ==
  /\ conn = "waiting"
  /\ IF rec.status = "running" /\ rec.there
     THEN Connect
     ELSE conn' = "dead" /\ UNCHANGED frames
  /\ UNCHANGED <<status, lines, overran, asked, rec, view, ends, troubles>>

Retries ==
  /\ conn = "retrying" /\ Connect
  /\ UNCHANGED <<status, lines, overran, asked, rec, view, ends, troubles>>

\* A browser gives up on an EventSource that is answered with an error, a proxy's for instance.
RetryRefused ==
  /\ conn = "retrying" /\ Trouble
  /\ conn' = "dead"
  /\ UNCHANGED <<status, lines, frames, overran, asked, rec, view, ends>>

(***************************************************************************)
(* The drawer: paint and patchLog, dismissJob, closeDrawer, forget.        *)
(***************************************************************************)
Least(m, n) == IF m < n THEN m ELSE n
Paint ==
  /\ rec.there
  /\ view' = LET stale == view.epoch # rec.epoch
                 seen == IF stale THEN rec.total - Len(rec.log) ELSE view.seen
                 fresh == Least(rec.total - seen, Len(rec.log))
                 box == IF stale THEN <<>> ELSE view.dom
             IN  [epoch |-> rec.epoch, seen |-> rec.total,
                  dom |-> Newest(box \o Newest(rec.log, fresh), LogInDom)]
  /\ UNCHANGED <<status, lines, conn, frames, overran, asked, rec, ends, troubles>>

\* The record goes, and with it the EventSource, of any job that does not say "running".
MayGo == rec.status # "running"
Forgets ==
  /\ rec.there /\ MayGo
  /\ rec' = [rec EXCEPT !.there = FALSE] /\ conn' = "closed" /\ frames' = <<>>
  /\ UNCHANGED <<status, lines, overran, asked, view, ends, troubles>>

Next ==
  \/ JobStarts \/ JobLogs \/ \E st \in Terminal : JobEnds(st)
  \/ OnMessage \/ FollowEnds \/ SocketLost \/ OnError \/ ServerTells \/ TruthArrives
  \/ AskingFails \/ Reopens \/ Retries \/ RetryRefused \/ Paint \/ Forgets

Spec == Init /\ [][Next]_vars

Hearing == OnMessage \/ FollowEnds \/ OnError \/ ServerTells \/ TruthArrives \/ Reopens \/ Retries

(***************************************************************************)
(* Properties.                                                             *)
(***************************************************************************)
\* "Every terminal frame carries the result": whoever waits for the end of a job is told once,
\* what the job came to, with its result; an error that is none is only ever lost contact.
EndIsTrue ==
  /\ Len(ends) <= 1
  /\ \A i \in DOMAIN ends :
       IF ends[i].status = "error" THEN status = "error" \/ troubles > 1
       ELSE ends[i].status = status /\ (status = "done" => ends[i].result)

\* The log of the record has no line twice and, unless the page was too slow for its queue, no
\* hole, however often the stream is taken up again.
LogIsWhole ==
  \A i \in DOMAIN rec.log : i > 1 =>
    /\ rec.log[i] > rec.log[i - 1]
    /\ overran \/ rec.log[i] = rec.log[i - 1] + 1

\* "it would append the tail a second time": what a painted card shows is the end of the log of
\* its record, whatever was trimmed or replaced since it was last painted.
CardShowsTail ==
  view.epoch = rec.epoch /\ view.seen = rec.total => view.dom = Newest(rec.log, LogInDom)

\* The three together: what a page says of a job, of its end and of its log, is so.
PagesAreTrue == EndIsTrue /\ LogIsWhole /\ CardShowsTail

\* "Closing the drawer closes the view, never the EventSource": a job is forgotten only when it
\* is over, or its page gave up on it.
DrawerIsAView == ~rec.there => status \in Terminal \/ ends # <<>>

\* The end of a job reaches whoever waits for it, as long as the page follows it.
EndIsTold == status \in Terminal ~> (ends # <<>> \/ ~rec.there \/ conn = "dead")
=============================================================================
