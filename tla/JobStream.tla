----------------------------- MODULE JobStream ------------------------------
(***************************************************************************)
(* One queued job from submit to its last frame: app/jobs.py (registry,    *)
(* Pump, _reconcile, follow) and app/worker.py (run_job, _watch_cancel),   *)
(* with Redis between them.                                                *)
(*                                                                         *)
(* The frames a job emits are numbered; the stream is the sequence of the  *)
(* frames XADDed to it, an event id a position in it.  A worker's coroutine*)
(* and its Pump are two tasks of one event loop, every call to Redis takes *)
(* effect at one instant, and an action goes from one await to the next.   *)
(* A reader is one activation of follow() or cancel() in an API process.   *)
(***************************************************************************)
EXTENDS Naturals, FiniteSets, Sequences, SequencesExt

CONSTANTS
  Workers,      \* worker processes, each with its own OWNER
  NoWorker,     \* nobody has the job
  Readers,      \* calls of follow() and cancel()
  MaxTries,     \* max_tries of the queued function
  Batch,        \* frames the pump takes at a time (200)
  MaxFrames,    \* bound on the frames of the job's body
  MaxStops,     \* bound on the processes that die or are stopped
  Troubles,     \* what else can go wrong: "fault", a call that fails; "late", a
                \* live worker that beats late; "hour", a cancel flag that expires
  MaxTroubles   \* bound on these

ASSUME ProcessesAssumption == IsFiniteSet(Workers) /\ NoWorker \notin Workers
ASSUME BoundsAssumption ==
  /\ {MaxTries, Batch} \subseteq Nat \ {0}
  /\ {MaxFrames, MaxStops, MaxTroubles} \subseteq Nat
  /\ Troubles \subseteq {"fault", "late", "hour"}

VARIABLES
  queue,    \* the job in arq: on its way, queued, taken by a worker, gone
  tries,    \* arq's count of the times the job was picked up
  runner,   \* the worker whose coroutine run_job holds the job
  worker,   \* each worker process: up, stopping (SIGTERM) or down
  beat,     \* the heartbeat keys that exist (bf:owner:<worker>)
  pc,       \* where the coroutine run_job of the runner is suspended
  requeue,  \* run_job will end by raising CancelledError
  job,      \* the Job object: its status, and the frames it has emitted
  pump,     \* the Pump of the job
  ran,      \* how often the body of the job was started
  stream,   \* bf:job:<id>:events
  record,   \* bf:job:<id>, the stored snapshot
  flag,     \* bf:job:<id>:cancel
  told,     \* a cancel was answered with True, and when the job was still queued
  reader,   \* what each reader is doing
  trouble   \* how many processes stopped, how often and what else went wrong

runVars    == <<runner, pc, requeue, job, ran>>
queueVars  == <<queue, tries>>
workerVars == <<worker, beat>>
cancelVars == <<flag, told>>
vars == <<queueVars, runVars, workerVars, pump, stream, record, cancelVars, reader, trouble>>

Terminal == {"done", "error", "cancelled"}
Statuses == Terminal \cup {"pending", "running"}

\* A frame: its number (0 for the one a reader writes), and whether it is the
\* "end" event.
Frames == [n : Nat, end : BOOLEAN]

\* A snapshot of the job: the frames it reflects, and the id it is stamped with.
Snapshots == [status : Statuses, upto : Nat, last : Nat,
              owner : Workers \cup {NoWorker}, fresh : BOOLEAN]

TypeOK ==
  /\ queue \in {"unsent", "recorded", "queued", "taken", "gone"}
  /\ tries \in 0 .. MaxTries
  /\ runner \in Workers \cup {NoWorker}
  /\ worker \in [Workers -> {"up", "stopping", "down"}]
  /\ beat \in [Workers -> BOOLEAN]
  /\ pc \in {"idle", "check", "load", "run", "close"}
  /\ requeue \in BOOLEAN
  /\ job \in [status : Statuses, emitted : Nat]
  /\ pump \in [pc : {"get", "xadd", "sent", "store", "over"}, added : Nat, taken : Nat,
               last : Nat, final : BOOLEAN, snap : Snapshots]
  /\ ran \in Nat
  /\ stream \in Seq(Frames)
  /\ record \in Snapshots
  /\ flag \in BOOLEAN
  /\ told \in {"no", "queued", "late"}
  /\ reader \in [Readers -> [pc : {"off", "exists", "declare", "store", "tail", "flag", "over"},
                             aim : {"follow", "again", "cancel", "none"},
                             snap : Snapshots, last : Nat, seen : Nat]]
  /\ trouble \in [stops : 0 .. MaxStops, count : 0 .. MaxTroubles, had : SUBSET Troubles]

NewJob   == [status |-> "pending", emitted |-> 0]
Pending  == [status |-> "pending", upto |-> 0, last |-> 0, owner |-> NoWorker, fresh |-> TRUE]
NewPump  == [pc |-> "get", added |-> 0, taken |-> 0, last |-> 0, final |-> FALSE,
             snap |-> Pending]
Away     == [pc |-> "off", aim |-> "none", snap |-> Pending, last |-> 0, seen |-> 0]

Init ==
  /\ queue = "unsent" /\ tries = 0
  /\ runner = NoWorker /\ pc = "idle" /\ requeue = FALSE /\ job = NewJob /\ ran = 0
  /\ worker = [w \in Workers |-> "up"]
  /\ beat = [w \in Workers |-> TRUE]
  /\ pump = NewPump
  /\ stream = <<>>
  /\ record = Pending
  /\ flag = FALSE /\ told = "no"
  /\ reader = [r \in Readers |-> Away]
  /\ trouble = [stops |-> 0, count |-> 0, had |-> {}]

OneStops == /\ trouble.stops < MaxStops
            /\ trouble' = [trouble EXCEPT !.stops = @ + 1]

GoesWrong(k) == /\ k \in Troubles /\ trouble.count < MaxTroubles
                /\ trouble' = [trouble EXCEPT !.count = @ + 1, !.had = @ \cup {k}]

-----------------------------------------------------------------------------
(* submit() and the queue.                                                 *)

\* submit() writes the "Waiting for a worker" snapshot ...
SubmitRecords ==
  /\ queue = "unsent" /\ queue' = "recorded"
  /\ record' = Pending
  /\ UNCHANGED <<tries, runVars, workerVars, pump, stream, cancelVars, reader, trouble>>

\* ... and then queues the job.
SubmitEnqueues ==
  /\ queue = "recorded" /\ queue' = "queued"
  /\ UNCHANGED <<tries, runVars, workerVars, pump, stream, record, cancelVars, reader, trouble>>

\* The API process stops, or the queue cannot be reached, in between.
SubmitBreaks ==
  /\ queue = "recorded" /\ queue' = "gone"
  /\ OneStops
  /\ UNCHANGED <<tries, runVars, workerVars, pump, stream, record, cancelVars, reader>>

\* A bug: the count of tries is lost with the worker.
PickUpUncounted(w) ==
  /\ queue = "queued" /\ worker[w] = "up" /\ runner = NoWorker
  /\ tries < MaxTries /\ tries' = tries
  /\ queue' = "taken" /\ runner' = w
  /\ pc' = "check" /\ job' = NewJob /\ pump' = NewPump
  /\ UNCHANGED <<requeue, ran, workerVars, stream, record, cancelVars, reader, trouble>>

\* arq hands the job to a free worker, which makes its Job and its Pump and
\* goes to look for the cancel flag.
PickUp(w) ==
  /\ queue = "queued" /\ worker[w] = "up" /\ runner = NoWorker
  /\ tries < MaxTries /\ tries' = tries + 1
  /\ queue' = "taken" /\ runner' = w
  /\ pc' = "check" /\ job' = NewJob /\ pump' = NewPump
  /\ UNCHANGED <<requeue, ran, workerVars, stream, record, cancelVars, reader, trouble>>

\* arq refuses a job that has had its tries.
Exhausted(w) ==
  /\ queue = "queued" /\ worker[w] = "up" /\ tries = MaxTries
  /\ queue' = "gone"
  /\ UNCHANGED <<tries, runVars, workerVars, pump, stream, record, cancelVars, reader, trouble>>

\* The in-progress mark of a worker that is gone has expired.
Redelivered ==
  /\ queue = "taken" /\ runner = NoWorker
  /\ queue' = "queued"
  /\ UNCHANGED <<tries, runVars, workerVars, pump, stream, record, cancelVars, reader, trouble>>

-----------------------------------------------------------------------------
(* run_job: the worker's coroutine and the body of the job.                *)

Emits(k, st) == job' = [status |-> st, emitted |-> job.emitted + k]

\* The flag is looked at before the job starts: it ends as cancelled, with
\* nothing but its end frame.
CheckCancelled ==
  /\ pc = "check" /\ flag
  /\ pc' = "close" /\ Emits(1, "cancelled")
  /\ UNCHANGED <<queueVars, runner, requeue, ran, workerVars, pump, stream, record,
                 cancelVars, reader, trouble>>

\* A bug: the flag is left to _watch_cancel.
CheckPassesBlindly ==
  /\ pc = "check" /\ pc' = "load"
  /\ UNCHANGED <<queueVars, runner, requeue, job, ran, workerVars, pump, stream, record,
                 cancelVars, reader, trouble>>

CheckPasses ==
  /\ pc = "check" /\ ~flag
  /\ pc' = "load"
  /\ UNCHANGED <<queueVars, runner, requeue, job, ran, workerVars, pump, stream, record,
                 cancelVars, reader, trouble>>

\* Redis, or the database whitelist.load() reads, fails: the exception goes
\* through the finally that closes the pump, and no frame is emitted.
StartFails ==
  /\ pc \in {"check", "load"} /\ GoesWrong("fault")
  /\ pc' = "close"
  /\ UNCHANGED <<queueVars, runner, requeue, job, ran, workerVars, pump, stream, record,
                 cancelVars, reader>>

\* The runner task is made and begins: status "running", the start frame.
Starts ==
  /\ pc = "load"
  /\ pc' = "run" /\ Emits(1, "running") /\ ran' = ran + 1
  /\ UNCHANGED <<queueVars, runner, requeue, workerVars, pump, stream, record, cancelVars,
                 reader, trouble>>

BodyEmits ==
  /\ pc = "run" /\ job.emitted < MaxFrames
  /\ Emits(1, "running")
  /\ UNCHANGED <<queueVars, runner, pc, requeue, ran, workerVars, pump, stream, record,
                 cancelVars, reader, trouble>>

\* The body returns, raises or is cancelled: a frame that says so and the end
\* frame, without an await between them.
Ends(st) == pc = "run" /\ pc' = "close" /\ Emits(2, st)

BodyEnds ==
  /\ \E st \in {"done", "error"} : Ends(st)
  /\ UNCHANGED <<queueVars, runner, requeue, ran, workerVars, pump, stream, record,
                 cancelVars, reader, trouble>>

\* _watch_cancel finds the flag at one of its polls.
WatchCancels ==
  /\ flag /\ Ends("cancelled")
  /\ UNCHANGED <<queueVars, runner, requeue, ran, workerVars, pump, stream, record,
                 cancelVars, reader, trouble>>

\* The pump is closed and run_job ends.  A CancelledError makes arq queue the
\* job again; anything else ends it there.
Closed ==
  /\ pc = "close" /\ pump.pc = "over"
  /\ pc' = "idle" /\ runner' = NoWorker /\ requeue' = FALSE
  /\ queue' = IF requeue THEN "queued" ELSE "gone"
  /\ job' = NewJob /\ pump' = NewPump
  /\ UNCHANGED <<tries, ran, workerVars, stream, record, cancelVars, reader, trouble>>
-----------------------------------------------------------------------------
(* The Pump: frames onto the stream in batches, then the snapshot.         *)

Oldest(n) == Min({n, Batch})

\* The frames in the queue, at most Batch of them, and the None of close()
\* when the batch has room for it.  A batch of only the None goes straight to
\* the snapshot.
PumpTakes ==
  LET left == job.emitted - pump.taken
  IN  /\ pump.pc = "get" /\ runner # NoWorker
      /\ left > 0 \/ pc = "close"
      /\ pump' = [pump EXCEPT !.pc = IF left > 0 THEN "xadd" ELSE "sent",
                              !.taken = @ + Oldest(left),
                              !.final = pc = "close" /\ left < Batch]
  /\ UNCHANGED <<queueVars, runVars, workerVars, stream, record, cancelVars, reader, trouble>>

Frame(k) == [n |-> k, end |-> pc = "close" /\ k = job.emitted /\ job.status \in Terminal]

\* Redis runs the pipeline of XADDs.
PumpAdds ==
  /\ pump.pc = "xadd"
  /\ stream' = stream \o [i \in 1 .. pump.taken - pump.added |-> Frame(pump.added + i)]
  /\ pump' = [pump EXCEPT !.pc = "sent", !.added = pump.taken, !.last = Len(stream')]
  /\ UNCHANGED <<queueVars, runVars, workerVars, record, cancelVars, reader, trouble>>

\* The answer is back: write_snapshot takes the job as it is now.
PumpSnaps ==
  /\ pump.pc = "sent"
  /\ pump' = [pump EXCEPT !.pc = "store",
                          !.snap = [status |-> job.status, upto |-> job.emitted,
                                    last |-> pump.last, owner |-> runner, fresh |-> TRUE]]
  /\ UNCHANGED <<queueVars, runVars, workerVars, stream, record, cancelVars, reader, trouble>>

\* The end of one round of _run.
NextRound(p) == pump' = [p EXCEPT !.pc = IF p.final THEN "over" ELSE "get", !.snap = Pending]

\* Redis stores the snapshot.  Before the first frame is out it keeps the id
\* that the old snapshot was stamped with.
PumpStores ==
  /\ pump.pc = "store"
  /\ record' = IF pump.last > 0 THEN pump.snap ELSE [pump.snap EXCEPT !.last = record.last]
  /\ NextRound(pump)
  /\ UNCHANGED <<queueVars, runVars, workerVars, stream, cancelVars, reader, trouble>>

\* The XADDs or the SET fail: "the job carries on", without that batch or that
\* snapshot.
PumpFails ==
  /\ pump.pc \in {"xadd", "store"} /\ GoesWrong("fault")
  /\ NextRound([pump EXCEPT !.added = pump.taken])
  /\ UNCHANGED <<queueVars, runVars, workerVars, stream, record, cancelVars, reader>>

\* close() waits 30 seconds for the pump and then cancels it.
PumpGivenUp ==
  /\ pc = "close" /\ pump.pc # "over" /\ GoesWrong("fault")
  /\ pump' = [pump EXCEPT !.pc = "over", !.snap = Pending]
  /\ UNCHANGED <<queueVars, runVars, workerVars, stream, record, cancelVars, reader>>

-----------------------------------------------------------------------------
(* Worker processes and their heartbeats.                                  *)

\* A process is killed.  What its event loop held is gone; what Redis has
\* stays, the heartbeat for HEARTBEAT_TTL.
WorkerDies(w) ==
  /\ worker[w] # "down" /\ OneStops
  /\ worker' = [worker EXCEPT ![w] = "down"]
  /\ IF runner = w
     THEN /\ runner' = NoWorker /\ pc' = "idle" /\ requeue' = FALSE
          /\ job' = NewJob /\ pump' = NewPump
     ELSE UNCHANGED <<runner, pc, requeue, job, pump>>
  /\ UNCHANGED <<queueVars, ran, beat, stream, record, cancelVars, reader>>

\* A process is told to stop (SIGTERM): arq cancels run_job.  A body that runs
\* ends as cancelled and run_job swallows the CancelledError; before that it
\* goes through the finally that closes the pump, and in pump.close() it
\* cancels the pump.
WorkerStops(w) ==
  /\ worker[w] = "up" /\ OneStops
  /\ worker' = [worker EXCEPT ![w] = "stopping"]
  /\ \/ /\ runner # w \/ pump.pc = "over"
        /\ UNCHANGED <<pc, requeue, job, pump>>
     \/ /\ runner = w /\ Ends("cancelled")
        /\ UNCHANGED <<requeue, pump>>
     \/ /\ runner = w /\ pc \in {"check", "load"}
        /\ pc' = "close" /\ requeue' = TRUE
        /\ UNCHANGED <<job, pump>>
     \/ /\ runner = w /\ pc = "close" /\ pump.pc # "over"
        /\ requeue' = TRUE /\ pump' = [pump EXCEPT !.pc = "over", !.snap = Pending]
        /\ UNCHANGED <<pc, job>>
  /\ UNCHANGED <<queueVars, runner, ran, beat, stream, record, cancelVars, reader>>

\* shutdown(): heartbeat_forever deletes its key on the way out.
WorkerStopped(w) ==
  /\ worker[w] = "stopping" /\ runner # w
  /\ worker' = [worker EXCEPT ![w] = "down"]
  /\ beat' = [beat EXCEPT ![w] = FALSE]
  /\ UNCHANGED <<queueVars, runVars, pump, stream, record, cancelVars, reader, trouble>>

\* HEARTBEAT_TTL after the last beat of a process that died, or of one whose
\* loop or Redis was too slow to beat in time.
BeatExpires(w) ==
  /\ beat[w] /\ beat' = [beat EXCEPT ![w] = FALSE]
  /\ \/ worker[w] = "down" /\ UNCHANGED trouble
     \/ worker[w] # "down" /\ GoesWrong("late")
  /\ UNCHANGED <<queueVars, runVars, worker, pump, stream, record, cancelVars, reader>>

Beats(w) ==
  /\ worker[w] # "down" /\ ~beat[w]
  /\ beat' = [beat EXCEPT ![w] = TRUE]
  /\ UNCHANGED <<queueVars, runVars, worker, pump, stream, record, cancelVars, reader, trouble>>

\* HEARTBEAT_TTL after the snapshot was last stored.
RecordAges ==
  /\ record.fresh /\ record.status = "running"
  /\ record' = [record EXCEPT !.fresh = FALSE]
  /\ UNCHANGED <<queueVars, runVars, workerVars, pump, stream, cancelVars, reader, trouble>>

\* The hour of the cancel flag is over.
FlagExpires ==
  /\ flag /\ GoesWrong("hour")
  /\ flag' = FALSE
  /\ UNCHANGED <<queueVars, runVars, workerVars, pump, stream, record, told, reader>>

-----------------------------------------------------------------------------
(* Readers: snapshot() with _reconcile inside follow() and cancel().       *)

Over(x) == [x EXCEPT !.pc = "over", !.snap = Pending]

\* A bug: a follower starts at the end of the stream ("$").
AnsweredFromNow(x, s) ==
  IF s.status \in Terminal THEN Over(x)
  ELSE CASE x.aim = "follow" -> [x EXCEPT !.pc = "tail", !.aim = "again", !.last = Len(stream),
                                          !.seen = s.upto, !.snap = Pending]
         [] x.aim = "again"  -> [x EXCEPT !.pc = "tail", !.snap = Pending]
         [] x.aim = "cancel" -> [x EXCEPT !.pc = "flag", !.snap = Pending]

\* What the caller of snapshot() does with s.  follow() starts to tail the
\* stream at the id of the snapshot, or is over; a second look at a quiet
\* stream only asks whether the job is over; cancel() goes on to set the flag.
Answered(x, s) ==
  IF s.status \in Terminal THEN Over(x)
  ELSE CASE x.aim = "follow" -> [x EXCEPT !.pc = "tail", !.aim = "again", !.last = s.last,
                                          !.seen = s.upto, !.snap = Pending]
         [] x.aim = "again"  -> [x EXCEPT !.pc = "tail", !.snap = Pending]
         [] x.aim = "cancel" -> [x EXCEPT !.pc = "flag", !.snap = Pending]

\* A bug: a snapshot that says "running" is believed.
LooksTrusting(r, aim) ==
  LET x == [reader[r] EXCEPT !.aim = aim]
  IN  reader' = [reader EXCEPT ![r] = Answered(x, record)]

\* snapshot(): the stored snapshot, as it is unless it says "running" and has
\* not been updated for HEARTBEAT_TTL.
Looks(r, aim) ==
  LET x == [reader[r] EXCEPT !.aim = aim]
  IN  reader' = [reader EXCEPT ![r] = IF record.status = "running" /\ ~record.fresh
                                      THEN [x EXCEPT !.pc = "exists", !.snap = record]
                                      ELSE Answered(x, record)]

Begins(r, aim) ==
  /\ reader[r].pc = "off" /\ queue # "unsent"
  /\ Looks(r, aim)
  /\ UNCHANGED <<queueVars, runVars, workerVars, pump, stream, record, cancelVars, trouble>>

\* A bug: a snapshot that has gone quiet is proof enough.
OwnerUnasked(r) ==
  /\ reader[r].pc = "exists"
  /\ reader' = [reader EXCEPT ![r].pc = "declare"]
  /\ UNCHANGED <<queueVars, runVars, workerVars, pump, stream, record, cancelVars, trouble>>

\* Is the owner's heartbeat still there?
OwnerLookedUp(r) ==
  /\ reader[r].pc = "exists"
  /\ reader' = [reader EXCEPT ![r] = IF beat[@.snap.owner] THEN Answered(@, @.snap)
                                     ELSE [@ EXCEPT !.pc = "declare"]]
  /\ UNCHANGED <<queueVars, runVars, workerVars, pump, stream, record, cancelVars, trouble>>

\* It is not: an end frame that says "interrupted" ...
Declares(r) ==
  /\ reader[r].pc = "declare"
  /\ stream' = Append(stream, [n |-> 0, end |-> TRUE])
  /\ reader' = [reader EXCEPT ![r].pc = "store", ![r].snap.status = "error",
                              ![r].snap.last = Len(stream'), ![r].snap.fresh = TRUE]
  /\ UNCHANGED <<queueVars, runVars, workerVars, pump, record, cancelVars, trouble>>

\* ... and the snapshot that was read, with that error.
DeclareStored(r) ==
  /\ reader[r].pc = "store"
  /\ record' = reader[r].snap
  /\ reader' = [reader EXCEPT ![r] = Answered(@, @.snap)]
  /\ UNCHANGED <<queueVars, runVars, workerVars, pump, stream, cancelVars, trouble>>

\* The next frame after the last one delivered.
Gets(r) ==
  LET x == reader[r]
      f == stream[x.last + 1]
      y == [x EXCEPT !.last = @ + 1, !.seen = IF f.n = 0 THEN @ ELSE f.n]
  IN  /\ x.pc = "tail" /\ x.last < Len(stream)
      /\ reader' = [reader EXCEPT ![r] = IF f.end THEN Over(y) ELSE y]
      /\ UNCHANGED <<queueVars, runVars, workerVars, pump, stream, record, cancelVars, trouble>>

\* Nothing for 15 seconds: is the job still running?
LooksAgain(r) ==
  /\ reader[r].pc = "tail" /\ reader[r].last = Len(stream)
  /\ Looks(r, "again")
  /\ UNCHANGED <<queueVars, runVars, workerVars, pump, stream, record, cancelVars, trouble>>

\* cancel() sets the flag and answers True.
FlagSets(r) ==
  /\ reader[r].pc = "flag"
  /\ flag' = TRUE
  /\ told' = IF told # "no" THEN told
             ELSE IF ran = 0 /\ queue \in {"recorded", "queued"} THEN "queued" ELSE "late"
  /\ reader' = [reader EXCEPT ![r] = Over(@)]
  /\ UNCHANGED <<queueVars, runVars, workerVars, pump, stream, record, trouble>>

-----------------------------------------------------------------------------
QueueStep == SubmitRecords \/ SubmitEnqueues \/ Redelivered
             \/ \E w \in Workers : PickUp(w) \/ Exhausted(w)
RunStep   == CheckCancelled \/ CheckPasses \/ Starts \/ WatchCancels \/ Closed
PumpStep  == PumpTakes \/ PumpAdds \/ PumpSnaps \/ PumpStores
TimeStep  == RecordAges \/ \E w \in Workers : BeatExpires(w) \/ Beats(w) \/ WorkerStopped(w)
ReaderStep(r) == OwnerLookedUp(r) \/ Declares(r) \/ DeclareStored(r) \/ Gets(r)
                 \/ LooksAgain(r) \/ FlagSets(r)
Trouble == SubmitBreaks \/ StartFails \/ PumpFails \/ PumpGivenUp \/ FlagExpires
           \/ \E w \in Workers : WorkerDies(w) \/ WorkerStops(w)

Next == \/ QueueStep \/ BodyEmits \/ BodyEnds \/ RunStep \/ PumpStep \/ TimeStep \/ Trouble
        \/ \E r \in Readers : \/ ReaderStep(r)
                              \/ \E aim \in {"follow", "cancel"} : Begins(r, aim)

Spec == Init /\ [][Next]_vars
\* Nothing in Redis is lost, and every task that is ready runs: the worker's,
\* the pump's, the heartbeat's and the readers'.  Time passes.  No body need
\* ever end, and nobody need ask for or cancel anything.
Fairness ==
  /\ WF_vars(QueueStep) /\ WF_vars(RunStep) /\ WF_vars(PumpStep) /\ WF_vars(RecordAges)
  /\ \A w \in Workers : WF_vars(BeatExpires(w) \/ Beats(w) \/ WorkerStopped(w))
  /\ \A r \in Readers : WF_vars(ReaderStep(r))

FairSpec == Spec /\ Fairness

-----------------------------------------------------------------------------
(* Properties.                                                             *)

\* r tails the stream, or takes a second look at a quiet one.
Following(r) == reader[r].aim = "again" /\ reader[r].pc # "over"

\* The frames a follower has yet to be given.
Ahead(r) == {i \in DOMAIN stream : i > reader[r].last /\ stream[i].n > 0}

\* follow(): a reader that joins at any moment gets the snapshot and then
\* every later frame; none falls between the two, unless a write to Redis has
\* failed.
NoGap ==
  "fault" \notin trouble.had => \A r \in Readers : Following(r) =>
    \A i \in Ahead(r) : \E j \in Ahead(r) : j <= i /\ stream[j].n <= reader[r].seen + 1

\* ... and no frame that the snapshot already reflects comes again.
\* Does not hold: see README, section 6.
NoRepeat ==
  \A r \in Readers : Following(r) =>
    \A i \in Ahead(r) : stream[i].n > reader[r].seen

\* worker.py: "A task is never retried", whichever processes die or are
\* stopped while they have it.
RunsOnce == ran <= 1

\* cancel(): a job that was still in the queue when its cancel was answered
\* with True never starts, as long as no flag has run out of its hour.
CancelledNeverStarts == told = "queued" /\ "hour" \notin trouble.had => ran = 0

\* heartbeat_forever(): only a job whose process has stopped is declared
\* interrupted, as long as a live one never beats late.
LivingNotInterrupted ==
  "late" \notin trouble.had => \A r \in Readers :
    reader[r].pc \in {"declare", "store"} => worker[reader[r].snap.owner] # "up"

\* follow(): once the body of a running job is over, or its worker is gone,
\* every follower of the job comes to an end.
FollowEnds ==
  \A r \in Readers :
    (Following(r) /\ record.status = "running" /\ pc # "run") ~> (reader[r].pc = "over")

\* The same for a job that a worker had taken, whether or not it had recorded
\* it as running.
OrphanEnds ==
  \A r \in Readers :
    (Following(r) /\ tries > 0 /\ runner = NoWorker) ~> (reader[r].pc = "over")

\* A cancel that was answered with True ends the job however long its body
\* would have run, unless its process is stopped first.
CancelReaches ==
  told # "no" ~> (record.status \in Terminal \/ trouble.stops > 0)
=============================================================================
