----------------------------- MODULE JobProofs -----------------------------
(***************************************************************************)
(* Proofs about jobs.  Of the JobStream: a job runs as often as arq hands  *)
(* it out, a cancelled one that was still queued never, no follower misses *)
(* a frame whatever the order of the pump's and its own steps, and only a  *)
(* process that is down is taken for one that is gone.  Of ServerSetup:    *)
(* what the jobs that launch a server promise, namely its repair, its boot *)
(* test, the jar it is launched from and the heap it is given.             *)
(***************************************************************************)
EXTENDS JobStream, ServerSetup, Integers, FiniteSetTheorems, SequenceTheorems, TLAPS

-----------------------------------------------------------------------------
(* The invariants.                                                         *)

Readings == [pc : {"off", "exists", "declare", "store", "tail", "flag", "over"},
             aim : {"follow", "again", "cancel", "none"},
             snap : Snapshots, last : Nat, seen : Nat]

\* The pump goes after the job, and both belong to the worker that has it.
PumpShape ==
  /\ pump.added <= pump.taken /\ pump.taken <= job.emitted
  /\ runner = NoWorker => pc = "idle" /\ pump = NewPump
  /\ runner # NoWorker => queue = "taken"

\* A reader that waits for something has an aim, and stores only an error.
ReaderShape ==
  \A r \in Readers :
    /\ reader[r].pc \in {"exists", "declare", "store", "tail"} => reader[r].aim # "none"
    /\ reader[r].pc = "store" => reader[r].snap.status = "error"
    /\ reader[r].pc = "tail" => reader[r].aim = "again"

Shape == TypeOK /\ PumpShape /\ ReaderShape

\* How often the job was started, and will be without another try.
RunsInv == ran + (IF pc \in {"check", "load"} THEN 1 ELSE 0) <= tries

\* A job cancelled in the queue meets the flag.
CancelInv ==
  /\ told # "no" /\ "hour" \notin trouble.had => flag
  /\ told = "queued" /\ "hour" \notin trouble.had => ran = 0 /\ pc \notin {"load", "run"}

\* Who beats, and whom the snapshots name.
OwnersInv ==
  /\ record.status = "running" => record.owner \in Workers
  /\ pump.pc = "store" => pump.snap.owner \in Workers
  /\ \A r \in Readers : reader[r].pc \in {"exists", "declare", "store"} => reader[r].snap.owner \in Workers
BeatInv ==
  "late" \notin trouble.had =>
    /\ \A w \in Workers : worker[w] = "up" => beat[w]
    /\ \A r \in Readers : reader[r].pc \in {"declare", "store"} => worker[reader[r].snap.owner] # "up"

Real(i) == i \in DOMAIN stream /\ stream[i].n > 0

\* The frames after position l, with the one the pump will add next, begin at or before u + 1.
Follows(l, u) ==
  /\ l <= Len(stream)
  /\ \A i \in l + 1 .. Len(stream) : Real(i) => \E j \in l + 1 .. i : Real(j) /\ stream[j].n <= u + 1
  /\ pump.added <= u \/ \E j \in l + 1 .. Len(stream) : Real(j) /\ stream[j].n <= u + 1

GapInv ==
  /\ queue = "unsent" => tries = 0
  /\ tries = 0 => runner = NoWorker /\ \A i \in DOMAIN stream : ~Real(i)
  /\ \A i \in DOMAIN stream : Real(i) => Follows(i, stream[i].n)
  /\ pump.last <= Len(stream) /\ \A i \in DOMAIN stream : i > pump.last /\ runner # NoWorker => ~Real(i)
  /\ pump.pc = "store" => pump.snap.last = pump.last /\ pump.added <= pump.snap.upto
  /\ record.last <= Len(stream)
  /\ record.status \notin Terminal => Follows(record.last, record.upto)
  /\ \A r \in Readers :
       /\ reader[r].pc = "exists" => Follows(reader[r].snap.last, reader[r].snap.upto)
       /\ reader[r].pc = "store" => reader[r].snap.last <= Len(stream)
       /\ Following(r) => Follows(reader[r].last, reader[r].seen)
GapsInv == "fault" \notin trouble.had => GapInv

-----------------------------------------------------------------------------
(* What the actions do, for the proofs.                                    *)

Jobs  == [status : Statuses, emitted : Nat]
Pumps == [pc : {"get", "xadd", "sent", "store", "over"}, added : Nat, taken : Nat,
          last : Nat, final : BOOLEAN, snap : Snapshots]

\* A job, its first snapshot and a pump as they begin.
LEMMA Fresh ==
  /\ Pending \in Snapshots /\ Pending.status = "pending" /\ Pending.upto = 0 /\ Pending.last = 0
  /\ NewJob \in Jobs /\ NewJob.emitted = 0
  /\ NewPump \in Pumps /\ NewPump.pc = "get" /\ NewPump.added = 0 /\ NewPump.taken = 0 /\ NewPump.last = 0
  /\ Away \in Readings /\ Away.pc = "off" /\ Away.aim = "none"
<1>1. Pending \in Snapshots /\ Pending.status = "pending" /\ Pending.upto = 0 /\ Pending.last = 0
  BY DEF Pending, Snapshots, Statuses, Terminal
<1>2. NewJob \in Jobs /\ NewJob.emitted = 0
  BY DEF NewJob, Jobs, Statuses, Terminal
<1>3. NewPump \in Pumps /\ NewPump.pc = "get" /\ NewPump.added = 0 /\ NewPump.taken = 0 /\ NewPump.last = 0
  BY <1>1 DEF NewPump, Pumps
<1>4. Away \in Readings /\ Away.pc = "off" /\ Away.aim = "none"
  BY <1>1 DEF Away, Readings
<1> QED
  BY <1>1, <1>2, <1>3, <1>4

\* A reader that has its answer.
LEMMA AnsweredIs ==
  ASSUME NEW x \in Readings, NEW s \in Snapshots, x.aim # "none"
  PROVE  /\ Answered(x, s) \in Readings /\ Answered(x, s).aim # "none"
         /\ Answered(x, s).pc \in {"over", "tail", "flag"}
         /\ Answered(x, s).pc # "over" => s.status \notin Terminal
         /\ Answered(x, s).pc = "tail" => Answered(x, s).aim = "again"
         /\ Answered(x, s).aim = "again" /\ x.aim = "again" =>
              Answered(x, s).last = x.last /\ Answered(x, s).seen = x.seen
         /\ Answered(x, s).aim = "again" /\ x.aim # "again" =>
              Answered(x, s).last = s.last /\ Answered(x, s).seen = s.upto
<1>1. CASE s.status \in Terminal
  <2>1. Answered(x, s) = [x EXCEPT !.pc = "over", !.snap = Pending]
    BY <1>1 DEF Answered, Over
  <2>2. /\ Answered(x, s) \in Readings /\ Answered(x, s).pc = "over"
        /\ Answered(x, s).aim = x.aim /\ Answered(x, s).last = x.last /\ Answered(x, s).seen = x.seen
    BY <2>1, Fresh DEF Readings
  <2> QED
    BY <2>2
<1>2. CASE s.status \notin Terminal /\ x.aim = "follow"
  <2>1. Answered(x, s) = [x EXCEPT !.pc = "tail", !.aim = "again", !.last = s.last,
                                   !.seen = s.upto, !.snap = Pending]
    BY <1>2 DEF Answered
  <2>2. s.last \in Nat /\ s.upto \in Nat
    BY DEF Snapshots
  <2>3. /\ Answered(x, s) \in Readings /\ Answered(x, s).pc = "tail"
        /\ Answered(x, s).aim = "again" /\ Answered(x, s).last = s.last /\ Answered(x, s).seen = s.upto
    BY <2>1, <2>2, Fresh DEF Readings
  <2> QED
    BY <1>2, <2>3
<1>3. CASE s.status \notin Terminal /\ x.aim = "again"
  <2>1. Answered(x, s) = [x EXCEPT !.pc = "tail", !.snap = Pending]
    BY <1>3 DEF Answered
  <2>2. /\ Answered(x, s) \in Readings /\ Answered(x, s).pc = "tail"
        /\ Answered(x, s).aim = "again" /\ Answered(x, s).last = x.last /\ Answered(x, s).seen = x.seen
    BY <1>3, <2>1, Fresh DEF Readings
  <2> QED
    BY <1>3, <2>2
<1>4. CASE s.status \notin Terminal /\ x.aim = "cancel"
  <2>1. Answered(x, s) = [x EXCEPT !.pc = "flag", !.snap = Pending]
    BY <1>4 DEF Answered
  <2>2. Answered(x, s) \in Readings /\ Answered(x, s).pc = "flag" /\ Answered(x, s).aim = "cancel"
    BY <1>4, <2>1, Fresh DEF Readings
  <2> QED
    BY <1>4, <2>2
<1>5. x.aim \in {"follow", "again", "cancel"}
  BY DEF Readings
<1> QED
  BY <1>1, <1>2, <1>3, <1>4, <1>5

\* Only r's reading changes: it is x now.
Becomes(r, x) == /\ x \in Readings
                 /\ reader' \in [Readers -> Readings] /\ reader'[r] = x
                 /\ \A q \in Readers \ {r} : reader'[q] = reader[q]

LEMMA ReaderChanges ==
  ASSUME TypeOK, NEW r \in Readers, NEW x \in Readings, reader' = [reader EXCEPT ![r] = x]
  PROVE  Becomes(r, x)
<1>1. reader \in [Readers -> Readings]
  BY DEF TypeOK, Readings
<1> QED
  BY <1>1 DEF Becomes

\* snapshot(): the record is believed, or its owner will be looked up.
LEMMA LooksIs ==
  ASSUME TypeOK, NEW r \in Readers, NEW aim \in {"follow", "again", "cancel"}, Looks(r, aim)
  PROVE  \E x : /\ Becomes(r, x) /\ x.aim # "none"
                /\ \/ /\ x.pc = "exists" /\ x.snap = record /\ record.status = "running"
                      /\ x.aim = aim /\ x.last = reader[r].last /\ x.seen = reader[r].seen
                   \/ /\ x.pc \in {"over", "tail", "flag"}
                      /\ x.pc # "over" => record.status \notin Terminal
                      /\ x.pc = "tail" => x.aim = "again"
                      /\ x.aim = "again" /\ aim = "again" => x.last = reader[r].last /\ x.seen = reader[r].seen
                      /\ x.aim = "again" /\ aim # "again" => x.last = record.last /\ x.seen = record.upto
<1>1. PICK y : y = [reader[r] EXCEPT !.aim = aim]
  OBVIOUS
<1>2. reader[r] \in Readings /\ record \in Snapshots
  BY DEF TypeOK, Readings
<1>3. y \in Readings /\ y.aim = aim /\ y.last = reader[r].last /\ y.seen = reader[r].seen
  BY <1>1, <1>2 DEF Readings
<1>4. CASE record.status = "running" /\ ~record.fresh
  <2>1. PICK x : x = [y EXCEPT !.pc = "exists", !.snap = record]
    OBVIOUS
  <2>2. reader' = [reader EXCEPT ![r] = x]
    BY <1>1, <1>4, <2>1 DEF Looks
  <2>3. /\ x \in Readings /\ x.pc = "exists" /\ x.snap = record /\ x.aim = y.aim
        /\ x.last = y.last /\ x.seen = y.seen
    BY <1>2, <1>3, <2>1 DEF Readings
  <2> QED
    BY <1>3, <1>4, <2>2, <2>3, ReaderChanges
<1>5. CASE ~(record.status = "running" /\ ~record.fresh)
  <2>1. PICK x : x = Answered(y, record)
    OBVIOUS
  <2>2. reader' = [reader EXCEPT ![r] = x]
    BY <1>1, <1>5, <2>1 DEF Looks
  <2>3. y.aim # "none"
    BY <1>3
  <2>4. /\ x \in Readings /\ x.aim # "none"
        /\ x.pc \in {"over", "tail", "flag"}
        /\ x.pc # "over" => record.status \notin Terminal
        /\ x.pc = "tail" => x.aim = "again"
        /\ x.aim = "again" /\ y.aim = "again" => x.last = y.last /\ x.seen = y.seen
        /\ x.aim = "again" /\ y.aim # "again" => x.last = record.last /\ x.seen = record.upto
    BY <1>2, <1>3, <2>1, <2>3, AnsweredIs
  <2>5. Becomes(r, x)
    BY <2>2, <2>4, ReaderChanges
  <2> QED
    BY <1>3, <2>4, <2>5
<1> QED
  BY <1>4, <1>5

\* The owner beats: the snapshot is believed.  If not, it will be declared lost.
LEMMA LookUpIs ==
  ASSUME Shape, NEW r \in Readers, OwnerLookedUp(r)
  PROVE  \E x : /\ Becomes(r, x) /\ x.aim # "none"
                /\ \/ /\ x.pc = "declare" /\ x.snap = reader[r].snap /\ ~beat[reader[r].snap.owner]
                      /\ x.aim = reader[r].aim /\ x.last = reader[r].last /\ x.seen = reader[r].seen
                   \/ /\ x.pc \in {"over", "tail", "flag"}
                      /\ x.pc = "tail" => x.aim = "again"
                      /\ x.aim = "again" /\ reader[r].aim = "again" =>
                           x.last = reader[r].last /\ x.seen = reader[r].seen
                      /\ x.aim = "again" /\ reader[r].aim # "again" =>
                           x.last = reader[r].snap.last /\ x.seen = reader[r].snap.upto
<1>1. TypeOK /\ reader[r].pc = "exists" /\ reader[r].aim # "none"
  BY DEF Shape, PumpShape, ReaderShape, OwnerLookedUp
<1>2. PICK y : y = reader[r]
  OBVIOUS
<1>3. y \in Readings /\ y.snap \in Snapshots /\ reader \in [Readers -> Readings]
  BY <1>1, <1>2 DEF TypeOK, Readings
<1>4. reader' = [reader EXCEPT ![r] = IF beat[y.snap.owner] THEN Answered(y, y.snap)
                                      ELSE [y EXCEPT !.pc = "declare"]]
  BY <1>2, <1>3 DEF OwnerLookedUp
<1>5. CASE beat[y.snap.owner]
  <2>1. PICK x : x = Answered(y, y.snap)
    OBVIOUS
  <2>2. reader' = [reader EXCEPT ![r] = x]
    BY <1>4, <1>5, <2>1
  <2>3. y.aim # "none"
    BY <1>1, <1>2
  <2>4. /\ x \in Readings /\ x.aim # "none"
        /\ x.pc \in {"over", "tail", "flag"}
        /\ x.pc = "tail" => x.aim = "again"
        /\ x.aim = "again" /\ y.aim = "again" => x.last = y.last /\ x.seen = y.seen
        /\ x.aim = "again" /\ y.aim # "again" => x.last = y.snap.last /\ x.seen = y.snap.upto
    BY <1>3, <2>1, <2>3, AnsweredIs
  <2>5. Becomes(r, x)
    BY <1>1, <2>2, <2>4, ReaderChanges
  <2> QED
    BY <1>2, <2>4, <2>5
<1>6. CASE ~beat[y.snap.owner]
  <2>1. PICK x : x = [y EXCEPT !.pc = "declare"]
    OBVIOUS
  <2>2. reader' = [reader EXCEPT ![r] = x]
    BY <1>4, <1>6, <2>1
  <2>3. /\ x \in Readings /\ x.pc = "declare" /\ x.snap = y.snap /\ x.aim = y.aim
        /\ x.last = y.last /\ x.seen = y.seen
    BY <1>3, <2>1 DEF Readings
  <2>4. Becomes(r, x)
    BY <1>1, <2>2, <2>3, ReaderChanges
  <2> QED
    BY <1>1, <1>2, <1>6, <2>3, <2>4
<1> QED
  BY <1>5, <1>6

\* The end frame of a job that is declared lost.
LEMMA DeclaresIs ==
  ASSUME Shape, NEW r \in Readers, Declares(r)
  PROVE  /\ reader[r].pc = "declare" /\ stream' \in Seq(Frames) /\ Len(stream') = Len(stream) + 1
         /\ \A i \in 1 .. Len(stream) : stream'[i] = stream[i]
         /\ stream'[Len(stream) + 1].n = 0
         /\ \E x : /\ Becomes(r, x) /\ x.aim # "none" /\ x.pc = "store"
                   /\ x.snap.status = "error" /\ x.snap.owner = reader[r].snap.owner
                   /\ x.snap.last = Len(stream')
                   /\ x.aim = reader[r].aim /\ x.last = reader[r].last /\ x.seen = reader[r].seen
<1>1. TypeOK /\ reader[r].pc = "declare" /\ reader[r].aim # "none"
  BY DEF Shape, PumpShape, ReaderShape, Declares
<1>2. reader[r] \in Readings /\ reader \in [Readers -> Readings] /\ reader[r].snap \in Snapshots
      /\ stream \in Seq(Frames)
  BY <1>1 DEF TypeOK, Readings
<1>a. PICK e : e = [n |-> 0, end |-> TRUE]
  OBVIOUS
<1>3. e \in Frames /\ e.n = 0
  BY <1>a DEF Frames
<1>4. stream' = Append(stream, e)
  BY <1>a DEF Declares
<1>5. /\ stream' \in Seq(Frames) /\ Len(stream') = Len(stream) + 1
      /\ \A i \in 1 .. Len(stream) : stream'[i] = stream[i]
      /\ stream'[Len(stream) + 1] = e
  BY <1>2, <1>3, <1>4, AppendProperties
<1>6. PICK k \in Nat : k = Len(stream')
  BY <1>5, LenProperties
<1>7. PICK s : s = [reader[r].snap EXCEPT !.status = "error", !.last = k, !.fresh = TRUE]
  OBVIOUS
<1>8. s \in Snapshots /\ s.status = "error" /\ s.last = k /\ s.owner = reader[r].snap.owner
  BY <1>2, <1>7 DEF Snapshots, Statuses, Terminal
<1>9. PICK x : x = [reader[r] EXCEPT !.pc = "store", !.snap = s]
  OBVIOUS
<1>10. /\ x \in Readings /\ x.pc = "store" /\ x.snap = s
       /\ x.aim = reader[r].aim /\ x.last = reader[r].last /\ x.seen = reader[r].seen
  BY <1>2, <1>8, <1>9 DEF Readings
<1>11. reader' = [reader EXCEPT ![r] = x]
  <2>1. reader' = [reader EXCEPT ![r].pc = "store", ![r].snap.status = "error",
                                 ![r].snap.last = k, ![r].snap.fresh = TRUE]
    BY <1>6 DEF Declares
  <2> QED
    BY <1>2, <1>7, <1>9, <2>1 DEF Readings, Snapshots
<1>12. Becomes(r, x)
  BY <1>1, <1>10, <1>11, ReaderChanges
<1> QED
  BY <1>1, <1>3, <1>5, <1>6, <1>8, <1>10, <1>12

\* The declared error is stored, and whoever looked has it.
LEMMA StoredIs ==
  ASSUME Shape, NEW r \in Readers, DeclareStored(r)
  PROVE  \E x : Becomes(r, x) /\ x.pc = "over"
<1>1. TypeOK /\ reader[r].pc = "store" /\ reader[r].aim # "none"
  BY DEF Shape, PumpShape, ReaderShape, DeclareStored
<1>2. reader[r] \in Readings /\ reader \in [Readers -> Readings] /\ reader[r].snap \in Snapshots
  BY <1>1 DEF TypeOK, Readings
<1>3. PICK x : x = Answered(reader[r], reader[r].snap)
  OBVIOUS
<1>4. x \in Readings /\ x.pc = "over"
  <2>1. reader[r].snap.status = "error"
    BY <1>1 DEF Shape, PumpShape, ReaderShape
  <2> QED
    BY <1>1, <1>2, <1>3, <2>1, AnsweredIs DEF Terminal
<1>5. reader' = [reader EXCEPT ![r] = x]
  BY <1>2, <1>3 DEF DeclareStored
<1>6. Becomes(r, x)
  BY <1>1, <1>4, <1>5, ReaderChanges
<1> QED
  BY <1>4, <1>6

\* The next frame.
LEMMA GetsIs ==
  ASSUME Shape, NEW r \in Readers, Gets(r)
  PROVE  /\ reader[r].pc = "tail" /\ reader[r].last + 1 \in 1 .. Len(stream)
         /\ \E x : /\ Becomes(r, x) /\ x.pc \in {"tail", "over"}
                   /\ x.aim = reader[r].aim /\ x.last = reader[r].last + 1
                   /\ x.seen = IF stream[reader[r].last + 1].n = 0 THEN reader[r].seen
                               ELSE stream[reader[r].last + 1].n
<1>1. TypeOK /\ reader[r].pc = "tail" /\ reader[r].last < Len(stream)
  BY DEF Shape, PumpShape, ReaderShape, Gets
<1>2. reader[r] \in Readings /\ reader \in [Readers -> Readings] /\ stream \in Seq(Frames)
      /\ Len(stream) \in Nat
  BY <1>1, LenProperties DEF TypeOK, Readings
<1>3. reader[r].last \in Nat /\ reader[r].seen \in Nat
  BY <1>2 DEF Readings
<1>4. reader[r].last + 1 \in 1 .. Len(stream)
  BY <1>1, <1>2, <1>3
<1>5. PICK f \in Frames : f = stream[reader[r].last + 1]
  BY <1>2, <1>4, ElementOfSeq
<1>6. PICK k \in Nat : k = IF f.n = 0 THEN reader[r].seen ELSE f.n
  BY <1>3 DEF Frames
<1>7. PICK y : y = [reader[r] EXCEPT !.last = reader[r].last + 1, !.seen = k]
  OBVIOUS
<1>8. /\ y \in Readings /\ y.pc = "tail" /\ y.aim = reader[r].aim /\ y.last = reader[r].last + 1
      /\ y.seen = k
  <2>1. reader[r].last + 1 \in Nat
    BY <1>3
  <2> QED
    BY <1>1, <1>2, <1>7, <2>1 DEF Readings
<1>9. PICK x : x = IF f.end THEN Over(y) ELSE y
  OBVIOUS
<1>10. /\ x \in Readings /\ x.pc \in {"tail", "over"} /\ x.aim = y.aim /\ x.last = y.last
       /\ x.seen = y.seen
  <2>1. /\ Over(y) \in Readings /\ Over(y).pc = "over" /\ Over(y).aim = y.aim
        /\ Over(y).last = y.last /\ Over(y).seen = y.seen
    BY <1>8, Fresh DEF Over, Readings
  <2> QED
    BY <1>8, <1>9, <2>1
<1>11. reader' = [reader EXCEPT ![r] = x]
  BY <1>5, <1>6, <1>7, <1>9 DEF Gets
<1>12. Becomes(r, x)
  BY <1>1, <1>10, <1>11, ReaderChanges
<1> QED
  BY <1>1, <1>4, <1>5, <1>6, <1>8, <1>10, <1>12

\* The flag is set.
LEMMA FlagSetsIs ==
  ASSUME Shape, NEW r \in Readers, FlagSets(r)
  PROVE  \E x : Becomes(r, x) /\ x.pc = "over"
<1>1. TypeOK /\ reader[r] \in Readings /\ reader \in [Readers -> Readings]
  BY DEF Shape, PumpShape, ReaderShape, TypeOK, Readings
<1>2. PICK x : x = Over(reader[r])
  OBVIOUS
<1>3. x \in Readings /\ x.pc = "over"
  BY <1>1, <1>2, Fresh DEF Over, Readings
<1>4. reader' = [reader EXCEPT ![r] = x]
  BY <1>1, <1>2 DEF FlagSets
<1>5. Becomes(r, x)
  BY <1>1, <1>3, <1>4, ReaderChanges
<1> QED
  BY <1>3, <1>5

\* The pump takes what waits for it.
LEMMA PumpTakesIs ==
  ASSUME Shape, PumpTakes
  PROVE  /\ pump' \in Pumps /\ pump'.pc \in {"xadd", "sent"}
         /\ pump'.added = pump.added /\ pump'.last = pump.last
         /\ pump.taken <= pump'.taken /\ pump'.taken <= job.emitted
<1>1. TypeOK /\ pump \in Pumps /\ job \in Jobs /\ pump.taken <= job.emitted
  BY DEF Shape, PumpShape, ReaderShape, TypeOK, Pumps, Jobs
<1>2. PICK left \in Nat : left = job.emitted - pump.taken
  BY <1>1 DEF Pumps, Jobs
<1>3. Oldest(left) \in Nat /\ Oldest(left) <= left
  <2>1. Batch \in Nat
    BY BoundsAssumption
  <2>2. \A x \in {left, Batch} : (\A y \in {left, Batch} : x <= y) => x = IF left <= Batch THEN left ELSE Batch
    BY <2>1
  <2>3. \E x \in {left, Batch} : \A y \in {left, Batch} : x <= y
    BY <2>1
  <2>4. Oldest(left) = IF left <= Batch THEN left ELSE Batch
    BY <2>2, <2>3 DEF Oldest, Min
  <2> QED
    BY <2>1, <2>4
<1>4. PICK k \in Nat : k = pump.taken + Oldest(left)
  BY <1>1, <1>3 DEF Pumps
<1>5. PICK fin \in BOOLEAN : fin = (pc = "close" /\ left < Batch)
  OBVIOUS
<1>6. PICK st \in {"xadd", "sent"} : st = IF left > 0 THEN "xadd" ELSE "sent"
  OBVIOUS
<1>7. pump' = [pump EXCEPT !.pc = st, !.taken = k, !.final = fin]
  BY <1>2, <1>4, <1>5, <1>6 DEF PumpTakes
<1>8. /\ pump' \in Pumps /\ pump'.pc = st /\ pump'.taken = k
      /\ pump'.added = pump.added /\ pump'.last = pump.last
  BY <1>1, <1>7 DEF Pumps
<1>9. pump.taken \in Nat /\ job.emitted \in Nat
  BY <1>1 DEF Pumps, Jobs
<1> QED
  BY <1>2, <1>3, <1>4, <1>8, <1>9

\* The frames that were taken are the next ones in the stream.
LEMMA PumpAddsIs ==
  ASSUME Shape, PumpAdds
  PROVE  /\ stream' \in Seq(Frames) /\ Len(stream') = Len(stream) + (pump.taken - pump.added)
         /\ \A i \in 1 .. Len(stream) : stream'[i] = stream[i]
         /\ \A k \in 1 .. pump.taken - pump.added : stream'[Len(stream) + k].n = pump.added + k
         /\ pump' \in Pumps /\ pump'.pc = "sent" /\ pump'.added = pump.taken
         /\ pump'.taken = pump.taken /\ pump'.last = Len(stream')
<1>1. TypeOK /\ pump \in Pumps /\ stream \in Seq(Frames) /\ pump.added <= pump.taken
  BY DEF Shape, PumpShape, ReaderShape, TypeOK, Pumps
<1>2. PICK m \in Nat : m = pump.taken - pump.added
  BY <1>1 DEF Pumps
<1>3. pump.added \in Nat /\ pump.taken \in Nat /\ Len(stream) \in Nat
  BY <1>1, LenProperties DEF Pumps
<1>4. PICK new : new = [i \in 1 .. m |-> Frame(pump.added + i)]
  OBVIOUS
<1>5. \A i \in 1 .. m : Frame(pump.added + i) \in Frames /\ Frame(pump.added + i).n = pump.added + i
  BY <1>3 DEF Frame, Frames
<1>6. new \in Seq(Frames) /\ Len(new) = m /\ \A i \in 1 .. m : new[i].n = pump.added + i
  <2>1. new \in [1 .. m -> Frames] /\ \A i \in 1 .. m : new[i].n = pump.added + i
    BY <1>4, <1>5
  <2>2. new \in Seq(Frames)
    BY <2>1
  <2>3. Len(new) \in Nat /\ DOMAIN new = 1 .. Len(new)
    BY <2>2, LenProperties
  <2>4. Len(new) = m
    BY <2>1, <2>3
  <2> QED
    BY <2>1, <2>2, <2>4
<1>7. stream' = stream \o new
  BY <1>2, <1>4 DEF PumpAdds
<1>8. /\ stream' \in Seq(Frames) /\ Len(stream') = Len(stream) + m
      /\ \A i \in 1 .. Len(stream) + m : stream'[i] = IF i <= Len(stream) THEN stream[i] ELSE new[i - Len(stream)]
  BY <1>1, <1>6, <1>7, ConcatProperties
<1>9. \A i \in 1 .. Len(stream) : stream'[i] = stream[i]
  BY <1>3, <1>8
<1>10. ASSUME NEW k \in 1 .. m
       PROVE  stream'[Len(stream) + k].n = pump.added + k
  <2>1. Len(stream) + k \in 1 .. Len(stream) + m /\ ~(Len(stream) + k <= Len(stream))
        /\ Len(stream) + k - Len(stream) = k
    BY <1>3
  <2>2. stream'[Len(stream) + k] = new[k]
    BY <1>8, <2>1
  <2> QED
    BY <1>6, <2>2
<1>11. PICK l \in Nat : l = Len(stream')
  BY <1>3, <1>8
<1>12. pump' = [pump EXCEPT !.pc = "sent", !.added = pump.taken, !.last = l]
  BY <1>11 DEF PumpAdds
<1>13. /\ pump' \in Pumps /\ pump'.pc = "sent" /\ pump'.added = pump.taken
       /\ pump'.taken = pump.taken /\ pump'.last = l
  BY <1>1, <1>3, <1>12 DEF Pumps
<1> QED
  BY <1>2, <1>8, <1>9, <1>10, <1>11, <1>13

\* The snapshot is of the job as it is now.
LEMMA PumpSnapsIs ==
  ASSUME Shape, PumpSnaps
  PROVE  /\ pump' \in Pumps /\ pump'.pc = "store" /\ pump'.snap \in Snapshots
         /\ pump'.added = pump.added /\ pump'.taken = pump.taken /\ pump'.last = pump.last
         /\ pump'.snap.upto = job.emitted /\ pump'.snap.last = pump.last /\ pump'.snap.owner = runner
<1>1. pump \in Pumps /\ job \in Jobs /\ runner \in Workers \cup {NoWorker}
  BY DEF Shape, PumpShape, ReaderShape, TypeOK, Pumps, Jobs
<1>2. PICK s : s = [status |-> job.status, upto |-> job.emitted,
                    last |-> pump.last, owner |-> runner, fresh |-> TRUE]
  OBVIOUS
<1>3. job.status \in Statuses /\ job.emitted \in Nat /\ pump.last \in Nat
  BY <1>1 DEF Pumps, Jobs
<1>4. s \in Snapshots /\ s.upto = job.emitted /\ s.last = pump.last /\ s.owner = runner
  BY <1>1, <1>2, <1>3 DEF Snapshots
<1>5. pump' = [pump EXCEPT !.pc = "store", !.snap = s]
  BY <1>2 DEF PumpSnaps
<1>6. /\ pump' \in Pumps /\ pump'.pc = "store" /\ pump'.snap = s
      /\ pump'.added = pump.added /\ pump'.taken = pump.taken /\ pump'.last = pump.last
  BY <1>1, <1>4, <1>5 DEF Pumps
<1> QED
  BY <1>4, <1>6

\* The pump goes on to its next round, or is over.
LEMMA NextRoundIs ==
  ASSUME NEW p \in Pumps, NextRound(p)
  PROVE  /\ pump' \in Pumps /\ pump'.pc \in {"get", "over"}
         /\ pump'.added = p.added /\ pump'.taken = p.taken /\ pump'.last = p.last
<1>1. PICK st \in {"get", "over"} : st = IF p.final THEN "over" ELSE "get"
  OBVIOUS
<1>2. pump' = [p EXCEPT !.pc = st, !.snap = Pending]
  BY <1>1 DEF NextRound
<1> QED
  BY <1>2, Fresh DEF Pumps

\* What is stored: the snapshot, with the old id until a frame is out.
LEMMA PumpStoresIs ==
  ASSUME Shape, PumpStores
  PROVE  /\ record' \in Snapshots
         /\ record'.status = pump.snap.status /\ record'.upto = pump.snap.upto
         /\ record'.owner = pump.snap.owner
         /\ record'.last = IF pump.last > 0 THEN pump.snap.last ELSE record.last
         /\ pump' \in Pumps /\ pump'.pc \in {"get", "over"}
         /\ pump'.added = pump.added /\ pump'.taken = pump.taken /\ pump'.last = pump.last
<1>1. pump \in Pumps /\ record \in Snapshots
  BY DEF Shape, PumpShape, ReaderShape, TypeOK, Pumps
<1>2. PICK s : s = pump.snap
  OBVIOUS
<1>3. s \in Snapshots /\ record.last \in Nat
  BY <1>1, <1>2 DEF Pumps, Snapshots
<1>4. record' = IF pump.last > 0 THEN s ELSE [s EXCEPT !.last = record.last]
  BY <1>2 DEF PumpStores
<1>5. /\ record' \in Snapshots /\ record'.status = s.status /\ record'.upto = s.upto
      /\ record'.owner = s.owner /\ record'.last = IF pump.last > 0 THEN s.last ELSE record.last
  <2>1. CASE pump.last > 0
    BY <1>3, <1>4, <2>1
  <2>2. CASE ~(pump.last > 0)
    <3>1. record' = [s EXCEPT !.last = record.last]
      BY <1>4, <2>2
    <3> QED
      BY <1>3, <2>2, <3>1 DEF Snapshots
  <2> QED
    BY <2>1, <2>2
<1>6. NextRound(pump)
  BY DEF PumpStores
<1> QED
  BY <1>1, <1>2, <1>5, <1>6, NextRoundIs

\* The XADDs or the SET fail.
LEMMA PumpFailsIs ==
  ASSUME Shape, PumpFails
  PROVE  /\ pump' \in Pumps /\ pump'.pc \in {"get", "over"}
         /\ pump'.added = pump.taken /\ pump'.taken = pump.taken
<1>1. pump \in Pumps
  BY DEF Shape, PumpShape, ReaderShape, TypeOK, Pumps
<1>2. PICK p : p = [pump EXCEPT !.added = pump.taken]
  OBVIOUS
<1>3. p \in Pumps /\ p.added = pump.taken /\ p.taken = pump.taken
  BY <1>1, <1>2 DEF Pumps
<1>4. NextRound(p)
  BY <1>2 DEF PumpFails
<1> QED
  BY <1>3, <1>4, NextRoundIs

\* The pump is cancelled.
LEMMA CutIs ==
  ASSUME Shape, pump' = [pump EXCEPT !.pc = "over", !.snap = Pending]
  PROVE  /\ pump' \in Pumps /\ pump'.pc = "over"
         /\ pump'.added = pump.added /\ pump'.taken = pump.taken /\ pump'.last = pump.last
<1>1. pump \in Pumps
  BY DEF Shape, PumpShape, ReaderShape, TypeOK, Pumps
<1> QED
  BY <1>1, Fresh DEF Pumps

\* Frames are emitted.
LEMMA EmitsIs ==
  ASSUME Shape, NEW k \in Nat, NEW st \in Statuses, Emits(k, st)
  PROVE  job' \in Jobs /\ job'.emitted = job.emitted + k
<1>1. job.emitted + k \in Nat
  BY DEF Shape, PumpShape, ReaderShape, TypeOK
<1> QED
  BY <1>1 DEF Emits, Jobs

\* What is counted of the things that go wrong.
LEMMA TroubleIs ==
  ASSUME TypeOK
  PROVE  /\ OneStops => /\ trouble' \in [stops : 0 .. MaxStops, count : 0 .. MaxTroubles, had : SUBSET Troubles]
                        /\ trouble'.had = trouble.had
         /\ \A k : GoesWrong(k) =>
              /\ trouble' \in [stops : 0 .. MaxStops, count : 0 .. MaxTroubles, had : SUBSET Troubles]
              /\ trouble'.had = trouble.had \cup {k}
<1> DEFINE T == [stops : 0 .. MaxStops, count : 0 .. MaxTroubles, had : SUBSET Troubles]
<1>1. trouble \in T
  BY DEF TypeOK
<1>2. ASSUME OneStops
      PROVE  trouble' \in T /\ trouble'.had = trouble.had
  <2>1. PICK n \in 0 .. MaxStops : n = trouble.stops + 1
    BY <1>1, <1>2, BoundsAssumption DEF OneStops
  <2>2. trouble' = [trouble EXCEPT !.stops = n]
    BY <1>2, <2>1 DEF OneStops
  <2> QED
    BY <1>1, <2>2
<1>3. ASSUME NEW k, GoesWrong(k)
      PROVE  trouble' \in T /\ trouble'.had = trouble.had \cup {k}
  <2>1. PICK n \in 0 .. MaxTroubles : n = trouble.count + 1
    BY <1>1, <1>3, BoundsAssumption DEF GoesWrong
  <2>2. PICK h : h = trouble.had \cup {k}
    OBVIOUS
  <2>3. h \in SUBSET Troubles
    BY <1>1, <1>3, <2>2 DEF GoesWrong
  <2>4. trouble' = [trouble EXCEPT !.count = n, !.had = h]
    BY <1>3, <2>1, <2>2 DEF GoesWrong
  <2> QED
    BY <1>1, <2>2, <2>3, <2>4
<1> QED
  BY <1>2, <1>3

LEMMA ShapeInit == Init => Shape
<1> SUFFICES ASSUME Init PROVE Shape
  OBVIOUS
<1>1. /\ runner = NoWorker /\ pc = "idle" /\ pump = NewPump /\ job = NewJob /\ queue = "unsent"
      /\ record = Pending /\ stream = <<>> /\ trouble = [stops |-> 0, count |-> 0, had |-> {}]
  BY DEF Init
<1>2. reader \in [Readers -> Readings] /\ \A r \in Readers : reader[r] = Away
  BY Fresh DEF Init
<1>3. trouble \in [stops : 0 .. MaxStops, count : 0 .. MaxTroubles, had : SUBSET Troubles]
  BY <1>1, BoundsAssumption
<1>4. stream \in Seq(Frames)
  BY <1>1, EmptySeq
<1>5. tries \in 0 .. MaxTries
  BY BoundsAssumption DEF Init
<1>6. /\ ran \in Nat /\ requeue \in BOOLEAN /\ flag \in BOOLEAN /\ told \in {"no", "queued", "late"}
      /\ worker \in [Workers -> {"up", "stopping", "down"}] /\ beat \in [Workers -> BOOLEAN]
  BY DEF Init
<1>7. /\ queue \in {"unsent", "recorded", "queued", "taken", "gone"}
      /\ runner \in Workers \cup {NoWorker} /\ pc \in {"idle", "check", "load", "run", "close"}
      /\ record \in Snapshots
  BY <1>1, Fresh
<1>8. job \in Jobs /\ pump \in Pumps
  BY <1>1, Fresh
<1>9. TypeOK
  BY <1>2, <1>3, <1>4, <1>5, <1>6, <1>7, <1>8 DEF TypeOK, Readings, Jobs, Pumps
<1>10. PumpShape
  BY <1>1, Fresh DEF PumpShape
<1>11. ReaderShape
  BY <1>2, Fresh DEF ReaderShape
<1> QED
  BY <1>9, <1>10, <1>11 DEF Shape

\* The steps of the queue and of the job's coroutine.
LEMMA ShapeRun ==
  ASSUME Shape, QueueStep \/ RunStep \/ BodyEmits \/ BodyEnds
  PROVE  Shape'
<1>1. CASE SubmitRecords
  <2>1. record' \in Snapshots
    BY <1>1, Fresh DEF SubmitRecords
  <2> QED
    BY <1>1, <2>1 DEF SubmitRecords, Shape, TypeOK, PumpShape, ReaderShape, runVars, workerVars, cancelVars
<1>2. CASE SubmitEnqueues
  BY <1>2 DEF SubmitEnqueues, Shape, TypeOK, PumpShape, ReaderShape, runVars, workerVars, cancelVars
<1>3. CASE Redelivered
  BY <1>3 DEF Redelivered, Shape, TypeOK, PumpShape, ReaderShape, runVars, workerVars, cancelVars
<1>4. ASSUME NEW w \in Workers, PickUp(w)
      PROVE  Shape'
  <2>1. job' \in Jobs /\ pump' \in Pumps /\ pump'.added <= pump'.taken /\ pump'.taken <= job'.emitted
    BY <1>4, Fresh DEF PickUp
  <2>2. tries' \in 0 .. MaxTries
    BY <1>4, BoundsAssumption DEF PickUp, Shape, TypeOK
  <2>3. runner' = w /\ w # NoWorker
    BY <1>4, ProcessesAssumption DEF PickUp
  <2> QED
    BY <1>4, <2>1, <2>2, <2>3 DEF PickUp, Shape, TypeOK, Jobs, Pumps, PumpShape, ReaderShape, workerVars, cancelVars
<1>5. ASSUME NEW w \in Workers, Exhausted(w)
      PROVE  Shape'
  BY <1>5 DEF Exhausted, Shape, TypeOK, PumpShape, ReaderShape, runVars, workerVars, cancelVars
<1>6. CASE CheckCancelled
  <2>1. job' \in Jobs /\ job'.emitted = job.emitted + 1
    BY <1>6, EmitsIs DEF CheckCancelled, Statuses, Terminal
  <2> QED
    BY <1>6, <2>1 DEF CheckCancelled, Shape, TypeOK, Jobs, PumpShape, ReaderShape, queueVars, workerVars, cancelVars
<1>7. CASE CheckPasses
  BY <1>7 DEF CheckPasses, Shape, TypeOK, PumpShape, ReaderShape, queueVars, workerVars, cancelVars
<1>8. CASE Starts
  <2>1. job' \in Jobs /\ job'.emitted = job.emitted + 1
    BY <1>8, EmitsIs DEF Starts, Statuses, Terminal
  <2> QED
    BY <1>8, <2>1 DEF Starts, Shape, TypeOK, Jobs, PumpShape, ReaderShape, queueVars, workerVars, cancelVars
<1>9. ASSUME NEW st \in Terminal, Ends(st), UNCHANGED <<queueVars, runner, requeue, ran, workerVars, pump,
                                                        stream, record, cancelVars, reader, trouble>>
      PROVE  Shape'
  <2>1. job' \in Jobs /\ job'.emitted = job.emitted + 2
    BY <1>9, EmitsIs DEF Ends, Statuses
  <2> QED
    BY <1>9, <2>1 DEF Ends, Shape, TypeOK, Jobs, PumpShape, ReaderShape, queueVars, workerVars, cancelVars
<1>10. CASE WatchCancels
  BY <1>9, <1>10 DEF WatchCancels, Terminal
<1>11. CASE BodyEnds
  BY <1>9, <1>11 DEF BodyEnds, Terminal
<1>12. CASE BodyEmits
  <2>1. job' \in Jobs /\ job'.emitted = job.emitted + 1
    BY <1>12, EmitsIs DEF BodyEmits, Statuses, Terminal
  <2> QED
    BY <1>12, <2>1 DEF BodyEmits, Shape, TypeOK, Jobs, PumpShape, ReaderShape, queueVars, workerVars, cancelVars
<1>13. CASE Closed
  <2>1. job' \in Jobs /\ pump' \in Pumps /\ pump'.added <= pump'.taken /\ pump'.taken <= job'.emitted
    BY <1>13, Fresh DEF Closed
  <2>2. queue' \in {"queued", "gone"}
    BY <1>13 DEF Closed
  <2> QED
    BY <1>13, <2>1, <2>2 DEF Closed, Shape, TypeOK, Jobs, Pumps, PumpShape, ReaderShape, workerVars, cancelVars
<1> QED
  BY <1>1, <1>2, <1>3, <1>4, <1>5, <1>6, <1>7, <1>8, <1>10, <1>11, <1>12, <1>13 DEF QueueStep, RunStep

\* A pump that does something belongs to a worker.
LEMMA PumpHasRunner ==
  ASSUME Shape, PumpStep \/ PumpFails \/ PumpGivenUp
  PROVE  runner # NoWorker
<1>1. runner = NoWorker => pump.pc = "get" /\ pc = "idle"
  BY Fresh DEF Shape, PumpShape
<1> QED
  BY <1>1 DEF PumpStep, PumpTakes, PumpAdds, PumpSnaps, PumpStores, PumpFails, PumpGivenUp

\* The steps of the pump.
LEMMA ShapePump ==
  ASSUME Shape, PumpStep \/ PumpFails \/ PumpGivenUp
  PROVE  Shape'
<1>1. \/ UNCHANGED trouble
      \/ trouble' \in [stops : 0 .. MaxStops, count : 0 .. MaxTroubles, had : SUBSET Troubles]
  BY TroubleIs DEF PumpStep, PumpTakes, PumpAdds, PumpSnaps, PumpStores, PumpFails, PumpGivenUp, Shape
<1>2. UNCHANGED <<queueVars, runVars, workerVars, cancelVars, reader>>
  BY DEF PumpStep, PumpTakes, PumpAdds, PumpSnaps, PumpStores, PumpFails, PumpGivenUp
<1>3. ReaderShape'
  BY <1>2 DEF Shape, ReaderShape
<1>4. pump' \in Pumps /\ pump'.added <= pump'.taken /\ pump'.taken <= job.emitted
  <2>0. pump \in Pumps /\ pump.added <= pump.taken /\ pump.taken <= job.emitted
        /\ pump.taken \in Nat /\ pump.added \in Nat
    BY DEF Shape, TypeOK, PumpShape, Pumps
  <2>1. CASE PumpTakes
    <3>1. pump'.taken \in Nat /\ pump'.added = pump.added /\ pump.taken <= pump'.taken
          /\ pump'.taken <= job.emitted /\ pump' \in Pumps
      BY <2>1, PumpTakesIs DEF Pumps
    <3> QED
      BY <2>0, <3>1
  <2>2. CASE PumpAdds
    BY <2>0, <2>2, PumpAddsIs
  <2>3. CASE PumpSnaps
    BY <2>0, <2>3, PumpSnapsIs
  <2>4. CASE PumpStores
    BY <2>0, <2>4, PumpStoresIs
  <2>5. CASE PumpFails
    BY <2>0, <2>5, PumpFailsIs
  <2>6. CASE PumpGivenUp
    BY <2>0, <2>6, CutIs DEF PumpGivenUp
  <2> QED
    BY <2>1, <2>2, <2>3, <2>4, <2>5, <2>6 DEF PumpStep
<1>5. runner # NoWorker
  BY PumpHasRunner
<1>6. stream' \in Seq(Frames) /\ record' \in Snapshots
  BY PumpAddsIs, PumpStoresIs DEF PumpStep, PumpTakes, PumpSnaps, PumpAdds, PumpStores, PumpFails, PumpGivenUp, Shape, TypeOK
<1>7. TypeOK'
  BY <1>1, <1>2, <1>4, <1>6 DEF Shape, TypeOK, Pumps, queueVars, runVars, workerVars, cancelVars
<1>8. PumpShape'
  BY <1>2, <1>4, <1>5 DEF Shape, PumpShape, queueVars, runVars
<1> QED
  BY <1>3, <1>7, <1>8 DEF Shape

\* The steps of the processes, of time, and what goes wrong elsewhere.
LEMMA ShapeWorkers ==
  ASSUME Shape, TimeStep \/ SubmitBreaks \/ StartFails \/ FlagExpires \/ \E w \in Workers : WorkerDies(w) \/ WorkerStops(w)
  PROVE  Shape'
<1> DEFINE T == [stops : 0 .. MaxStops, count : 0 .. MaxTroubles, had : SUBSET Troubles]
<1>1. TypeOK /\ trouble \in T
  BY DEF Shape, TypeOK
<1>2. CASE RecordAges
  <2>1. record' \in Snapshots
    BY <1>1, <1>2 DEF RecordAges, TypeOK, Snapshots
  <2> QED
    BY <1>2, <2>1 DEF RecordAges, Shape, TypeOK, PumpShape, ReaderShape, queueVars, runVars, workerVars, cancelVars
<1>3. ASSUME NEW w \in Workers, BeatExpires(w) \/ Beats(w) \/ WorkerStopped(w)
      PROVE  Shape'
  <2>1. trouble' \in T
    BY <1>1, <1>3, TroubleIs DEF BeatExpires, Beats, WorkerStopped
  <2>2. beat' \in [Workers -> BOOLEAN] /\ worker' \in [Workers -> {"up", "stopping", "down"}]
    BY <1>1, <1>3 DEF BeatExpires, Beats, WorkerStopped, TypeOK
  <2>3. UNCHANGED <<queueVars, runVars, pump, stream, record, cancelVars, reader>>
    BY <1>3 DEF BeatExpires, Beats, WorkerStopped
  <2> QED
    BY <2>1, <2>2, <2>3 DEF Shape, TypeOK, PumpShape, ReaderShape, queueVars, runVars, cancelVars
<1>4. CASE SubmitBreaks
  <2>1. trouble' \in T
    BY <1>1, <1>4, TroubleIs DEF SubmitBreaks
  <2> QED
    BY <1>4, <2>1 DEF SubmitBreaks, Shape, TypeOK, PumpShape, ReaderShape, runVars, workerVars, cancelVars
<1>5. CASE StartFails
  <2>1. trouble' \in T
    BY <1>1, <1>5, TroubleIs DEF StartFails
  <2> QED
    BY <1>5, <2>1 DEF StartFails, Shape, TypeOK, PumpShape, ReaderShape, queueVars, workerVars, cancelVars
<1>6. CASE FlagExpires
  <2>1. trouble' \in T
    BY <1>1, <1>6, TroubleIs DEF FlagExpires
  <2> QED
    BY ZenonT(40), <1>6, <2>1 DEF FlagExpires, Shape, TypeOK, PumpShape, ReaderShape, queueVars, runVars, workerVars
<1>7. ASSUME NEW w \in Workers, WorkerDies(w)
      PROVE  Shape'
  <2>1. trouble' \in T /\ worker' \in [Workers -> {"up", "stopping", "down"}]
    BY <1>1, <1>7, TroubleIs DEF WorkerDies, TypeOK
  <2>2. UNCHANGED <<queueVars, ran, beat, stream, record, cancelVars, reader>>
    BY <1>7 DEF WorkerDies
  <2>3. CASE runner = w
    <3>1. runner' = NoWorker /\ pc' = "idle" /\ requeue' = FALSE /\ job' = NewJob /\ pump' = NewPump
      BY <1>7, <2>3 DEF WorkerDies
    <3>2. job' \in Jobs /\ pump' \in Pumps /\ pump'.added <= pump'.taken /\ pump'.taken <= job'.emitted
      BY <3>1, Fresh
    <3> QED
      BY <2>1, <2>2, <3>1, <3>2 DEF Shape, TypeOK, Jobs, Pumps, PumpShape, ReaderShape, queueVars, cancelVars
  <2>4. CASE runner # w
    <3>1. UNCHANGED <<runner, pc, requeue, job, pump>>
      BY <1>7, <2>4 DEF WorkerDies
    <3> QED
      BY <2>1, <2>2, <3>1 DEF Shape, TypeOK, PumpShape, ReaderShape, queueVars, cancelVars
  <2> QED
    BY <2>3, <2>4
<1>8. ASSUME NEW w \in Workers, WorkerStops(w)
      PROVE  Shape'
  <2>1. trouble' \in T /\ worker' \in [Workers -> {"up", "stopping", "down"}]
    BY <1>1, <1>8, TroubleIs DEF WorkerStops, TypeOK
  <2>2. UNCHANGED <<queueVars, runner, ran, beat, stream, record, cancelVars, reader>>
    BY <1>8 DEF WorkerStops
  <2>3. /\ pump' \in Pumps /\ pump'.added = pump.added /\ pump'.taken = pump.taken
        /\ job' \in Jobs /\ job.emitted <= job'.emitted
        /\ pc' \in {"idle", "check", "load", "run", "close"} /\ requeue' \in BOOLEAN
        /\ runner = NoWorker => UNCHANGED <<pc, pump>>
    <3>1. pump \in Pumps /\ job \in Jobs /\ job.emitted \in Nat /\ requeue \in BOOLEAN
          /\ pc \in {"idle", "check", "load", "run", "close"} /\ w # NoWorker
      BY <1>1, ProcessesAssumption DEF TypeOK, Pumps, Jobs
    <3>2. CASE UNCHANGED <<pc, requeue, job, pump>>
      BY <3>1, <3>2
    <3>3. CASE runner = w /\ Ends("cancelled") /\ UNCHANGED <<requeue, pump>>
      <4>1. job' \in Jobs /\ job'.emitted = job.emitted + 2
        BY <3>3, EmitsIs DEF Ends, Statuses, Terminal
      <4> QED
        BY <3>1, <3>3, <4>1 DEF Ends
    <3>4. CASE runner = w /\ pc' = "close" /\ requeue' = TRUE /\ UNCHANGED <<job, pump>>
      BY <3>1, <3>4
    <3>5. CASE runner = w /\ requeue' = TRUE /\ pump' = [pump EXCEPT !.pc = "over", !.snap = Pending]
               /\ UNCHANGED <<pc, job>>
      BY <3>1, <3>5, CutIs
    <3> QED
      BY <1>8, <3>2, <3>3, <3>4, <3>5 DEF WorkerStops
  <2>4. PumpShape'
    <3>1. pump.taken \in Nat /\ job.emitted \in Nat /\ job'.emitted \in Nat
      BY <1>1, <2>3 DEF TypeOK, Jobs
    <3> QED
      BY <2>2, <2>3, <3>1 DEF Shape, PumpShape, queueVars
  <2> QED
    BY <2>1, <2>2, <2>3, <2>4 DEF Shape, TypeOK, Jobs, Pumps, ReaderShape, queueVars, cancelVars
<1> QED
  BY <1>2, <1>3, <1>4, <1>5, <1>6, <1>7, <1>8 DEF TimeStep

\* The steps of the readers.
LEMMA ShapeReaders ==
  ASSUME Shape, NEW r \in Readers, ReaderStep(r) \/ \E aim \in {"follow", "cancel"} : Begins(r, aim)
  PROVE  Shape'
<1>1. UNCHANGED <<queueVars, runVars, workerVars, pump, trouble>>
  BY DEF ReaderStep, Begins, OwnerLookedUp, Declares, DeclareStored, Gets, LooksAgain, FlagSets
<1>2. \E x : Becomes(r, x) /\ (x.pc \in {"exists", "declare", "store", "tail"} => x.aim # "none")
             /\ (x.pc = "store" => x.snap.status = "error")
             /\ (x.pc = "tail" => x.aim = "again")
  <2>0. TypeOK
    BY DEF Shape
  <2>1. CASE OwnerLookedUp(r)
    BY <2>1, LookUpIs
  <2>2. CASE Declares(r)
    BY <2>2, DeclaresIs
  <2>3. CASE DeclareStored(r)
    BY <2>3, StoredIs
  <2>4. CASE Gets(r)
    <3>1. reader[r].aim = "again"
      BY <2>4, GetsIs DEF Shape, ReaderShape
    <3> QED
      BY <2>4, <3>1, GetsIs
  <2>5. CASE LooksAgain(r)
    BY <2>0, <2>5, LooksIs DEF LooksAgain
  <2>6. CASE FlagSets(r)
    BY <2>6, FlagSetsIs
  <2>7. ASSUME NEW aim \in {"follow", "cancel"}, Begins(r, aim)
        PROVE  \E x : Becomes(r, x) /\ (x.pc \in {"exists", "declare", "store", "tail"} => x.aim # "none")
                      /\ (x.pc = "store" => x.snap.status = "error")
                      /\ (x.pc = "tail" => x.aim = "again")
             /\ (x.pc = "tail" => x.aim = "again")
    <3>1. Looks(r, aim) /\ aim \in {"follow", "again", "cancel"}
      BY <2>7 DEF Begins
    <3> QED
      BY <2>0, <3>1, LooksIs
  <2> QED
    BY <2>1, <2>2, <2>3, <2>4, <2>5, <2>6, <2>7 DEF ReaderStep
<1>3. reader' \in [Readers -> Readings] /\ ReaderShape'
  BY <1>2 DEF Becomes, Shape, ReaderShape
<1>4. stream' \in Seq(Frames)
  BY DeclaresIs DEF ReaderStep, Begins, OwnerLookedUp, Declares, DeclareStored, Gets, LooksAgain, FlagSets, Shape, TypeOK
<1>5. record' \in Snapshots
  <2>1. record \in Snapshots /\ reader[r] \in Readings
    BY DEF Shape, TypeOK, Readings
  <2>2. reader[r].snap \in Snapshots
    BY <2>1 DEF Readings
  <2> QED
    BY <2>1, <2>2 DEF ReaderStep, Begins, OwnerLookedUp, Declares, DeclareStored, Gets, LooksAgain, FlagSets
<1>6. flag' \in BOOLEAN /\ told' \in {"no", "queued", "late"}
  BY DEF ReaderStep, Begins, OwnerLookedUp, Declares, DeclareStored, Gets, LooksAgain, FlagSets, Shape, TypeOK, cancelVars
<1>7. TypeOK'
  BY <1>1, <1>3, <1>4, <1>5, <1>6 DEF Shape, TypeOK, Readings, queueVars, runVars, workerVars
<1> QED
  BY <1>1, <1>3, <1>7 DEF Shape, PumpShape, queueVars, runVars

LEMMA ShapeStep == Shape /\ [Next]_vars => Shape'
<1> SUFFICES ASSUME Shape, [Next]_vars PROVE Shape'
  OBVIOUS
<1>1. CASE UNCHANGED vars
  BY <1>1 DEF vars, Shape, TypeOK, PumpShape, ReaderShape, queueVars, runVars, workerVars, cancelVars
<1>2. CASE Next
  BY <1>2, ShapeRun, ShapePump, ShapeWorkers, ShapeReaders DEF Next, Trouble
<1> QED
  BY <1>1, <1>2

-----------------------------------------------------------------------------
(* How often the job runs.                                                 *)

\* The steps that matter to it.
LEMMA RunIs ==
  ASSUME Shape, [Next]_vars
  PROVE  \/ UNCHANGED <<pc, ran, tries>>
         \/ pc = "idle" /\ pc' = "check" /\ tries' = tries + 1 /\ UNCHANGED ran
         \/ pc = "check" /\ ~flag /\ pc' = "load" /\ UNCHANGED <<ran, tries>>
         \/ pc = "load" /\ pc' = "run" /\ ran' = ran + 1 /\ UNCHANGED tries
         \/ pc' \in {"idle", "close"} /\ UNCHANGED <<ran, tries>>
<1> DEFINE Goal ==
      \/ UNCHANGED <<pc, ran, tries>>
      \/ pc = "idle" /\ pc' = "check" /\ tries' = tries + 1 /\ UNCHANGED ran
      \/ pc = "check" /\ ~flag /\ pc' = "load" /\ UNCHANGED <<ran, tries>>
      \/ pc = "load" /\ pc' = "run" /\ ran' = ran + 1 /\ UNCHANGED tries
      \/ pc' \in {"idle", "close"} /\ UNCHANGED <<ran, tries>>
<1>1. CASE QueueStep
  <2>1. \A w \in Workers : PickUp(w) => pc = "idle"
    BY DEF PickUp, Shape, PumpShape
  <2> QED
    BY <1>1, <2>1 DEF QueueStep, SubmitRecords, SubmitEnqueues, Redelivered, PickUp, Exhausted, runVars
<1>2. CASE RunStep \/ BodyEmits \/ BodyEnds
  BY <1>2 DEF RunStep, CheckCancelled, CheckPasses, Starts, WatchCancels, Closed, BodyEmits, BodyEnds, Ends, queueVars
<1>3. CASE PumpStep \/ TimeStep
  BY <1>3 DEF PumpStep, PumpTakes, PumpAdds, PumpSnaps, PumpStores, TimeStep, RecordAges, BeatExpires,
              Beats, WorkerStopped, queueVars, runVars
<1>4. CASE Trouble
  <2>1. ASSUME NEW w \in Workers, WorkerDies(w)
        PROVE  Goal
    BY <2>1 DEF WorkerDies, queueVars
  <2>2. ASSUME NEW w \in Workers, WorkerStops(w)
        PROVE  Goal
    BY <2>2 DEF WorkerStops, Ends, queueVars
  <2>3. CASE SubmitBreaks \/ StartFails \/ PumpFails \/ PumpGivenUp \/ FlagExpires
    BY <2>3 DEF SubmitBreaks, StartFails, PumpFails, PumpGivenUp, FlagExpires, queueVars, runVars
  <2> QED
    BY <1>4, <2>1, <2>2, <2>3 DEF Trouble
<1>5. ASSUME NEW r \in Readers, ReaderStep(r) \/ \E aim \in {"follow", "cancel"} : Begins(r, aim)
      PROVE  Goal
  BY <1>5 DEF ReaderStep, Begins, OwnerLookedUp, Declares, DeclareStored, Gets, LooksAgain, FlagSets,
              queueVars, runVars
<1>6. CASE UNCHANGED vars
  BY <1>6 DEF vars, queueVars, runVars
<1> QED
  BY <1>1, <1>2, <1>3, <1>4, <1>5, <1>6 DEF Next

LEMMA RunsStep ==
  ASSUME Shape, RunsInv, [Next]_vars
  PROVE  RunsInv'
<1>1. ran \in Nat /\ tries \in Nat
  BY DEF Shape, TypeOK
<1> QED
  BY <1>1, RunIs DEF RunsInv

-----------------------------------------------------------------------------
(* Cancelling a job in the queue.                                          *)

LEMMA CancelIs ==
  ASSUME Shape, [Next]_vars
  PROVE  \/ UNCHANGED <<flag, told>>
         \/ flag' = FALSE /\ told' = told /\ "hour" \in trouble'.had
         \/ /\ flag' = TRUE /\ UNCHANGED <<pc, ran>>
            /\ (told' = told /\ told # "no") \/ told' = "late" \/ (told' = "queued" /\ ran = 0 /\ pc = "idle")
<1> DEFINE Goal ==
      \/ UNCHANGED <<flag, told>>
      \/ flag' = FALSE /\ told' = told /\ "hour" \in trouble'.had
      \/ /\ flag' = TRUE /\ UNCHANGED <<pc, ran>>
         /\ (told' = told /\ told # "no") \/ told' = "late" \/ (told' = "queued" /\ ran = 0 /\ pc = "idle")
<1>1. CASE QueueStep \/ RunStep \/ BodyEmits \/ BodyEnds
  BY <1>1 DEF QueueStep, SubmitRecords, SubmitEnqueues, Redelivered, PickUp, Exhausted,
              RunStep, CheckCancelled, CheckPasses, Starts, WatchCancels, Closed, BodyEmits, BodyEnds, cancelVars
<1>2. CASE PumpStep \/ TimeStep
  BY <1>2 DEF PumpStep, PumpTakes, PumpAdds, PumpSnaps, PumpStores, TimeStep, RecordAges, BeatExpires,
              Beats, WorkerStopped, cancelVars
<1>3. CASE Trouble
  <2>1. CASE FlagExpires
    <3>1. "hour" \in trouble'.had
      BY <2>1, TroubleIs DEF FlagExpires, Shape
    <3> QED
      BY <2>1, <3>1 DEF FlagExpires
  <2>2. ASSUME NEW w \in Workers, WorkerDies(w) \/ WorkerStops(w)
        PROVE  Goal
    BY <2>2 DEF WorkerDies, WorkerStops, cancelVars
  <2>3. CASE SubmitBreaks \/ StartFails \/ PumpFails \/ PumpGivenUp
    BY <2>3 DEF SubmitBreaks, StartFails, PumpFails, PumpGivenUp, cancelVars
  <2> QED
    BY <1>3, <2>1, <2>2, <2>3 DEF Trouble
<1>4. ASSUME NEW r \in Readers, ReaderStep(r) \/ \E aim \in {"follow", "cancel"} : Begins(r, aim)
      PROVE  Goal
  <2>1. CASE FlagSets(r)
    <3>1. queue \in {"recorded", "queued"} => pc = "idle"
      BY DEF Shape, PumpShape
    <3>2. flag' = TRUE /\ UNCHANGED <<pc, ran>>
      BY <2>1 DEF FlagSets, runVars
    <3>3. \/ told' = told /\ told # "no"
          \/ told' = "late"
          \/ told' = "queued" /\ ran = 0 /\ queue \in {"recorded", "queued"}
      BY <2>1 DEF FlagSets
    <3> QED
      BY <3>1, <3>2, <3>3
  <2>2. CASE ~FlagSets(r)
    BY <1>4, <2>2 DEF ReaderStep, Begins, OwnerLookedUp, Declares, DeclareStored, Gets, LooksAgain, cancelVars
  <2> QED
    BY <2>1, <2>2
<1>5. CASE UNCHANGED vars
  BY <1>5 DEF vars, cancelVars
<1> QED
  BY <1>1, <1>2, <1>3, <1>4, <1>5 DEF Next

\* What went wrong stays on the account.
LEMMA HadGrows ==
  ASSUME Shape, [Next]_vars
  PROVE  trouble.had \subseteq trouble'.had
<1>1. TypeOK
  BY DEF Shape
<1>2. CASE QueueStep \/ RunStep \/ BodyEmits \/ BodyEnds \/ PumpStep \/ UNCHANGED vars
  BY <1>2 DEF QueueStep, SubmitRecords, SubmitEnqueues, Redelivered, PickUp, Exhausted,
              RunStep, CheckCancelled, CheckPasses, Starts, WatchCancels, Closed, BodyEmits, BodyEnds,
              PumpStep, PumpTakes, PumpAdds, PumpSnaps, PumpStores, vars
<1>3. CASE TimeStep
  <2>1. ASSUME NEW w \in Workers, BeatExpires(w)
        PROVE  trouble.had \subseteq trouble'.had
    BY <1>1, <2>1, TroubleIs DEF BeatExpires
  <2> QED
    BY <1>3, <2>1 DEF TimeStep, RecordAges, Beats, WorkerStopped
<1>4. CASE Trouble
  <2>1. OneStops \/ \E k : GoesWrong(k)
    BY <1>4 DEF Trouble, SubmitBreaks, StartFails, PumpFails, PumpGivenUp, FlagExpires, WorkerDies, WorkerStops
  <2> QED
    BY <1>1, <2>1, TroubleIs
<1>5. ASSUME NEW r \in Readers, ReaderStep(r) \/ \E aim \in {"follow", "cancel"} : Begins(r, aim)
      PROVE  trouble.had \subseteq trouble'.had
  BY <1>5 DEF ReaderStep, Begins, OwnerLookedUp, Declares, DeclareStored, Gets, LooksAgain, FlagSets
<1> QED
  BY <1>2, <1>3, <1>4, <1>5 DEF Next

LEMMA CancelStep ==
  ASSUME Shape, CancelInv, [Next]_vars
  PROVE  CancelInv'
<1>1. "hour" \notin trouble'.had => "hour" \notin trouble.had
  BY HadGrows
<1>2. told' # "no" /\ "hour" \notin trouble'.had => flag'
  BY <1>1, CancelIs DEF CancelInv
<1>3. ASSUME told' = "queued", "hour" \notin trouble'.had
      PROVE  ran' = 0 /\ pc' \notin {"load", "run"}
  <2>1. told = "queued" /\ flag /\ ran = 0 /\ pc \notin {"load", "run"} => ran' = 0 /\ pc' \notin {"load", "run"}
    BY RunIs
  <2>2. told = "queued" => told = "queued" /\ flag /\ ran = 0 /\ pc \notin {"load", "run"}
    BY <1>1, <1>3 DEF CancelInv
  <2>3. told # "queued" => UNCHANGED <<pc, ran>> /\ ran = 0 /\ pc = "idle"
    BY <1>3, CancelIs
  <2> QED
    BY <2>1, <2>2, <2>3
<1> QED
  BY <1>2, <1>3 DEF CancelInv

-----------------------------------------------------------------------------
(* Who is taken for gone.                                                  *)

\* The steps of the readers, one at a time.
LEMMA ReaderMoves ==
  ASSUME Shape, [Next]_vars
  PROVE  \/ UNCHANGED reader
         \/ \E r \in Readers, aim \in {"follow", "again", "cancel"} :
              /\ TypeOK /\ Looks(r, aim) /\ UNCHANGED <<queueVars, runVars, workerVars, pump, stream, record, trouble>>
              /\ aim = "again" => reader[r].pc = "tail" /\ reader[r].aim # "none"
         \/ \E r \in Readers : OwnerLookedUp(r) \/ Declares(r) \/ DeclareStored(r) \/ Gets(r) \/ FlagSets(r)
<1> DEFINE Goal ==
      \/ UNCHANGED reader
      \/ \E r \in Readers, aim \in {"follow", "again", "cancel"} :
           /\ TypeOK /\ Looks(r, aim) /\ UNCHANGED <<queueVars, runVars, workerVars, pump, stream, record, trouble>>
           /\ aim = "again" => reader[r].pc = "tail" /\ reader[r].aim # "none"
      \/ \E r \in Readers : OwnerLookedUp(r) \/ Declares(r) \/ DeclareStored(r) \/ Gets(r) \/ FlagSets(r)
<1>1. CASE QueueStep \/ RunStep \/ BodyEmits \/ BodyEnds
  BY <1>1 DEF QueueStep, SubmitRecords, SubmitEnqueues, Redelivered, PickUp, Exhausted,
              RunStep, CheckCancelled, CheckPasses, Starts, WatchCancels, Closed, BodyEmits, BodyEnds
<1>2. CASE PumpStep \/ TimeStep \/ Trouble
  BY <1>2 DEF PumpStep, PumpTakes, PumpAdds, PumpSnaps, PumpStores, TimeStep, RecordAges, BeatExpires,
              Beats, WorkerStopped, Trouble, SubmitBreaks, StartFails, PumpFails, PumpGivenUp, FlagExpires,
              WorkerDies, WorkerStops
<1>3. ASSUME NEW r \in Readers, ReaderStep(r) \/ \E aim \in {"follow", "cancel"} : Begins(r, aim)
      PROVE  Goal
  <2>1. CASE LooksAgain(r)
    <3>1. reader[r].pc = "tail" /\ reader[r].aim # "none" /\ TypeOK
      BY <2>1 DEF LooksAgain, Shape, ReaderShape
    <3>2. Looks(r, "again") /\ UNCHANGED <<queueVars, runVars, workerVars, pump, stream, record, trouble>>
      BY <2>1 DEF LooksAgain
    <3> QED
      BY <3>1, <3>2
  <2>2. ASSUME NEW aim \in {"follow", "cancel"}, Begins(r, aim)
        PROVE  Goal
    <3>1. TypeOK /\ Looks(r, aim) /\ UNCHANGED <<queueVars, runVars, workerVars, pump, stream, record, trouble>>
      BY <2>2 DEF Begins, Shape
    <3>2. aim \in {"follow", "again", "cancel"} /\ aim # "again"
      BY <2>2
    <3> QED
      BY <3>1, <3>2
  <2> QED
    BY <1>3, <2>1, <2>2 DEF ReaderStep
<1>4. CASE UNCHANGED vars
  BY <1>4 DEF vars
<1> QED
  BY <1>1, <1>2, <1>3, <1>4 DEF Next

\* The steps of the record and of the pump's snapshot.
LEMMA RecordIs ==
  ASSUME Shape, [Next]_vars
  PROVE  \/ UNCHANGED record
         \/ record' = Pending /\ tries' = tries /\ UNCHANGED <<runVars, pump, stream, reader, trouble>> /\ queue = "unsent"
         \/ PumpStores
         \/ RecordAges
         \/ \E r \in Readers : DeclareStored(r)
<1>1. CASE QueueStep \/ RunStep \/ BodyEmits \/ BodyEnds
  BY <1>1 DEF QueueStep, SubmitRecords, SubmitEnqueues, Redelivered, PickUp, Exhausted,
              RunStep, CheckCancelled, CheckPasses, Starts, WatchCancels, Closed, BodyEmits, BodyEnds
<1>2. CASE PumpStep \/ TimeStep \/ Trouble
  BY <1>2 DEF PumpStep, PumpTakes, PumpAdds, PumpSnaps, TimeStep, BeatExpires,
              Beats, WorkerStopped, Trouble, SubmitBreaks, StartFails, PumpFails, PumpGivenUp, FlagExpires,
              WorkerDies, WorkerStops
<1>3. ASSUME NEW r \in Readers, ReaderStep(r) \/ \E aim \in {"follow", "cancel"} : Begins(r, aim)
      PROVE  UNCHANGED record \/ DeclareStored(r)
  BY <1>3 DEF ReaderStep, Begins, OwnerLookedUp, Declares, Gets, LooksAgain, FlagSets
<1>4. CASE UNCHANGED vars
  BY <1>4 DEF vars
<1> QED
  BY <1>1, <1>2, <1>3, <1>4 DEF Next

LEMMA PumpIs ==
  ASSUME Shape, [Next]_vars
  PROVE  \/ pump'.pc # "store"
         \/ UNCHANGED pump
         \/ PumpSnaps
<1>1. NewPump.pc # "store"
  BY Fresh
<1>2. CASE QueueStep \/ RunStep \/ BodyEmits \/ BodyEnds
  BY <1>1, <1>2 DEF QueueStep, SubmitRecords, SubmitEnqueues, Redelivered, PickUp, Exhausted,
              RunStep, CheckCancelled, CheckPasses, Starts, WatchCancels, Closed, BodyEmits, BodyEnds
<1>3. CASE PumpStep
  BY <1>3, PumpTakesIs, PumpAddsIs, PumpStoresIs DEF PumpStep
<1>4. CASE TimeStep \/ UNCHANGED vars
  BY <1>4 DEF TimeStep, RecordAges, BeatExpires, Beats, WorkerStopped, vars
<1>5. CASE Trouble
  <2>1. ASSUME NEW w \in Workers, WorkerDies(w)
        PROVE  pump'.pc # "store" \/ UNCHANGED pump
    BY <1>1, <2>1 DEF WorkerDies
  <2>2. ASSUME NEW w \in Workers, WorkerStops(w)
        PROVE  pump'.pc # "store" \/ UNCHANGED pump
    BY <2>2, CutIs DEF WorkerStops
  <2>3. PumpFails \/ PumpGivenUp => pump'.pc # "store"
    BY PumpFailsIs, CutIs DEF PumpGivenUp
  <2> QED
    BY <1>5, <2>1, <2>2, <2>3 DEF Trouble, SubmitBreaks, StartFails, FlagExpires
<1>6. ASSUME NEW r \in Readers, ReaderStep(r) \/ \E aim \in {"follow", "cancel"} : Begins(r, aim)
      PROVE  UNCHANGED pump
  BY <1>6 DEF ReaderStep, Begins, OwnerLookedUp, Declares, DeclareStored, Gets, LooksAgain, FlagSets
<1> QED
  BY <1>2, <1>3, <1>4, <1>5, <1>6 DEF Next

LEMMA OwnersStep ==
  ASSUME Shape, OwnersInv, [Next]_vars
  PROVE  OwnersInv'
<1>1. record'.status = "running" => record'.owner \in Workers
  <2>1. CASE UNCHANGED record
    BY <2>1 DEF OwnersInv
  <2>2. CASE record' = Pending
    BY <2>2, Fresh
  <2>3. CASE PumpStores
    BY <2>3, PumpStoresIs DEF OwnersInv, PumpStores
  <2>4. CASE RecordAges
    <3>1. record \in Snapshots
      BY DEF Shape, TypeOK
    <3> QED
      BY <2>4, <3>1 DEF RecordAges, OwnersInv, Snapshots
  <2>5. ASSUME NEW r \in Readers, DeclareStored(r)
        PROVE  record'.status # "running"
    BY <2>5 DEF DeclareStored, Shape, ReaderShape
  <2> QED
    BY <2>1, <2>2, <2>3, <2>4, <2>5, RecordIs
<1>2. pump'.pc = "store" => pump'.snap.owner \in Workers
  <2>1. CASE PumpSnaps
    <3>1. runner # NoWorker /\ runner \in Workers \cup {NoWorker}
      BY <2>1, PumpHasRunner DEF PumpStep, Shape, TypeOK
    <3> QED
      BY <2>1, <3>1, PumpSnapsIs
  <2> QED
    BY <2>1, PumpIs DEF OwnersInv
<1>3. ASSUME NEW q \in Readers
      PROVE  reader'[q].pc \in {"exists", "declare", "store"} => reader'[q].snap.owner \in Workers
  <2> DEFINE Goal == reader'[q].pc \in {"exists", "declare", "store"} => reader'[q].snap.owner \in Workers
  <2>1. reader[q].pc \in {"exists", "declare", "store"} => reader[q].snap.owner \in Workers
    BY DEF OwnersInv
  <2>2. ASSUME NEW r \in Readers, NEW x, Becomes(r, x),
               x.pc \in {"exists", "declare", "store"} => x.snap.owner \in Workers
        PROVE  Goal
    BY <2>1, <2>2 DEF Becomes
  <2>3. ASSUME NEW r \in Readers, NEW aim \in {"follow", "again", "cancel"}, TypeOK, Looks(r, aim)
        PROVE  Goal
    <3>1. PICK x : /\ Becomes(r, x)
                   /\ \/ x.pc = "exists" /\ x.snap = record /\ record.status = "running"
                      \/ x.pc \in {"over", "tail", "flag"}
      BY <2>3, LooksIs
    <3> QED
      BY <2>2, <3>1 DEF OwnersInv
  <2>4. ASSUME NEW r \in Readers, OwnerLookedUp(r)
        PROVE  Goal
    <3>1. reader[r].snap.owner \in Workers
      BY <2>4 DEF OwnersInv, OwnerLookedUp
    <3>2. PICK x : /\ Becomes(r, x)
                   /\ \/ x.pc = "declare" /\ x.snap = reader[r].snap
                      \/ x.pc \in {"over", "tail", "flag"}
      BY <2>4, LookUpIs
    <3> QED
      BY <2>2, <3>1, <3>2
  <2>5. ASSUME NEW r \in Readers, Declares(r)
        PROVE  Goal
    <3>1. PICK x : Becomes(r, x) /\ x.snap.owner = reader[r].snap.owner /\ reader[r].pc = "declare"
      BY <2>5, DeclaresIs
    <3> QED
      BY <2>2, <3>1 DEF OwnersInv
  <2>6. ASSUME NEW r \in Readers, DeclareStored(r) \/ FlagSets(r) \/ Gets(r)
        PROVE  Goal
    <3>1. PICK x : Becomes(r, x) /\ x.pc \in {"over", "tail"}
      BY <2>6, StoredIs, FlagSetsIs, GetsIs
    <3> QED
      BY <2>2, <3>1
  <2> QED
    BY <2>1, <2>3, <2>4, <2>5, <2>6, ReaderMoves
<1> QED
  BY <1>1, <1>2, <1>3 DEF OwnersInv

\* A process that is up was up before, and beats.
LEMMA WorkersAre ==
  ASSUME Shape, [Next]_vars
  PROVE  \A w \in Workers : worker'[w] = "up" =>
           worker[w] = "up" /\ (beat[w] /\ ~beat'[w] => "late" \in trouble'.had)
<1>1. TypeOK /\ worker \in [Workers -> {"up", "stopping", "down"}] /\ beat \in [Workers -> BOOLEAN]
  BY DEF Shape, TypeOK
<1>2. CASE UNCHANGED workerVars
  BY <1>2 DEF workerVars
<1>3. ASSUME NEW v \in Workers, BeatExpires(v)
      PROVE  \A w \in Workers : worker'[w] = "up" =>
               worker[w] = "up" /\ (beat[w] /\ ~beat'[w] => "late" \in trouble'.had)
  <2>1. GoesWrong("late") => "late" \in trouble'.had
    BY <1>1, TroubleIs
  <2> QED
    BY <1>1, <1>3, <2>1 DEF BeatExpires
<1>4. ASSUME NEW v \in Workers, Beats(v) \/ WorkerStopped(v) \/ WorkerDies(v) \/ WorkerStops(v)
      PROVE  \A w \in Workers : worker'[w] = "up" =>
               worker[w] = "up" /\ (beat[w] /\ ~beat'[w] => "late" \in trouble'.had)
  BY <1>1, <1>4 DEF Beats, WorkerStopped, WorkerDies, WorkerStops
<1>5. CASE QueueStep \/ RunStep \/ BodyEmits \/ BodyEnds \/ PumpStep \/ RecordAges
           \/ SubmitBreaks \/ StartFails \/ PumpFails \/ PumpGivenUp \/ FlagExpires \/ UNCHANGED vars
  <2>1. UNCHANGED workerVars
    BY <1>5 DEF QueueStep, SubmitRecords, SubmitEnqueues, Redelivered, PickUp, Exhausted,
                RunStep, CheckCancelled, CheckPasses, Starts, WatchCancels, Closed, BodyEmits, BodyEnds,
                PumpStep, PumpTakes, PumpAdds, PumpSnaps, PumpStores, RecordAges,
                SubmitBreaks, StartFails, PumpFails, PumpGivenUp, FlagExpires, vars
  <2> QED
    BY <1>2, <2>1
<1>6. ASSUME NEW r \in Readers, ReaderStep(r) \/ \E aim \in {"follow", "cancel"} : Begins(r, aim)
      PROVE  UNCHANGED workerVars
  BY <1>6 DEF ReaderStep, Begins, OwnerLookedUp, Declares, DeclareStored, Gets, LooksAgain, FlagSets
<1> QED
  BY <1>2, <1>3, <1>4, <1>5, <1>6 DEF Next, TimeStep, Trouble

LEMMA BeatStep ==
  ASSUME Shape, OwnersInv, BeatInv, [Next]_vars
  PROVE  BeatInv'
<1> SUFFICES ASSUME "late" \notin trouble'.had
             PROVE  /\ \A w \in Workers : worker'[w] = "up" => beat'[w]
                    /\ \A r \in Readers : reader'[r].pc \in {"declare", "store"} =>
                         worker'[reader'[r].snap.owner] # "up"
  BY DEF BeatInv
<1>1. "late" \notin trouble.had
  BY HadGrows
<1>2. \A w \in Workers : worker'[w] = "up" => beat'[w]
  BY <1>1, WorkersAre DEF BeatInv
<1>3. ASSUME NEW q \in Readers
      PROVE  reader'[q].pc \in {"declare", "store"} => worker'[reader'[q].snap.owner] # "up"
  <2> DEFINE Goal == reader'[q].pc \in {"declare", "store"} => worker'[reader'[q].snap.owner] # "up"
  <2>0. \A w \in Workers : worker[w] # "up" => worker'[w] # "up"
    BY WorkersAre
  <2>1. \A r \in Readers : reader[r].pc \in {"declare", "store"} =>
          reader[r].snap.owner \in Workers /\ worker'[reader[r].snap.owner] # "up"
    BY <1>1, <2>0 DEF BeatInv, OwnersInv
  <2>2. ASSUME NEW r \in Readers, NEW x, Becomes(r, x),
               x.pc \in {"declare", "store"} => worker'[x.snap.owner] # "up"
        PROVE  Goal
    BY <2>1, <2>2 DEF Becomes
  <2>3. ASSUME NEW r \in Readers, NEW aim \in {"follow", "again", "cancel"}, TypeOK, Looks(r, aim)
        PROVE  Goal
    <3>1. PICK x : Becomes(r, x) /\ x.pc \in {"exists", "over", "tail", "flag"}
      BY <2>3, LooksIs
    <3> QED
      BY <2>2, <3>1
  <2>4. ASSUME NEW r \in Readers, OwnerLookedUp(r)
        PROVE  Goal
    <3>1. reader[r].snap.owner \in Workers
      BY <2>4 DEF OwnersInv, OwnerLookedUp
    <3>2. PICK x : /\ Becomes(r, x)
                   /\ \/ x.pc = "declare" /\ x.snap = reader[r].snap /\ ~beat[reader[r].snap.owner]
                      \/ x.pc \in {"over", "tail", "flag"}
      BY <2>4, LookUpIs
    <3>3. ~beat[reader[r].snap.owner] => worker'[reader[r].snap.owner] # "up"
      BY <1>1, <2>0, <3>1 DEF BeatInv
    <3> QED
      BY <2>2, <3>2, <3>3
  <2>5. ASSUME NEW r \in Readers, Declares(r)
        PROVE  Goal
    <3>1. PICK x : Becomes(r, x) /\ x.snap.owner = reader[r].snap.owner /\ reader[r].pc = "declare"
      BY <2>5, DeclaresIs
    <3> QED
      BY <2>1, <2>2, <3>1
  <2>6. ASSUME NEW r \in Readers, DeclareStored(r) \/ FlagSets(r) \/ Gets(r)
        PROVE  Goal
    <3>1. PICK x : Becomes(r, x) /\ x.pc \in {"over", "tail"}
      BY <2>6, StoredIs, FlagSetsIs, GetsIs
    <3> QED
      BY <2>2, <3>1
  <2>7. CASE UNCHANGED reader
    BY <2>1, <2>7
  <2> QED
    BY <2>3, <2>4, <2>5, <2>6, <2>7, ReaderMoves
<1> QED
  BY <1>2, <1>3

-----------------------------------------------------------------------------
(* What a follower is given.                                               *)

\* The steps that matter to the stream, unless a call to Redis fails.
LEMMA StreamIs ==
  ASSUME Shape, [Next]_vars, "fault" \notin trouble'.had
  PROVE  \/ /\ UNCHANGED <<stream, tries, runner>> /\ pump'.added = pump.added /\ pump'.last = pump.last
            /\ queue' = "unsent" => queue = "unsent"
         \/ /\ UNCHANGED stream /\ pump' = NewPump /\ queue' # "unsent"
            /\ \/ runner' = NoWorker /\ tries' = tries
               \/ tries < MaxTries /\ tries' = tries + 1
         \/ PumpAdds /\ UNCHANGED <<tries, runner, queue>>
         \/ \E r \in Readers : Declares(r) /\ UNCHANGED <<tries, runner, queue, pump>>
<1> DEFINE Goal ==
      \/ /\ UNCHANGED <<stream, tries, runner>> /\ pump'.added = pump.added /\ pump'.last = pump.last
         /\ queue' = "unsent" => queue = "unsent"
      \/ /\ UNCHANGED stream /\ pump' = NewPump /\ queue' # "unsent"
         /\ \/ runner' = NoWorker /\ tries' = tries
            \/ tries < MaxTries /\ tries' = tries + 1
      \/ PumpAdds /\ UNCHANGED <<tries, runner, queue>>
      \/ \E r \in Readers : Declares(r) /\ UNCHANGED <<tries, runner, queue, pump>>
<1>1. CASE QueueStep
  <2>1. ASSUME NEW w \in Workers, PickUp(w)
        PROVE  Goal
    BY <2>1 DEF PickUp
  <2> QED
    BY <1>1, <2>1 DEF QueueStep, SubmitRecords, SubmitEnqueues, Redelivered, Exhausted, runVars
<1>2. CASE RunStep \/ BodyEmits \/ BodyEnds
  <2>1. Closed => Goal
    BY DEF Closed
  <2> QED
    BY <1>2, <2>1 DEF RunStep, CheckCancelled, CheckPasses, Starts, WatchCancels, BodyEmits, BodyEnds, queueVars
<1>3. CASE PumpStep
  BY <1>3, PumpTakesIs, PumpSnapsIs, PumpStoresIs DEF PumpStep, PumpTakes, PumpAdds, PumpSnaps, PumpStores,
     queueVars, runVars
<1>4. CASE TimeStep
  BY <1>4 DEF TimeStep, RecordAges, BeatExpires, Beats, WorkerStopped, queueVars, runVars
<1>5. CASE Trouble
  <2>0. TypeOK
    BY DEF Shape
  <2>1. ~GoesWrong("fault")
    BY <2>0, TroubleIs
  <2>2. ~StartFails /\ ~PumpFails /\ ~PumpGivenUp
    BY <2>1 DEF StartFails, PumpFails, PumpGivenUp
  <2>3. ASSUME NEW w \in Workers, WorkerDies(w)
        PROVE  Goal
    <3>1. CASE runner = w
      <4>1. runner = w /\ w # NoWorker
        BY <3>1, ProcessesAssumption
      <4>2. queue = "taken"
        BY <4>1 DEF Shape, PumpShape
      <4> QED
        BY <2>3, <3>1, <4>2 DEF WorkerDies, queueVars
    <3>2. CASE runner # w
      BY <2>3, <3>2 DEF WorkerDies, queueVars
    <3> QED
      BY <3>1, <3>2
  <2>4. ASSUME NEW w \in Workers, WorkerStops(w)
        PROVE  Goal
    <3>1. pump'.added = pump.added /\ pump'.last = pump.last
      BY <2>4, CutIs DEF WorkerStops
    <3> QED
      BY <2>4, <3>1 DEF WorkerStops, queueVars
  <2>5. SubmitBreaks \/ FlagExpires => Goal
    BY DEF SubmitBreaks, FlagExpires, runVars, queueVars
  <2> QED
    BY <1>5, <2>2, <2>3, <2>4, <2>5 DEF Trouble
<1>6. ASSUME NEW r \in Readers, ReaderStep(r) \/ \E aim \in {"follow", "cancel"} : Begins(r, aim)
      PROVE  Goal
  BY <1>6 DEF ReaderStep, Begins, OwnerLookedUp, Declares, DeclareStored, Gets, LooksAgain, FlagSets, queueVars, runVars
<1>7. CASE UNCHANGED vars
  BY <1>7 DEF vars, queueVars, runVars
<1> QED
  BY <1>1, <1>2, <1>3, <1>4, <1>5, <1>6, <1>7 DEF Next

\* The numbers that the proofs below are about.
LEMMA Numbers ==
  ASSUME Shape
  PROVE  /\ stream \in Seq(Frames) /\ Len(stream) \in Nat /\ DOMAIN stream = 1 .. Len(stream)
         /\ \A i \in 1 .. Len(stream) : stream[i].n \in Nat
         /\ pump.added \in Nat /\ pump.taken \in Nat /\ pump.last \in Nat /\ pump.added <= pump.taken
<1>1. stream \in Seq(Frames) /\ Len(stream) \in Nat /\ DOMAIN stream = 1 .. Len(stream)
  BY LenProperties DEF Shape, TypeOK
<1>2. \A i \in 1 .. Len(stream) : stream[i] \in Frames
  BY <1>1, ElementOfSeq
<1> QED
  BY <1>1, <1>2 DEF Shape, TypeOK, PumpShape, Frames

\* Nothing but frames of other writers after l, and the pump has added no more than u.
LEMMA QuietFollows ==
  ASSUME NEW l, NEW u, l <= Len(stream), \A i \in l + 1 .. Len(stream) : ~Real(i), pump.added <= u
  PROVE  Follows(l, u)
BY DEF Follows

\* Who follows the frames without a hole still does so when more are added.
LEMMA FollowsStays ==
  ASSUME Shape, [Next]_vars, "fault" \notin trouble'.had, NEW l \in Nat, NEW u \in Nat, Follows(l, u)
  PROVE  Follows(l, u)'
<1>1. /\ l <= Len(stream)
      /\ \A i \in l + 1 .. Len(stream) : Real(i) => \E j \in l + 1 .. i : Real(j) /\ stream[j].n <= u + 1
      /\ pump.added <= u \/ \E j \in l + 1 .. Len(stream) : Real(j) /\ stream[j].n <= u + 1
  BY DEF Follows
<1>2. ASSUME UNCHANGED stream, pump'.added = pump.added \/ pump'.added = 0
      PROVE  Follows(l, u)'
  <2>1. \A i : Real(i)' <=> Real(i)
    BY <1>2 DEF Real
  <2>2. pump'.added <= u \/ \E j \in l + 1 .. Len(stream) : Real(j) /\ stream[j].n <= u + 1
    BY <1>1, <1>2
  <2> QED
    BY <1>1, <1>2, <2>1, <2>2 DEF Follows
<1>0. PICK L \in Nat : L = Len(stream) /\ DOMAIN stream = 1 .. L
  BY Numbers
<1>3. ASSUME NEW r \in Readers, Declares(r), UNCHANGED pump
      PROVE  Follows(l, u)'
  <2>1. /\ Len(stream') = L + 1 /\ stream' \in Seq(Frames)
        /\ \A i \in 1 .. L : stream'[i] = stream[i]
        /\ stream'[L + 1].n = 0
    BY <1>0, <1>3, DeclaresIs
  <2>2. DOMAIN stream' = 1 .. L + 1
    BY <2>1, LenProperties
  <2>3. \A i \in 1 .. L : Real(i)' <=> Real(i)
    BY <1>0, <2>1, <2>2 DEF Real
  <2>4. ~Real(L + 1)'
    BY <2>1 DEF Real
  <2>5. l <= L + 1
    BY <1>0, <1>1
  <2>6. ASSUME NEW i \in l + 1 .. L + 1, Real(i)'
        PROVE  \E j \in l + 1 .. i : Real(j)' /\ stream'[j].n <= u + 1
    <3>1. i # L + 1
      BY <2>4, <2>6
    <3>2. i \in l + 1 .. L /\ Real(i) /\ i \in Nat
      BY <2>3, <2>6, <3>1
    <3>3. PICK j \in l + 1 .. i : Real(j) /\ stream[j].n <= u + 1
      BY <1>0, <1>1, <3>2
    <3>4. j \in 1 .. L
      BY <3>2
    <3> QED
      BY <2>1, <2>3, <3>3, <3>4
  <2>7. pump'.added <= u \/ \E j \in l + 1 .. L + 1 : Real(j)' /\ stream'[j].n <= u + 1
    <3>1. CASE pump.added <= u
      BY <1>3, <3>1
    <3>2. CASE \E j \in l + 1 .. L : Real(j) /\ stream[j].n <= u + 1
      <4>1. PICK j \in l + 1 .. L : Real(j) /\ stream[j].n <= u + 1
        BY <3>2
      <4>2. j \in 1 .. L /\ j \in l + 1 .. L + 1
        OBVIOUS
      <4> QED
        BY <2>1, <2>3, <4>1, <4>2
    <3> QED
      BY <1>0, <1>1, <3>1, <3>2
  <2> QED
    BY <2>1, <2>5, <2>6, <2>7 DEF Follows
<1>4. CASE PumpAdds
  <2>0. PICK m \in Nat : m = pump.taken - pump.added
    BY Numbers
  <2>1. /\ Len(stream') = L + m /\ stream' \in Seq(Frames)
        /\ \A i \in 1 .. L : stream'[i] = stream[i]
        /\ \A k \in 1 .. m : stream'[L + k].n = pump.added + k
        /\ pump'.added = pump.taken
    BY <1>0, <1>4, <2>0, PumpAddsIs
  <2>2. DOMAIN stream' = 1 .. L + m /\ pump.added \in Nat /\ pump.taken = pump.added + m
    BY <2>0, <2>1, Numbers, LenProperties
  <2>3. \A i \in 1 .. L : Real(i)' <=> Real(i)
    BY <1>0, <2>1, <2>2 DEF Real
  <2>4. \A j \in l + 1 .. L : Real(j) /\ stream[j].n <= u + 1 =>
          j \in l + 1 .. L + m /\ Real(j)' /\ stream'[j].n <= u + 1
    <3>1. SUFFICES ASSUME NEW j \in l + 1 .. L, Real(j), stream[j].n <= u + 1
                   PROVE  j \in l + 1 .. L + m /\ Real(j)' /\ stream'[j].n <= u + 1
      OBVIOUS
    <3>2. j \in 1 .. L
      OBVIOUS
    <3>3. j \in l + 1 .. L + m
      OBVIOUS
    <3>4. stream'[j] = stream[j] /\ (Real(j)' <=> Real(j))
      BY <2>1, <2>3, <3>2
    <3> QED
      BY <3>1, <3>3, <3>4
  <2>5. ASSUME pump.added <= u, m > 0
        PROVE  L + 1 \in l + 1 .. L + m /\ Real(L + 1)' /\ stream'[L + 1].n <= u + 1
    <3>0. 1 \in 1 .. m /\ L + 1 \in 1 .. L + m
      BY <2>5
    <3>1. stream'[L + 1].n = pump.added + 1
      BY <2>1, <3>0
    <3>2. Real(L + 1)'
      BY <2>2, <3>0, <3>1 DEF Real
    <3> QED
      BY <1>0, <1>1, <2>2, <2>5, <3>1, <3>2
  <2>6. l <= Len(stream')
    BY <1>0, <1>1, <2>1
  <2>7. ASSUME NEW i \in l + 1 .. L + m, Real(i)'
        PROVE  \E j \in l + 1 .. i : Real(j)' /\ stream'[j].n <= u + 1
    <3>1. CASE i <= L
      <4>1. i \in l + 1 .. L /\ Real(i) /\ i \in Nat
        BY <2>2, <2>3, <2>7, <3>1
      <4>2. PICK j \in l + 1 .. i : Real(j) /\ stream[j].n <= u + 1
        BY <1>0, <1>1, <4>1
      <4>3. j \in l + 1 .. L
        BY <2>2, <4>1
      <4> QED
        BY <2>4, <4>2, <4>3
    <3>2. CASE ~(i <= L)
      <4>1. i > L /\ m > 0 /\ i \in Nat
        BY <2>2, <3>2
      <4>2. CASE pump.added <= u
        <5>1. L + 1 \in l + 1 .. i
          BY <2>2, <2>5, <4>1, <4>2
        <5> QED
          BY <2>5, <4>1, <4>2, <5>1
      <4>3. CASE \E j \in l + 1 .. L : Real(j) /\ stream[j].n <= u + 1
        <5>1. PICK j \in l + 1 .. L : Real(j) /\ stream[j].n <= u + 1
          BY <4>3
        <5>2. j \in l + 1 .. i
          BY <2>2, <4>1
        <5> QED
          BY <2>4, <5>1, <5>2
      <4> QED
        BY <1>0, <1>1, <4>2, <4>3
    <3> QED
      BY <3>1, <3>2
  <2>8. pump'.added <= u \/ \E j \in l + 1 .. L + m : Real(j)' /\ stream'[j].n <= u + 1
    <3>1. CASE m = 0 /\ pump.added <= u
      BY <2>1, <2>2, <3>1
    <3>2. CASE m > 0 /\ pump.added <= u
      BY <2>5, <3>2
    <3>3. CASE \E j \in l + 1 .. L : Real(j) /\ stream[j].n <= u + 1
      BY <2>4, <3>3
    <3> QED
      BY <1>0, <1>1, <3>1, <3>2, <3>3
  <2> QED
    BY <2>1, <2>6, <2>7, <2>8 DEF Follows
<1> QED
  BY <1>2, <1>3, <1>4, StreamIs, Fresh

\* A frame of the job is followed by those that come after it.
LEMMA RealFollows ==
  ASSUME Shape, GapInv, [Next]_vars, "fault" \notin trouble'.had, NEW i \in Nat, NEW u \in Nat,
         Real(i)', u = stream'[i].n
  PROVE  Follows(i, u)'
<1>0. PICK L \in Nat : L = Len(stream) /\ DOMAIN stream = 1 .. L
  BY Numbers
<1>1. ASSUME i \in 1 .. L, stream'[i] = stream[i]
      PROVE  Follows(i, u)'
  <2>1. u = stream[i].n
    BY <1>1
  <2>2. Real(i)
    BY <1>0, <1>1 DEF Real
  <2>3. Follows(i, u)
    BY <1>0, <1>1, <2>1, <2>2 DEF GapInv
  <2> QED
    BY <2>3, FollowsStays
<1>2. CASE UNCHANGED stream
  <2>1. i \in 1 .. L
    BY <1>0, <1>2 DEF Real
  <2> QED
    BY <1>1, <1>2, <2>1
<1>3. ASSUME NEW r \in Readers, Declares(r)
      PROVE  Follows(i, u)'
  <2>1. /\ Len(stream') = L + 1 /\ stream' \in Seq(Frames)
        /\ \A k \in 1 .. L : stream'[k] = stream[k]
        /\ stream'[L + 1].n = 0
    BY <1>0, <1>3, DeclaresIs
  <2>2. DOMAIN stream' = 1 .. L + 1
    BY <2>1, LenProperties
  <2>3. i \in 1 .. L
    <3>1. i \in 1 .. L + 1 /\ i # L + 1
      BY <2>1, <2>2 DEF Real
    <3> QED
      BY <3>1
  <2> QED
    BY <1>1, <2>1, <2>3
<1>4. CASE PumpAdds
  <2>0. PICK m \in Nat : m = pump.taken - pump.added
    BY Numbers
  <2>1. /\ Len(stream') = L + m /\ stream' \in Seq(Frames)
        /\ \A k \in 1 .. L : stream'[k] = stream[k]
        /\ \A k \in 1 .. m : stream'[L + k].n = pump.added + k
        /\ pump'.added = pump.taken
    BY <1>0, <1>4, <2>0, PumpAddsIs
  <2>2. DOMAIN stream' = 1 .. L + m /\ pump.added \in Nat /\ pump.taken = pump.added + m
    BY <2>0, <2>1, Numbers, LenProperties
  <2>9. i \in 1 .. L + m
    BY <2>2 DEF Real
  <2>3. CASE i <= L
    <3>1. i \in 1 .. L
      BY <2>3, <2>9
    <3> QED
      BY <1>1, <2>1, <3>1
  <2>4. CASE ~(i <= L)
    <3>1. PICK k \in 1 .. m : i = L + k
      <4>1. i - L \in 1 .. m /\ i = L + (i - L)
        BY <2>4, <2>9
      <4> QED
        BY <4>1
    <3>2. u = pump.added + k
      BY <2>1, <3>1
    <3>3. CASE k = m
      <4>1. i = L + m /\ pump'.added <= u
        BY <2>1, <2>2, <3>1, <3>2, <3>3
      <4>2. i <= Len(stream') /\ \A j \in i + 1 .. Len(stream') : FALSE
        BY <2>1, <4>1
      <4> QED
        BY <4>1, <4>2 DEF Follows
    <3>4. CASE k < m
      <4>1. k + 1 \in 1 .. m /\ i + 1 = L + (k + 1) /\ i + 1 \in 1 .. L + m
        BY <3>1, <3>4
      <4>2. stream'[i + 1].n = u + 1
        <5>1. stream'[i + 1].n = pump.added + (k + 1)
          BY <2>1, <4>1
        <5> QED
          BY <2>2, <3>2, <5>1
      <4>3. Real(i + 1)'
        BY <2>2, <4>1, <4>2 DEF Real
      <4>4. i + 1 \in i + 1 .. L + m /\ i <= L + m /\ u + 1 <= u + 1
        BY <2>2, <4>1
      <4>5. \A h \in i + 1 .. L + m : i + 1 \in i + 1 .. h
        BY <2>2
      <4> QED
        BY <2>1, <4>2, <4>3, <4>4, <4>5 DEF Follows
    <3> QED
      BY <3>3, <3>4
  <2> QED
    BY <2>3, <2>4
<1> QED
  BY <1>2, <1>3, <1>4, StreamIs

\* Where the pump is: what it adds comes after all that the job has added.
LEMMA PumpFollows ==
  ASSUME Shape, GapInv, [Next]_vars, "fault" \notin trouble'.had, MaxTries = 1
  PROVE  /\ queue' = "unsent" => tries' = 0
         /\ tries' = 0 => runner' = NoWorker /\ \A i \in DOMAIN stream' : ~Real(i)'
         /\ pump'.last <= Len(stream')
         /\ \A i \in DOMAIN stream' : i > pump'.last /\ runner' # NoWorker => ~Real(i)'
<1>0. PICK L \in Nat : L = Len(stream) /\ DOMAIN stream = 1 .. L
  BY Numbers
<1>1. /\ queue = "unsent" => tries = 0
      /\ tries = 0 => runner = NoWorker /\ \A i \in 1 .. L : ~Real(i)
      /\ pump.last <= L
      /\ \A i \in 1 .. L : i > pump.last /\ runner # NoWorker => ~Real(i)
  BY <1>0 DEF GapInv
<1>2. CASE /\ UNCHANGED <<stream, tries, runner>> /\ pump'.added = pump.added /\ pump'.last = pump.last
           /\ queue' = "unsent" => queue = "unsent"
  BY <1>0, <1>1, <1>2 DEF Real
<1>3. CASE /\ UNCHANGED stream /\ pump' = NewPump /\ queue' # "unsent"
           /\ \/ runner' = NoWorker /\ tries' = tries
              \/ tries < MaxTries /\ tries' = tries + 1
  <2>1. tries \in Nat /\ pump'.last = 0
    BY <1>3, Fresh DEF Shape, TypeOK
  <2>2. CASE runner' = NoWorker /\ tries' = tries
    BY <1>0, <1>1, <1>3, <2>1, <2>2 DEF Real
  <2>3. CASE tries < MaxTries /\ tries' = tries + 1
    <3>1. tries = 0 /\ tries' # 0
      BY <2>1, <2>3
    <3> QED
      BY <1>0, <1>1, <1>3, <2>1, <3>1 DEF Real
  <2> QED
    BY <1>3, <2>2, <2>3
<1>4. CASE PumpAdds /\ UNCHANGED <<tries, runner, queue>>
  <2>1. runner # NoWorker
    BY <1>4, PumpHasRunner DEF PumpStep
  <2>2. stream' \in Seq(Frames) /\ pump'.last = Len(stream')
    BY <1>4, PumpAddsIs
  <2>3. Len(stream') \in Nat /\ DOMAIN stream' = 1 .. Len(stream')
    BY <2>2, LenProperties
  <2>4. \A i \in DOMAIN stream' : ~(i > pump'.last)
    BY <2>2, <2>3
  <2>5. tries # 0
    BY <1>1, <2>1
  <2> QED
    BY <1>1, <1>4, <2>2, <2>3, <2>4, <2>5
<1>5. ASSUME NEW r \in Readers, Declares(r), UNCHANGED <<tries, runner, queue, pump>>
      PROVE  /\ queue' = "unsent" => tries' = 0
             /\ tries' = 0 => runner' = NoWorker /\ \A i \in DOMAIN stream' : ~Real(i)'
             /\ pump'.last <= Len(stream')
             /\ \A i \in DOMAIN stream' : i > pump'.last /\ runner' # NoWorker => ~Real(i)'
  <2>1. /\ Len(stream') = L + 1 /\ stream' \in Seq(Frames)
        /\ \A k \in 1 .. L : stream'[k] = stream[k]
        /\ stream'[L + 1].n = 0
    BY <1>0, <1>5, DeclaresIs
  <2>2. DOMAIN stream' = 1 .. L + 1 /\ pump.last \in Nat
    BY <2>1, LenProperties, Numbers
  <2>3. \A i \in 1 .. L + 1 : Real(i)' => i \in 1 .. L /\ Real(i)
    BY <1>0, <2>1 DEF Real
  <2> QED
    BY <1>1, <1>5, <2>1, <2>2, <2>3
<1> QED
  BY <1>2, <1>3, <1>4, <1>5, StreamIs

\* What the stored snapshot leaves to be told.
LEMMA RecordFollows ==
  ASSUME Shape, GapInv, [Next]_vars, "fault" \notin trouble'.had, NEW l \in Nat, NEW u \in Nat,
         l = record'.last, u = record'.upto
  PROVE  l <= Len(stream') /\ (record'.status \notin Terminal => Follows(l, u)')
<1> DEFINE Goal == l <= Len(stream') /\ (record'.status \notin Terminal => Follows(l, u)')
<1>1. Len(stream) \in Nat /\ Len(stream') \in Nat /\ Len(stream) <= Len(stream')
  <2>1. Len(stream) \in Nat /\ pump.taken - pump.added \in Nat
    BY Numbers
  <2>2. ASSUME NEW r \in Readers, Declares(r)
        PROVE  Len(stream') \in Nat /\ Len(stream) <= Len(stream')
    BY <2>1, <2>2, DeclaresIs
  <2>3. CASE PumpAdds
    BY <2>1, <2>3, PumpAddsIs
  <2> QED
    BY <2>1, <2>2, <2>3, StreamIs
<1>2. CASE record'.last = record.last /\ record'.upto = record.upto /\ record'.status = record.status
  <2>1. l <= Len(stream) /\ (record.status \notin Terminal => Follows(record.last, record.upto))
    BY <1>2 DEF GapInv
  <2>2. record.status \notin Terminal => Follows(l, u)
    BY <1>2, <2>1
  <2>3. record.status \notin Terminal => Follows(l, u)'
    BY <2>2, FollowsStays
  <2> QED
    BY <1>1, <1>2, <2>1, <2>3
<1>3. CASE /\ record' = Pending /\ UNCHANGED <<runVars, pump, stream, reader, trouble>> /\ queue = "unsent"
  <2>1. tries = 0 /\ runner = NoWorker /\ (\A i \in DOMAIN stream : ~Real(i))
    BY <1>3 DEF GapInv
  <2>2. pump.added = 0 /\ l = 0 /\ u = 0
    BY <1>3, <2>1, Fresh DEF Shape, PumpShape
  <2>3. \A i \in l + 1 .. Len(stream) : ~Real(i)
    BY <2>1, <2>2, Numbers
  <2>4. l <= Len(stream) /\ pump.added <= u
    BY <1>1, <2>2
  <2>5. Follows(l, u)
    BY <2>3, <2>4, QuietFollows
  <2>6. Follows(l, u)'
    BY <2>5, FollowsStays
  <2> QED
    BY <1>1, <2>2, <2>6
<1>4. CASE PumpStores
  <2>1. /\ pump.pc = "store" /\ u = pump.snap.upto /\ l = IF pump.last > 0 THEN pump.snap.last ELSE record.last
        /\ UNCHANGED stream /\ runner # NoWorker
    BY <1>4, PumpStoresIs, PumpHasRunner DEF PumpStores, PumpStep
  <2>2. pump.snap.last = pump.last /\ pump.added <= u /\ pump.last <= Len(stream) /\ record.last <= Len(stream)
    BY <2>1 DEF GapInv
  <2>3. l <= Len(stream) /\ pump.last <= l
    BY <2>1, <2>2, Numbers
  <2>4. \A i \in l + 1 .. Len(stream) : ~Real(i)
    <3> SUFFICES ASSUME NEW i \in l + 1 .. Len(stream)
                 PROVE  ~Real(i)
      OBVIOUS
    <3>1. i \in DOMAIN stream /\ i > pump.last
      BY <2>3, Numbers
    <3> QED
      BY <2>1, <3>1 DEF GapInv
  <2>5. Follows(l, u)
    BY <2>2, <2>3, <2>4, QuietFollows
  <2>6. Follows(l, u)'
    BY <2>5, FollowsStays
  <2> QED
    BY <2>1, <2>3, <2>6
<1>5. CASE RecordAges
  BY <1>2, <1>5 DEF RecordAges, Shape, TypeOK, Snapshots
<1>6. ASSUME NEW r \in Readers, DeclareStored(r)
      PROVE  Goal
  <2>1. reader[r].pc = "store" /\ record' = reader[r].snap /\ UNCHANGED stream
    BY <1>6 DEF DeclareStored
  <2>2. reader[r].snap.status = "error" /\ reader[r].snap.last <= Len(stream)
    BY <2>1 DEF Shape, ReaderShape, GapInv
  <2> QED
    BY <2>1, <2>2 DEF Terminal
<1> QED
  BY <1>2, <1>3, <1>4, <1>5, <1>6, RecordIs

\* The snapshot the pump takes has all that was added.
LEMMA PumpRecords ==
  ASSUME Shape, GapInv, [Next]_vars
  PROVE  pump'.pc = "store" => pump'.snap.last = pump'.last /\ pump'.added <= pump'.snap.upto
<1>1. pump.added \in Nat /\ pump.taken \in Nat /\ job.emitted \in Nat
      /\ pump.added <= pump.taken /\ pump.taken <= job.emitted
  BY DEF Shape, TypeOK, PumpShape
<1>2. PumpSnaps => pump'.snap.last = pump'.last /\ pump'.added <= pump'.snap.upto
  BY <1>1, PumpSnapsIs
<1> QED
  BY <1>2, PumpIs DEF GapInv

\* A frame of another writer is passed over.
LEMMA SkipFollows ==
  ASSUME Shape, NEW l \in Nat, NEW u \in Nat, Follows(l, u), l + 1 \in 1 .. Len(stream), stream[l + 1].n = 0
  PROVE  Follows(l + 1, u)
<1>0. Len(stream) \in Nat /\ l + 1 <= Len(stream)
  BY Numbers
<1>1. ~Real(l + 1)
  BY DEF Real
<1>2. ASSUME NEW m \in Nat, NEW j \in l + 1 .. m, Real(j)
      PROVE  j \in (l + 1) + 1 .. m
  <2>1. j # l + 1
    BY <1>1, <1>2
  <2> QED
    BY <2>1
<1>3. ASSUME NEW i \in (l + 1) + 1 .. Len(stream), Real(i)
      PROVE  \E j \in (l + 1) + 1 .. i : Real(j) /\ stream[j].n <= u + 1
  <2>1. i \in l + 1 .. Len(stream) /\ i \in Nat
    BY <1>0
  <2>2. PICK j \in l + 1 .. i : Real(j) /\ stream[j].n <= u + 1
    BY <1>3, <2>1 DEF Follows
  <2> QED
    BY <1>2, <2>1, <2>2
<1>4. pump.added <= u \/ \E j \in (l + 1) + 1 .. Len(stream) : Real(j) /\ stream[j].n <= u + 1
  <2>1. CASE \E j \in l + 1 .. Len(stream) : Real(j) /\ stream[j].n <= u + 1
    BY <1>0, <1>2, <2>1
  <2> QED
    BY <2>1 DEF Follows
<1> QED
  BY <1>0, <1>3, <1>4 DEF Follows

\* A reader that follows, or is about to, is told everything that comes.
LEMMA ReaderFollows ==
  ASSUME Shape, GapInv, [Next]_vars, "fault" \notin trouble'.had, NEW q \in Readers, NEW l \in Nat, NEW u \in Nat
  PROVE  /\ reader'[q].pc = "exists" /\ l = reader'[q].snap.last /\ u = reader'[q].snap.upto => Follows(l, u)'
         /\ reader'[q].pc = "store" => reader'[q].snap.last <= Len(stream')
         /\ reader'[q].aim = "again" /\ reader'[q].pc # "over" /\ l = reader'[q].last /\ u = reader'[q].seen =>
              Follows(l, u)'
<1> DEFINE Good(x) ==
      /\ x.pc = "exists" /\ l = x.snap.last /\ u = x.snap.upto => Follows(l, u)'
      /\ x.pc = "store" => x.snap.last <= Len(stream')
      /\ x.aim = "again" /\ x.pc # "over" /\ l = x.last /\ u = x.seen => Follows(l, u)'
<1>1. Follows(l, u) => Follows(l, u)'
  BY FollowsStays
<1>2. Len(stream) \in Nat /\ Len(stream') \in Nat /\ Len(stream) <= Len(stream')
  <2>1. Len(stream) \in Nat /\ pump.taken - pump.added \in Nat
    BY Numbers
  <2>2. ASSUME NEW r \in Readers, Declares(r)
        PROVE  Len(stream') \in Nat /\ Len(stream) <= Len(stream')
    BY <2>1, <2>2, DeclaresIs
  <2>3. CASE PumpAdds
    BY <2>1, <2>3, PumpAddsIs
  <2> QED
    BY <2>1, <2>2, <2>3, StreamIs
<1>3. ASSUME NEW r \in Readers
      PROVE  /\ reader[r].pc = "exists" => Follows(reader[r].snap.last, reader[r].snap.upto)
             /\ reader[r].pc = "store" => reader[r].snap.last <= Len(stream)
             /\ reader[r].aim = "again" /\ reader[r].pc # "over" => Follows(reader[r].last, reader[r].seen)
             /\ reader[r] \in Readings
  BY DEF GapInv, Following, Shape, TypeOK, Readings
<1>4. ASSUME NEW r \in Readers
      PROVE  Good(reader[r])
  <2>1. reader[r].pc = "store" => reader[r].snap.last \in Nat
    BY <1>3 DEF Readings, Snapshots
  <2>2. reader[r].pc = "exists" /\ l = reader[r].snap.last /\ u = reader[r].snap.upto => Follows(l, u)
    BY <1>3
  <2>3. reader[r].aim = "again" /\ reader[r].pc # "over" /\ l = reader[r].last /\ u = reader[r].seen => Follows(l, u)
    BY <1>3
  <2> QED
    BY <1>1, <1>2, <1>3, <2>1, <2>2, <2>3
<1>5. record.status \notin Terminal /\ l = record.last /\ u = record.upto => Follows(l, u)'
  <2>1. record.status \notin Terminal => Follows(record.last, record.upto)
    BY DEF GapInv
  <2>2. record.status \notin Terminal /\ l = record.last /\ u = record.upto => Follows(l, u)
    BY <2>1
  <2> QED
    BY <1>1, <2>2
<1>6. ASSUME NEW r \in Readers, NEW x, Becomes(r, x), Good(x)
      PROVE  Good(reader'[q])
  <2>1. CASE q = r
    BY <1>6, <2>1 DEF Becomes
  <2>2. CASE q # r
    <3>1. reader'[q] = reader[q]
      BY <1>6, <2>2 DEF Becomes
    <3> QED
      BY <1>4, <3>1
  <2> QED
    BY <2>1, <2>2
<1>7. ASSUME NEW r \in Readers, NEW aim \in {"follow", "again", "cancel"}, TypeOK, Looks(r, aim),
             aim = "again" => reader[r].pc = "tail" /\ reader[r].aim # "none"
      PROVE  Good(reader'[q])
  <2>1. PICK x : /\ Becomes(r, x)
                 /\ \/ /\ x.pc = "exists" /\ x.snap = record /\ record.status = "running"
                       /\ x.aim = aim /\ x.last = reader[r].last /\ x.seen = reader[r].seen
                    \/ /\ x.pc \in {"over", "tail", "flag"}
                       /\ x.pc # "over" => record.status \notin Terminal
                       /\ x.pc = "tail" => x.aim = "again"
                       /\ x.aim = "again" /\ aim = "again" => x.last = reader[r].last /\ x.seen = reader[r].seen
                       /\ x.aim = "again" /\ aim # "again" => x.last = record.last /\ x.seen = record.upto
    BY <1>7, LooksIs
  <2>2. aim = "again" => reader[r].aim = "again" /\ reader[r].pc # "over"
    BY <1>7 DEF Shape, ReaderShape
  <2>3. aim = "again" /\ l = reader[r].last /\ u = reader[r].seen => Follows(l, u)'
    BY <1>4, <2>2
  <2>4. record.status = "running" => record.status \notin Terminal
    BY DEF Terminal
  <2>5. Good(x)
    BY <1>5, <2>1, <2>3, <2>4
  <2> QED
    BY <1>6, <2>1, <2>5
<1>8. ASSUME NEW r \in Readers, OwnerLookedUp(r)
      PROVE  Good(reader'[q])
  <2>1. PICK x : /\ Becomes(r, x)
                 /\ \/ /\ x.pc = "declare"
                       /\ x.aim = reader[r].aim /\ x.last = reader[r].last /\ x.seen = reader[r].seen
                    \/ /\ x.pc \in {"over", "tail", "flag"}
                       /\ x.aim = "again" /\ reader[r].aim = "again" =>
                            x.last = reader[r].last /\ x.seen = reader[r].seen
                       /\ x.aim = "again" /\ reader[r].aim # "again" =>
                            x.last = reader[r].snap.last /\ x.seen = reader[r].snap.upto
    BY <1>8, LookUpIs
  <2>2. reader[r].pc = "exists"
    BY <1>8 DEF OwnerLookedUp
  <2>3. /\ l = reader[r].snap.last /\ u = reader[r].snap.upto => Follows(l, u)'
        /\ reader[r].aim = "again" /\ l = reader[r].last /\ u = reader[r].seen => Follows(l, u)'
    BY <1>4, <2>2
  <2>4. Good(x)
    BY <2>1, <2>3
  <2> QED
    BY <1>6, <2>1, <2>4
<1>9. ASSUME NEW r \in Readers, Declares(r)
      PROVE  Good(reader'[q])
  <2>1. PICK x : /\ Becomes(r, x) /\ x.pc = "store" /\ x.snap.last = Len(stream')
                 /\ x.aim = reader[r].aim /\ x.last = reader[r].last /\ x.seen = reader[r].seen
                 /\ reader[r].pc = "declare"
    BY <1>9, DeclaresIs
  <2>2. reader[r].aim = "again" /\ l = reader[r].last /\ u = reader[r].seen => Follows(l, u)'
    BY <1>4, <2>1
  <2>3. Good(x)
    BY <1>2, <2>1, <2>2
  <2> QED
    BY <1>6, <2>1, <2>3
<1>10. ASSUME NEW r \in Readers, DeclareStored(r) \/ FlagSets(r)
       PROVE  Good(reader'[q])
  <2>1. PICK x : Becomes(r, x) /\ x.pc = "over"
    BY <1>10, StoredIs, FlagSetsIs
  <2>2. Good(x)
    BY <2>1
  <2> QED
    BY <1>6, <2>1, <2>2
<1>11. ASSUME NEW r \in Readers, Gets(r)
       PROVE  Good(reader'[q])
  <2>1. PICK x : /\ reader[r].pc = "tail" /\ reader[r].last + 1 \in 1 .. Len(stream)
                 /\ Becomes(r, x) /\ x.pc \in {"tail", "over"}
                 /\ x.aim = reader[r].aim /\ x.last = reader[r].last + 1
                 /\ x.seen = IF stream[reader[r].last + 1].n = 0 THEN reader[r].seen
                             ELSE stream[reader[r].last + 1].n
    BY <1>11, GetsIs
  <2>2. PICK a \in Nat, b \in Nat, k \in Nat : a = reader[r].last /\ b = reader[r].seen /\ k = a + 1
    BY <1>3 DEF Readings
  <2>3. ASSUME x.aim = "again", l = x.last, u = x.seen
        PROVE  Follows(l, u)'
    <3>1. Follows(a, b)
      BY <1>3, <2>1, <2>2, <2>3
    <3>2. l = k /\ k \in 1 .. Len(stream) /\ k \in DOMAIN stream /\ stream[k].n \in Nat
      BY <2>1, <2>2, <2>3, Numbers
    <3>3. CASE stream[k].n = 0
      <4>1. Follows(a + 1, b)
        BY <2>2, <3>1, <3>2, <3>3, SkipFollows
      <4>2. l = a + 1 /\ u = b
        BY <2>1, <2>2, <2>3, <3>2, <3>3
      <4>3. Follows(l, u)
        BY <4>1, <4>2
      <4> QED
        BY <1>1, <4>3
    <3>4. CASE stream[k].n # 0
      <4>1. u = stream[k].n /\ Real(k)
        BY <2>1, <2>2, <2>3, <3>2, <3>4 DEF Real
      <4>2. Follows(k, stream[k].n)
        BY <3>2, <4>1 DEF GapInv
      <4>3. Follows(l, u)
        BY <3>2, <4>1, <4>2
      <4> QED
        BY <1>1, <4>3
    <3> QED
      BY <3>3, <3>4
  <2>4. Good(x)
    BY <2>1, <2>3
  <2> QED
    BY <1>6, <2>1, <2>4
<1>12. CASE UNCHANGED reader
  BY <1>4, <1>12
<1>13. Good(reader'[q])
  BY <1>7, <1>8, <1>9, <1>10, <1>11, <1>12, ReaderMoves
<1> QED
  BY <1>13

LEMMA GapsStep ==
  ASSUME Shape, GapsInv, [Next]_vars, MaxTries = 1
  PROVE  GapsInv'
<1> SUFFICES ASSUME "fault" \notin trouble'.had
             PROVE  GapInv'
  BY DEF GapsInv
<1>1. GapInv
  BY HadGrows DEF GapsInv
<1>2. Shape'
  BY ShapeStep
<1>3. (\A i \in DOMAIN stream : Real(i) => Follows(i, stream[i].n))'
  <2>1. stream' \in Seq(Frames) /\ DOMAIN stream' = 1 .. Len(stream') /\ Len(stream') \in Nat
    BY <1>2, LenProperties DEF Shape, TypeOK
  <2> SUFFICES ASSUME NEW i \in DOMAIN stream', Real(i)'
               PROVE  Follows(i, stream[i].n)'
    OBVIOUS
  <2>2. PICK u \in Nat : u = stream'[i].n
    <3>1. stream'[i] \in Frames
      BY <2>1, ElementOfSeq
    <3> QED
      BY <3>1 DEF Frames
  <2>3. Follows(i, u)'
    BY <1>1, <2>1, <2>2, RealFollows
  <2> QED
    BY <2>2, <2>3 DEF Follows
<1>4. record'.last <= Len(stream') /\ (record.status \notin Terminal => Follows(record.last, record.upto))'
  <2>1. PICK l \in Nat, u \in Nat : l = record'.last /\ u = record'.upto
    BY <1>2 DEF Shape, TypeOK, Snapshots
  <2>2. l <= Len(stream') /\ (record'.status \notin Terminal => Follows(l, u)')
    BY <1>1, <2>1, RecordFollows
  <2> QED
    BY <2>1, <2>2 DEF Follows
<1>5. ASSUME NEW r \in Readers
      PROVE  /\ (reader[r].pc = "exists" => Follows(reader[r].snap.last, reader[r].snap.upto))'
             /\ reader'[r].pc = "store" => reader'[r].snap.last <= Len(stream')
             /\ (Following(r) => Follows(reader[r].last, reader[r].seen))'
  <2>1. reader'[r] \in Readings /\ reader'[r].snap \in Snapshots
    BY <1>2 DEF Shape, TypeOK, Readings
  <2>2. PICK a \in Nat, b \in Nat : a = reader'[r].snap.last /\ b = reader'[r].snap.upto
    BY <2>1 DEF Snapshots
  <2>3. PICK l \in Nat, u \in Nat : l = reader'[r].last /\ u = reader'[r].seen
    BY <2>1 DEF Readings
  <2>4. /\ reader'[r].pc = "exists" => Follows(a, b)'
        /\ reader'[r].pc = "store" => reader'[r].snap.last <= Len(stream')
    BY <1>1, <2>2, ReaderFollows
  <2>5. reader'[r].aim = "again" /\ reader'[r].pc # "over" => Follows(l, u)'
    BY <1>1, <2>3, ReaderFollows
  <2>6. (reader[r].pc = "exists" => Follows(reader[r].snap.last, reader[r].snap.upto))'
    BY <2>2, <2>4 DEF Follows
  <2>7. (Following(r) => Follows(reader[r].last, reader[r].seen))'
    BY <2>3, <2>5 DEF Follows, Following
  <2> QED
    BY <2>4, <2>6, <2>7
<1>6. /\ queue' = "unsent" => tries' = 0
      /\ tries' = 0 => runner' = NoWorker /\ \A i \in DOMAIN stream' : ~Real(i)'
      /\ pump'.last <= Len(stream')
      /\ \A i \in DOMAIN stream' : i > pump'.last /\ runner' # NoWorker => ~Real(i)'
  BY <1>1, PumpFollows
<1>7. pump'.pc = "store" => pump'.snap.last = pump'.last /\ pump'.added <= pump'.snap.upto
  BY <1>1, PumpRecords
<1> QED
  BY <1>3, <1>4, <1>5, <1>6, <1>7 DEF GapInv

-----------------------------------------------------------------------------
(* The theorems.                                                           *)

LEMMA InitHolds ==
  ASSUME Init
  PROVE  RunsInv /\ CancelInv /\ OwnersInv /\ BeatInv /\ GapsInv
<1>1. /\ runner = NoWorker /\ pc = "idle" /\ pump = NewPump /\ queue = "unsent" /\ tries = 0 /\ ran = 0
      /\ record = Pending /\ stream = <<>> /\ told = "no"
      /\ worker = [w \in Workers |-> "up"] /\ beat = [w \in Workers |-> TRUE]
  BY DEF Init
<1>2. \A r \in Readers : reader[r] = Away
  BY DEF Init
<1>3. RunsInv /\ CancelInv
  BY <1>1 DEF RunsInv, CancelInv
<1>4. OwnersInv /\ BeatInv
  BY <1>1, <1>2, Fresh DEF OwnersInv, BeatInv
<1>5. Shape
  BY ShapeInit
<1>6. Len(stream) = 0 /\ DOMAIN stream = 1 .. 0
  BY <1>1, <1>5, Numbers
<1>7. \A i \in DOMAIN stream : ~Real(i)
  BY <1>6
<1>8. Follows(0, 0)
  BY <1>1, <1>6, Fresh DEF Follows
<1>9. record.last = 0 /\ record.upto = 0 /\ pump.last = 0 /\ pump.pc = "get"
  BY <1>1, Fresh
<1>10. GapInv
  <2>1. \A r \in Readers : reader[r].pc = "off" /\ ~Following(r)
    BY <1>2, Fresh DEF Following
  <2>2. record.status \notin Terminal => Follows(record.last, record.upto)
    BY <1>8, <1>9
  <2> QED
    BY <1>1, <1>6, <1>7, <1>9, <2>1, <2>2 DEF GapInv
<1> QED
  BY <1>3, <1>4, <1>10 DEF GapsInv

\* Every variable of the job keeps to its type, and the pump never counts more
\* frames as sent than it took or than the job has emitted (jobs.py, Pump).
THEOREM StreamTypesHold == Spec => []Shape
<1>1. Init => Shape
  BY ShapeInit
<1>2. Shape /\ [Next]_vars => Shape'
  BY ShapeStep
<1> QED
  BY <1>1, <1>2, PTL DEF Spec

\* worker.py: the body of a job begins at most as often as arq hands the job
\* out, however many processes die or are stopped while they have it.
THEOREM RunsAreTries == Spec => [](ran <= MaxTries)
<1>1. Init => RunsInv
  BY InitHolds
<1>2. Shape /\ RunsInv /\ [Next]_vars => RunsInv'
  BY RunsStep
<1>3. Shape /\ RunsInv => ran <= MaxTries
  BY BoundsAssumption DEF Shape, TypeOK, RunsInv
<1> QED
  BY <1>1, <1>2, <1>3, StreamTypesHold, PTL DEF Spec

\* worker.py: "A task is never retried".  With the one try that WorkerSettings
\* gives the function, no job runs twice.
THEOREM JobRunsOnce == ASSUME MaxTries = 1 PROVE Spec => []RunsOnce
<1>1. ran <= MaxTries => RunsOnce
  BY DEF RunsOnce
<1> QED
  BY <1>1, RunsAreTries, PTL

\* cancel(): a job that was still queued when its cancel was answered with True
\* meets the flag when a worker takes it, and its body never begins.
THEOREM CancelledStaysOut == Spec => []CancelledNeverStarts
<1>1. Init => CancelInv
  BY InitHolds
<1>2. Shape /\ CancelInv /\ [Next]_vars => CancelInv'
  BY CancelStep
<1>3. CancelInv => CancelledNeverStarts
  BY DEF CancelInv, CancelledNeverStarts
<1> QED
  BY <1>1, <1>2, <1>3, StreamTypesHold, PTL DEF Spec

\* _reconcile() and heartbeat_forever(): as long as every process that is up
\* beats in time, none of them has its job declared interrupted.
THEOREM LivingAreNotLost == Spec => []LivingNotInterrupted
<1>1. Init => OwnersInv /\ BeatInv
  BY InitHolds
<1>2. Shape /\ OwnersInv /\ BeatInv /\ [Next]_vars => OwnersInv' /\ BeatInv'
  BY OwnersStep, BeatStep
<1>3. BeatInv => LivingNotInterrupted
  BY DEF BeatInv, LivingNotInterrupted
<1> QED
  BY <1>1, <1>2, <1>3, StreamTypesHold, PTL DEF Spec

\* follow(): whenever it joins, and in whatever order its own steps and the
\* pump's fall, a reader that got a snapshot is given every later frame, for
\* any number of readers, frames and frames in a batch.
THEOREM NoFrameIsMissed == ASSUME MaxTries = 1 PROVE Spec => []NoGap
<1>1. Init => GapsInv
  BY InitHolds
<1>2. Shape /\ GapsInv /\ [Next]_vars => GapsInv'
  BY GapsStep
<1>3. ASSUME Shape, GapsInv
      PROVE  NoGap
  <2> SUFFICES ASSUME "fault" \notin trouble.had, NEW r \in Readers, Following(r), NEW i \in Ahead(r)
               PROVE  \E j \in Ahead(r) : j <= i /\ stream[j].n <= reader[r].seen + 1
    BY DEF NoGap
  <2>1. PICK l \in Nat, u \in Nat : l = reader[r].last /\ u = reader[r].seen
    BY <1>3 DEF Shape, TypeOK
  <2>2. Follows(l, u)
    BY <1>3, <2>1 DEF GapsInv, GapInv
  <2>3. PICK L \in Nat : L = Len(stream) /\ DOMAIN stream = 1 .. L
    BY <1>3, Numbers
  <2>4. i \in l + 1 .. L /\ i \in Nat /\ Real(i)
    BY <2>1, <2>3 DEF Ahead, Real
  <2>5. PICK j \in l + 1 .. i : Real(j) /\ stream[j].n <= u + 1
    BY <2>2, <2>3, <2>4 DEF Follows
  <2>6. j \in 1 .. L /\ j > l /\ j <= i
    BY <2>4
  <2> QED
    BY <2>1, <2>3, <2>5, <2>6 DEF Ahead, Real
<1> QED
  BY <1>1, <1>2, <1>3, StreamTypesHold, PTL DEF Spec

-----------------------------------------------------------------------------
(***************************************************************************)
(* Repair: a session of boots and repairs gets on and never undoes itself. *)
(***************************************************************************)
\* A server has finitely many jars.
RepairSizes == IsFiniteSet(Suspects)

\* A crash that shows its jar loading a client class is of a client mod.
ReportsHold ==
  /\ says \subseteq client
  /\ repairPhase = "decide" => report.kind \in {"missing", "crash"}
  /\ report.kind = "crash" => report.loaded \in BOOLEAN /\ (report.loaded => report.jar \in client)

RepairInv ==
  /\ tried \subseteq Repairing!Doings /\ round \in Nat
  /\ ReportsHold
  /\ Repairing!NeverUndoes /\ Repairing!ContentIsKept /\ Repairing!RoundsAreNew

\* What is proved switches off what is on and on what is off, and has its reason.
LEMMA ProvedForCause ==
  ASSUME ReportsHold, repairPhase = "decide"
  PROVE  \A a \in Repairing!Proved :
           /\ a \in Repairing!Doings
           /\ a[1] = "disable" => a[2] \in Repairing!Enabled
           /\ a[1] = "enable" => a[2] \in Repairing!Off
           /\ a[1] = "disable" /\ a[2] \in content \ client =>
                \E d \in needs[a[2]] : d \in RendererJars \cup says \/ d \notin OfferedJars
PROOF
<1> SUFFICES ASSUME NEW a \in Repairing!Proved
             PROVE  /\ a \in Repairing!Doings
                    /\ a[1] = "disable" => a[2] \in Repairing!Enabled
                    /\ a[1] = "enable" => a[2] \in Repairing!Off
                    /\ a[1] = "disable" /\ a[2] \in content \ client =>
                         \E d \in needs[a[2]] : d \in RendererJars \cup says \/ d \notin OfferedJars
  OBVIOUS
<1>1. CASE report.kind = "missing"
  <2>1. PICK p \in Repairing!Missing : a = Repairing!ForMissing(p[1], p[2])
    BY <1>1 DEF Repairing!Proved
  <2> DEFINE d == p[1]
             b == p[2]
  <2>2. d \in Suspects /\ b \in Repairing!Enabled /\ d \in needs[b] /\ b \in Suspects
    BY DEF Repairing!Missing, Repairing!Enabled
  <2>3. \/ a = <<"disable", b>> /\ d \in RendererJars \cup says
        \/ a = <<"enable", d>> /\ d \in Repairing!Off
        \/ a = <<"install", d>>
        \/ a = <<"disable", b>> /\ d \notin OfferedJars
    BY <2>1 DEF Repairing!ForMissing
  <2> HIDE DEF d, b
  <2> QED
    BY <2>2, <2>3 DEF Repairing!Doings
<1>2. CASE report.kind = "crash"
  <2>1. PICK j \in Repairing!Enabled : j = report.jar /\ Repairing!ToBlame(report) /\ a = <<"disable", j>>
    BY <1>2 DEF Repairing!Proved
  <2>2. j \in client \/ j \notin content
    BY <1>2, <2>1 DEF ReportsHold, Repairing!ToBlame
  <2>3. j \in Suspects
    BY DEF Repairing!Enabled
  <2> QED
    BY <2>1, <2>2, <2>3 DEF Repairing!Doings
<1> QED
  BY <1>1, <1>2 DEF ReportsHold

LEMMA DoingsAreFinite ==
  ASSUME RepairSizes
  PROVE  IsFiniteSet(Repairing!Doings)
PROOF
<1>1. IsFiniteSet({"disable", "enable", "install"})
  <2>1. IsFiniteSet({"disable"})
    BY FS_Singleton
  <2>2. IsFiniteSet({"disable"} \cup {"enable"})
    BY <2>1, FS_AddElement
  <2>3. IsFiniteSet({"disable"} \cup {"enable"} \cup {"install"})
    BY <2>2, FS_AddElement
  <2>4. {"disable", "enable", "install"} = {"disable"} \cup {"enable"} \cup {"install"}
    OBVIOUS
  <2> QED
    BY <2>3, <2>4
<1> QED
  BY <1>1, FS_Product DEF RepairSizes, Repairing!Doings

\* One thing more has been tried.
LEMMA OneTriedMore ==
  ASSUME RepairSizes, NEW old \in SUBSET Repairing!Doings, NEW new \in SUBSET Repairing!Doings,
         new # {}, new \cap old = {}
  PROVE  /\ Repairing!Cardinality(old) \in Nat /\ Repairing!Cardinality(old \cup new) \in Nat
         /\ Repairing!Cardinality(old) + 1 <= Repairing!Cardinality(old \cup new)
PROOF
<1>1. IsFiniteSet(old) /\ IsFiniteSet(old \cup new)
  <2>1. old \cup new \subseteq Repairing!Doings
    OBVIOUS
  <2> QED
    BY <2>1, DoingsAreFinite, FS_Subset
<1>2. PICK a \in new : a \notin old
  OBVIOUS
<1>3. Cardinality(old \cup {a}) = Cardinality(old) + 1 /\ IsFiniteSet(old \cup {a})
  BY <1>1, <1>2, FS_AddElement
<1>4. old \cup {a} \subseteq old \cup new
  OBVIOUS
<1>5. Cardinality(old \cup {a}) <= Cardinality(old \cup new)
  BY <1>1, <1>4, FS_Subset
<1>6. Cardinality(old) \in Nat /\ Cardinality(old \cup new) \in Nat
  BY <1>1, FS_CardinalityType
<1>7. Cardinality(old) + 1 <= Cardinality(old \cup new)
  BY <1>3, <1>5
<1> QED
  BY <1>6, <1>7 DEF Cardinality, Repairing!Cardinality, IsFiniteSet, Repairing!IsFiniteSet

LEMMA SessionBegins ==
  ASSUME RepairSizes, Repairing!Init
  PROVE  RepairInv
PROOF
<1>1. tried = {} /\ round = 1 /\ report = [kind |-> "none"] /\ repairPhase = "boot" /\ says \subseteq client
  BY DEF Repairing!Init
<1>2. Repairing!Cardinality({}) = 0
  BY FS_EmptySet DEF Cardinality, Repairing!Cardinality, IsFiniteSet, Repairing!IsFiniteSet
<1>3. Repairing!RoundsAreNew
  BY <1>1, <1>2 DEF Repairing!RoundsAreNew
<1> QED
  BY <1>1, <1>3 DEF RepairInv, ReportsHold, Repairing!NeverUndoes, Repairing!ContentIsKept

LEMMA SessionGoesOn ==
  ASSUME RepairSizes, RepairInv, [Repairing!Next]_(Repairing!vars)
  PROVE  RepairInv'
PROOF
<1>1. CASE UNCHANGED Repairing!vars
  BY <1>1 DEF Repairing!vars, Repairing!facts, RepairInv, ReportsHold, Repairing!NeverUndoes,
              Repairing!ContentIsKept, Repairing!RoundsAreNew
<1>2. ASSUME NEW j \in Suspects, Repairing!Toggles(j) PROVE RepairInv'
  BY <1>2 DEF Repairing!Toggles, Repairing!facts, RepairInv, ReportsHold, Repairing!NeverUndoes,
              Repairing!ContentIsKept, Repairing!RoundsAreNew
<1>3. CASE Repairing!Boots
  <2>1. UNCHANGED <<client, says, content, needs, round, tried>>
    BY <1>3 DEF Repairing!Boots, Repairing!facts
  <2>2. ReportsHold'
    <3>1. CASE repairPhase' = "decide" /\ report' = [kind |-> "missing"]
      BY <2>1, <3>1 DEF RepairInv, ReportsHold
    <3>2. CASE \E j \in Repairing!Enabled \cap client :
                 Repairing!Says([kind |-> "crash", jar |-> j, loaded |-> TRUE])
      BY <2>1, <3>2 DEF RepairInv, ReportsHold, Repairing!Says
    <3>3. CASE \E j \in Repairing!Enabled :
                 Repairing!Says([kind |-> "crash", jar |-> j, loaded |-> FALSE])
      BY <2>1, <3>3 DEF RepairInv, ReportsHold, Repairing!Says
    <3>4. CASE repairPhase' \in {"ready", "slow"} /\ report' = report
      BY <2>1, <3>4 DEF RepairInv, ReportsHold
    <3> QED
      BY <1>3, <3>1, <3>2, <3>3, <3>4 DEF Repairing!Boots, Repairing!Says
  <2> QED
    BY <2>1, <2>2 DEF RepairInv, Repairing!NeverUndoes, Repairing!ContentIsKept, Repairing!RoundsAreNew
<1>4. CASE Repairing!Decides
  <2> DEFINE new == Repairing!Planned(Repairing!Proved)
  <2>1. repairPhase = "decide" /\ report' = [kind |-> "none"] /\ UNCHANGED <<client, says, content, needs>>
    BY <1>4 DEF Repairing!Decides, Repairing!facts
  <2>2. \/ new = {} /\ repairPhase' = "failed" /\ UNCHANGED <<round, tried>>
        \/ new # {} /\ tried' = tried \cup new /\ Repairing!NextRound
    BY <1>4 DEF Repairing!Decides
  <2>3. \A a \in new : a \in Repairing!Proved /\ a \notin tried /\ Repairing!Undo(a) \notin tried
    BY DEF Repairing!Planned
  <2> HIDE DEF new
  <2>4. \A a \in new :
           /\ a \in Repairing!Doings
           /\ a[1] = "disable" => a[2] \in Repairing!Enabled
           /\ a[1] = "enable" => a[2] \in Repairing!Off
           /\ a[1] = "disable" /\ a[2] \in content \ client =>
                \E d \in needs[a[2]] : d \in RendererJars \cup says \/ d \notin OfferedJars
    BY <2>1, <2>3, ProvedForCause DEF RepairInv
  <2>5. ReportsHold'
    <3>1. repairPhase' \in {"boot", "failed"}
      BY <2>2 DEF Repairing!NextRound
    <3> QED
      BY <2>1, <3>1 DEF RepairInv, ReportsHold
  <2>6. CASE new = {}
    BY <2>1, <2>2, <2>5, <2>6 DEF RepairInv, Repairing!NeverUndoes, Repairing!ContentIsKept,
                                  Repairing!RoundsAreNew
  <2>7. CASE new # {}
    <3>1. tried' = tried \cup new /\ tried' \subseteq Repairing!Doings
      BY <2>2, <2>4, <2>7 DEF RepairInv
    <3>2. round' \in Nat /\ round' <= round + 1
      BY <2>2, <2>7 DEF RepairInv, Repairing!NextRound
    <3>3. Repairing!RoundsAreNew'
      <4>1. /\ Repairing!Cardinality(tried) \in Nat /\ Repairing!Cardinality(tried \cup new) \in Nat
            /\ Repairing!Cardinality(tried) + 1 <= Repairing!Cardinality(tried \cup new)
        BY <2>3, <2>4, <2>7, OneTriedMore DEF RepairInv
      <4>2. round <= Repairing!Cardinality(tried) + 1 /\ round \in Nat
        BY DEF RepairInv, Repairing!RoundsAreNew
      <4>3. round' <= Repairing!Cardinality(tried \cup new) + 1
        BY <3>2, <4>1, <4>2
      <4> QED
        BY <3>1, <4>3 DEF Repairing!RoundsAreNew
    <3>4. Repairing!NeverUndoes'
      <4> SUFFICES ASSUME NEW j \in Suspects, <<"disable", j>> \in tried', <<"enable", j>> \in tried'
                   PROVE  FALSE
        BY DEF Repairing!NeverUndoes
      <4>1. ~(<<"disable", j>> \in tried /\ <<"enable", j>> \in tried)
        BY DEF RepairInv, Repairing!NeverUndoes
      <4>2. CASE <<"disable", j>> \in new /\ <<"enable", j>> \in new
        <5>1. j \in Repairing!Enabled /\ j \in Repairing!Off
          BY <2>4, <4>2
        <5> QED
          BY <5>1 DEF Repairing!Enabled, Repairing!Off
      <4>3. CASE <<"disable", j>> \in new /\ <<"enable", j>> \in tried
        BY <2>3, <4>3 DEF Repairing!Undo
      <4>4. CASE <<"disable", j>> \in tried /\ <<"enable", j>> \in new
        BY <2>3, <4>4 DEF Repairing!Undo
      <4> QED
        BY <3>1, <4>1, <4>2, <4>3, <4>4
    <3>5. Repairing!ContentIsKept'
      <4> SUFFICES ASSUME NEW j \in content \ client, <<"disable", j>> \in tried'
                   PROVE  \E d \in needs[j] : d \in RendererJars \cup says \/ d \notin OfferedJars
        BY <2>1 DEF Repairing!ContentIsKept
      <4>1. CASE <<"disable", j>> \in tried
        BY <4>1 DEF RepairInv, Repairing!ContentIsKept
      <4>2. CASE <<"disable", j>> \in new
        <5>1. <<"disable", j>>[1] = "disable" /\ <<"disable", j>>[2] = j
          OBVIOUS
        <5> QED
          BY <2>4, <4>2, <5>1
      <4> QED
        BY <3>1, <4>1, <4>2
    <3> QED
      BY <2>5, <3>1, <3>2, <3>3, <3>4, <3>5 DEF RepairInv
  <2> QED
    BY <2>6, <2>7
<1> QED
  BY <1>1, <1>2, <1>3, <1>4 DEF Repairing!Next

\* Repair: whatever a person switches meanwhile and whatever fails to apply, a session never takes
\* back what it did, switches content off only for what no server can have, and tries something
\* new in every round.
THEOREM RepairsGetOn ==
  ASSUME RepairSizes
  PROVE  Repairing!Spec =>
           [](Repairing!NeverUndoes /\ Repairing!ContentIsKept /\ Repairing!RoundsAreNew)
PROOF
<1>1. Repairing!Init => RepairInv
  BY SessionBegins
<1>2. RepairInv /\ [Repairing!Next]_(Repairing!vars) => RepairInv'
  BY SessionGoesOn
<1>3. RepairInv => Repairing!NeverUndoes /\ Repairing!ContentIsKept /\ Repairing!RoundsAreNew
  BY DEF RepairInv
<1> QED
  BY <1>1, <1>2, <1>3, PTL DEF Repairing!Spec

-----------------------------------------------------------------------------
(***************************************************************************)
(* BootTest: what a test boot goes by is this boot.                        *)
(***************************************************************************)
\* Nothing is said of a boot before it is watched.
BootInv ==
  /\ bootPhase \in {"begin", "read", "watch"} => outcome = "none"
  /\ Booting!ReadyIsThisBoot

LEMMA BootBegins ==
  ASSUME Booting!Init
  PROVE  BootInv
PROOF
  BY DEF Booting!Init, BootInv, Booting!ReadyIsThisBoot

LEMMA BootGoesOn ==
  ASSUME BootInv, [Booting!Next]_(Booting!vars)
  PROVE  BootInv'
PROOF
<1> USE DEF BootInv, Booting!ReadyIsThisBoot
<1>1. CASE UNCHANGED Booting!vars
  BY <1>1 DEF Booting!vars, Booting!logs
<1>2. CASE Booting!ServerMoves
  <2>1. UNCHANGED <<bootPhase, logBase, outcome>> /\ newLog \subseteq newLog'
    BY <1>2 DEF Booting!ServerMoves
  <2> QED
    BY <2>1
<1>3. CASE Booting!ReadsOld \/ Booting!Starts
  <2>1. bootPhase' \in {"read", "watch"} /\ outcome' = "none"
    BY <1>3 DEF Booting!ReadsOld, Booting!Starts
  <2> QED
    BY <2>1
<1>4. CASE Booting!UnreadPoll \/ Booting!Stops
  <2>1. UNCHANGED <<newLog, logBase, outcome>> /\ bootPhase' \in {bootPhase, "over"}
    BY <1>4 DEF Booting!UnreadPoll, Booting!Stops, Booting!logs
  <2> QED
    BY <2>1
<1>5. CASE Booting!Polls
  <2>1. UNCHANGED <<newLog, logBase>> /\ bootPhase = "watch"
    BY <1>5 DEF Booting!Polls, Booting!logs
  <2>2. CASE "done" \in Booting!Ours /\ bootPhase' = "stop" /\ outcome' = "ready"
    <3>1. "done" \in newLog \/ logBase = "none"
      BY <2>2 DEF Booting!Ours, Booting!InFile
    <3> QED
      BY <2>1, <2>2, <3>1
  <2>3. CASE bootPhase' = "stop" /\ outcome' = "failed"
    BY <2>3
  <2>4. CASE UNCHANGED <<bootPhase, outcome>>
    BY <2>1, <2>4
  <2> QED
    BY <1>5, <2>2, <2>3, <2>4 DEF Booting!Polls, Booting!Ends
<1>6. CASE Booting!TimesOut
  BY <1>6 DEF Booting!TimesOut, Booting!Ends, Booting!logs
<1> QED
  BY <1>1, <1>2, <1>3, <1>4, <1>5, <1>6 DEF Booting!Next, Booting!Watches

\* BootTest: however much of the last boot is still in the log and however late the node answers,
\* a boot is called up only if it got there.
THEOREM UpIsThisBoot == Booting!Spec => []Booting!ReadyIsThisBoot
PROOF
<1>1. Booting!Init => BootInv
  BY BootBegins
<1>2. BootInv /\ [Booting!Next]_(Booting!vars) => BootInv'
  BY BootGoesOn
<1>3. BootInv => Booting!ReadyIsThisBoot
  BY DEF BootInv
<1> QED
  BY <1>1, <1>2, <1>3, PTL DEF Booting!Spec

-----------------------------------------------------------------------------
(***************************************************************************)
(* ServerJar: the startup command names a jar that is there.               *)
(***************************************************************************)
\* There is a build at least.
JarSizes == MaxBuild \in Nat \ {0} /\ MaxJarJobs \in Nat /\ MaxJarTroubles \in Nat

\* A job is for a build there is; from the ladder on its jar is in the folder, and once the
\* command is set it names that jar.
JobHoldsItsJar ==
  /\ jarJob.at # "none" => jarJob.new \in Jar!Builds
  /\ jarJob.at \in {"run", "command", "remove", "record"} => jarFolder[jarJob.new] = "good"
  /\ jarJob.at \in {"remove", "record"} => jarCommand = jarJob.new
  /\ jarJob.kind = "none" => jarJob.at = "none"

JarInv == Jar!TypeOK /\ JobHoldsItsJar /\ Jar!CommandHasItsJar /\ Jar!CompleteCanStart

LEMMA NoJarYet ==
  ASSUME JarSizes, Jar!Init
  PROVE  JarInv
PROOF
<1>1. /\ published = 1 /\ jarFolder = [b \in Jar!Builds |-> "none"] /\ jarCommand = 0 /\ made = FALSE
      /\ jarManifest = Jar!NoManifest /\ running = 0 /\ jarJob = Jar!NoUpdate
      /\ jarJobs = 0 /\ jarTroubles = 0
  BY DEF Jar!Init, Jar!NoBuild
<1>2. jarManifest \in [written : BOOLEAN, complete : BOOLEAN, build : 0 .. MaxBuild]
      /\ jarManifest.complete = FALSE
  BY <1>1 DEF JarSizes, Jar!NoManifest, Jar!NoBuild
<1>3. /\ jarJob \in [kind : Jar!Kinds, at : Jar!Places, new : 0 .. MaxBuild, old : 0 .. MaxBuild,
                     was : BOOLEAN]
      /\ jarJob.at = "none"
  BY <1>1 DEF JarSizes, Jar!NoUpdate, Jar!NoBuild, Jar!Kinds, Jar!Places
<1>4. Jar!TypeOK
  <2>1. published \in Jar!Builds /\ jarCommand \in 0 .. MaxBuild /\ running \in 0 .. MaxBuild
        /\ jarJobs \in 0 .. MaxJarJobs /\ jarTroubles \in 0 .. MaxJarTroubles
    BY <1>1 DEF JarSizes, Jar!Builds
  <2>2. jarFolder \in [Jar!Builds -> {"none", "good", "bad"}] /\ made \in BOOLEAN
    BY <1>1
  <2> QED
    BY <1>2, <1>3, <2>1, <2>2 DEF Jar!TypeOK
<1>5. JobHoldsItsJar /\ Jar!CommandHasItsJar /\ Jar!CompleteCanStart
  BY <1>1, <1>2, <1>3 DEF JobHoldsItsJar, Jar!CommandHasItsJar, Jar!CompleteCanStart, Jar!NoBuild
<1> QED
  BY <1>4, <1>5 DEF JarInv

JarJobs ==
  [kind : Jar!Kinds, at : Jar!Places, new : 0 .. MaxBuild, old : 0 .. MaxBuild, was : BOOLEAN]

\* What a step has to keep that leaves the jars and the command alone.
LEMMA JarJobMoves ==
  ASSUME JarSizes, JarInv, UNCHANGED <<jarFolder, jarCommand>>,
         published' \in Jar!Builds, made' \in BOOLEAN, running' \in 0 .. MaxBuild,
         jarJobs' \in 0 .. MaxJarJobs, jarTroubles' \in 0 .. MaxJarTroubles,
         jarManifest' \in [written : BOOLEAN, complete : BOOLEAN, build : 0 .. MaxBuild],
         jarManifest'.complete => jarManifest.complete \/ jarCommand # Jar!NoBuild,
         jarJob' \in JarJobs, JobHoldsItsJar'
  PROVE  JarInv'
PROOF
<1>1. Jar!TypeOK'
  BY DEF JarInv, Jar!TypeOK, JarJobs
<1>2. Jar!CommandHasItsJar' /\ Jar!CompleteCanStart'
  BY DEF JarInv, Jar!CommandHasItsJar, Jar!CompleteCanStart
<1> QED
  BY <1>1, <1>2 DEF JarInv

LEMMA JarTyped ==
  ASSUME JarSizes, JarInv
  PROVE  /\ published \in Jar!Builds /\ made \in BOOLEAN /\ running \in 0 .. MaxBuild
         /\ jarFolder \in [Jar!Builds -> {"none", "good", "bad"}] /\ jarCommand \in 0 .. MaxBuild
         /\ jarJobs \in 0 .. MaxJarJobs /\ jarTroubles \in 0 .. MaxJarTroubles
         /\ jarManifest \in [written : BOOLEAN, complete : BOOLEAN, build : 0 .. MaxBuild]
         /\ jarJob \in JarJobs
         /\ \A b \in Jar!Builds : b \in 0 .. MaxBuild /\ b # Jar!NoBuild
         /\ Jar!Trouble => jarTroubles' \in 0 .. MaxJarTroubles
PROOF
<1>1. \A b \in Jar!Builds : b \in 0 .. MaxBuild /\ b # Jar!NoBuild
  BY DEF JarSizes, Jar!Builds, Jar!NoBuild
<1>2. Jar!Trouble => jarTroubles' \in 0 .. MaxJarTroubles
  BY DEF JarSizes, JarInv, Jar!TypeOK, Jar!Trouble
<1> QED
  BY <1>1, <1>2 DEF JarInv, Jar!TypeOK, JarJobs

\* The next place of a job.
LEMMA JobGoesOn ==
  ASSUME JarSizes, JarInv, NEW p \in Jar!Places, Jar!Goes(p), jarJob.at # "none", p # "none"
  PROVE  /\ jarJob' \in JarJobs /\ jarJob'.at = p /\ jarJob'.new = jarJob.new
         /\ jarJob'.old = jarJob.old /\ jarJob'.kind = jarJob.kind /\ jarJob'.kind # "none"
         /\ jarJob'.new \in Jar!Builds
PROOF
<1>1. jarJob \in JarJobs
  BY JarTyped
<1>2. jarJob' = [jarJob EXCEPT !.at = p]
  BY DEF Jar!Goes
<1>3. jarJob.kind # "none" /\ jarJob.new \in Jar!Builds
  BY DEF JarInv, JobHoldsItsJar
<1> QED
  BY <1>1, <1>2, <1>3 DEF JarJobs

LEMMA JobIsGone ==
  ASSUME JarSizes, jarJob' = Jar!NoUpdate
  PROVE  jarJob' \in JarJobs /\ jarJob'.at = "none" /\ JobHoldsItsJar'
PROOF
<1>1. Jar!NoUpdate \in JarJobs /\ Jar!NoUpdate.at = "none" /\ Jar!NoUpdate.kind = "none"
  BY DEF JarSizes, JarJobs, Jar!NoUpdate, Jar!NoBuild, Jar!Kinds, Jar!Places
<1> QED
  BY <1>1 DEF JobHoldsItsJar

LEMMA JobBegins ==
  ASSUME JarSizes, JarInv, NEW kind \in Jar!Kinds \ {"none"}, NEW p \in {"make", "fetch", "backup"},
         NEW build \in Jar!Builds, Jar!Begins(kind, p, build)
  PROVE  JarInv'
PROOF
<1> DEFINE q == [kind |-> kind, at |-> p, new |-> build, old |-> jarCommand, was |-> running # Jar!NoBuild]
<1>1. jarJob' = q /\ jarJobs' \in 0 .. MaxJarJobs
      /\ UNCHANGED <<published, jarFolder, jarCommand, made, jarManifest, running, jarTroubles>>
  BY JarTyped DEF JarSizes, Jar!Begins
<1>2. q \in JarJobs
  BY JarTyped DEF JarJobs, Jar!Places
<1>3. q.at = p /\ q.new = build /\ q.kind = kind
  OBVIOUS
<1> HIDE DEF q
<1>4. JobHoldsItsJar'
  BY <1>1, <1>3 DEF JobHoldsItsJar
<1> QED
  BY <1>1, <1>2, <1>4, JarTyped, JarJobMoves

LEMMA JarGoesOn ==
  ASSUME JarSizes, JarInv, [Jar!Next]_(Jar!vars)
  PROVE  JarInv'
PROOF
<1>0. CASE UNCHANGED Jar!vars
  BY <1>0 DEF Jar!vars, JarInv, Jar!TypeOK, JobHoldsItsJar, Jar!CommandHasItsJar, Jar!CompleteCanStart
<1>1. CASE Jar!CreateBegins \/ Jar!FinishBegins \/ Jar!UpdateBegins
  <2>1. published \in Jar!Builds
    BY JarTyped
  <2>2. jarManifest.build \in Jar!Builds \/ jarManifest.build = Jar!NoBuild
    BY JarTyped DEF JarSizes, Jar!Builds, Jar!NoBuild
  <2>3. {"create", "finish", "update"} \subseteq Jar!Kinds \ {"none"}
    BY DEF Jar!Kinds
  <2>4. CASE Jar!CreateBegins
    BY <2>1, <2>3, <2>4, JobBegins DEF Jar!CreateBegins
  <2>5. CASE Jar!FinishBegins
    BY <2>1, <2>2, <2>3, <2>5, JobBegins DEF Jar!FinishBegins
  <2>6. CASE Jar!UpdateBegins
    BY <2>1, <2>3, <2>6, JobBegins DEF Jar!UpdateBegins
  <2> QED
    BY <1>1, <2>4, <2>5, <2>6
<1>2. CASE Jar!Creates \/ Jar!BackedUp \/ Jar!Stopped \/ Jar!StubWritten
  <2>1. PICK p \in {"stub", "stop", "fetch"} : Jar!Goes(p) /\ jarJob.at # "none"
    BY <1>2 DEF Jar!Creates, Jar!BackedUp, Jar!Stopped, Jar!StubWritten, Jar!At
  <2>2. jarJob' \in JarJobs /\ jarJob'.at = p /\ jarJob'.kind # "none" /\ jarJob'.new \in Jar!Builds
    BY <2>1, JobGoesOn DEF Jar!Places
  <2>3. JobHoldsItsJar'
    BY <2>2 DEF JobHoldsItsJar
  <2>4. /\ UNCHANGED <<published, jarFolder, jarCommand, jarJobs>>
        /\ running' \in {running, Jar!NoBuild}
        /\ jarTroubles' = jarTroubles \/ Jar!Trouble
        /\ jarManifest' \in {jarManifest, [Jar!NoManifest EXCEPT !.written = TRUE]}
    BY <1>2 DEF Jar!Creates, Jar!BackedUp, Jar!Stopped, Jar!StubWritten
  <2>5. [Jar!NoManifest EXCEPT !.written = TRUE] \in [written : BOOLEAN, complete : BOOLEAN, build : 0 .. MaxBuild]
        /\ ~[Jar!NoManifest EXCEPT !.written = TRUE].complete
    <3>1. Jar!NoManifest \in [written : BOOLEAN, complete : BOOLEAN, build : 0 .. MaxBuild]
          /\ Jar!NoManifest.complete = FALSE
      BY DEF JarSizes, Jar!NoManifest, Jar!NoBuild
    <3> QED
      BY <3>1
  <2>6. /\ jarManifest' \in [written : BOOLEAN, complete : BOOLEAN, build : 0 .. MaxBuild]
        /\ jarManifest'.complete => jarManifest.complete
    BY <2>4, <2>5, JarTyped
  <2>7. running' \in 0 .. MaxBuild /\ made' \in BOOLEAN /\ jarTroubles' \in 0 .. MaxJarTroubles
    <3>1. made' = made \/ made' = TRUE
      BY <1>2 DEF Jar!Creates, Jar!BackedUp, Jar!Stopped, Jar!StubWritten
    <3>2. made' \in BOOLEAN
      BY <3>1, JarTyped
    <3>3. running' \in 0 .. MaxBuild
      BY <2>4, JarTyped DEF JarSizes, Jar!NoBuild
    <3>4. jarTroubles' \in 0 .. MaxJarTroubles
      BY <2>4, JarTyped
    <3> QED
      BY <3>2, <3>3, <3>4
  <2> QED
    BY <2>2, <2>3, <2>4, <2>6, <2>7, JarTyped, JarJobMoves
<1>3. CASE Jar!Breaks
  BY <1>3, JobIsGone, JarTyped, JarJobMoves DEF Jar!Breaks
<1>4. CASE Jar!Publishes \/ Jar!Powers
  <2>1. UNCHANGED <<jarFolder, jarCommand, made, jarManifest, jarJob, jarJobs, jarTroubles>>
    BY <1>4 DEF Jar!Publishes, Jar!Powers
  <2>2. published' \in Jar!Builds /\ running' \in 0 .. MaxBuild
    BY <1>4, JarTyped DEF JarSizes, Jar!Publishes, Jar!Powers, Jar!Builds, Jar!NoBuild
  <2>3. JobHoldsItsJar'
    BY <2>1 DEF JarInv, JobHoldsItsJar
  <2> QED
    BY <2>1, <2>2, <2>3, JarTyped, JarJobMoves
<1>5. CASE Jar!NodeFetches \/ Jar!Relays \/ Jar!OldRemoved
  <2>1. PICK p \in {"run", "relay", "record"} :
          /\ Jar!Goes(p) /\ jarJob.at # "none"
          /\ p = "record" <=> jarJob.at = "remove"
    BY <1>5 DEF Jar!NodeFetches, Jar!Relays, Jar!OldRemoved, Jar!At
  <2>2. /\ jarJob' \in JarJobs /\ jarJob'.at = p /\ jarJob'.new = jarJob.new
        /\ jarJob'.kind # "none" /\ jarJob'.new \in Jar!Builds
    BY <2>1, JobGoesOn DEF Jar!Places
  <2>3. /\ UNCHANGED <<published, jarCommand, made, jarManifest, running, jarJobs>>
        /\ jarTroubles' = jarTroubles \/ Jar!Trouble
    BY <1>5 DEF Jar!NodeFetches, Jar!Relays, Jar!OldRemoved
  <2>4. /\ jarFolder' \in [Jar!Builds -> {"none", "good", "bad"}]
        /\ p = "run" => jarFolder'[jarJob.new] = "good"
        /\ p # "record" => \A b \in Jar!Builds : jarFolder[b] = "good" => jarFolder'[b] = "good"
        /\ p = "record" => jarFolder'[jarJob.new] = jarFolder[jarJob.new]
    <3>1. jarJob.new \in Jar!Builds
      BY <2>2
    <3>2. CASE jarFolder' = [jarFolder EXCEPT ![jarJob.new] = "good"] /\ p # "record"
      BY <3>1, <3>2, JarTyped
    <3>3. CASE jarFolder' = jarFolder /\ p # "run"
      BY <3>3, JarTyped
    <3>4. CASE p = "record" /\
               jarFolder' = [b \in Jar!Builds |->
                               IF b = jarJob.old /\ jarJob.old # jarJob.new THEN "none" ELSE jarFolder[b]]
      BY <3>1, <3>4, JarTyped
    <3>5. CASE Jar!NodeFetches
      <4>1. jarJob.at = "fetch"
        BY <3>5 DEF Jar!NodeFetches, Jar!At
      <4>2. CASE Jar!Goes("run") /\ Jar!Fetched(jarJob.new)
        BY <2>1, <3>2, <4>1, <4>2 DEF Jar!Fetched
      <4>3. CASE Jar!Goes("relay") /\ UNCHANGED jarFolder
        <5>1. jarJob'.at = "relay"
          BY <4>1, <4>3, JobGoesOn DEF Jar!Places
        <5> QED
          BY <2>2, <3>3, <4>3, <5>1
      <4> QED
        BY <3>5, <4>2, <4>3 DEF Jar!NodeFetches
    <3>6. CASE Jar!Relays
      <4>1. jarJob.at = "relay" /\ jarFolder' = [jarFolder EXCEPT ![jarJob.new] = "good"]
        BY <3>6 DEF Jar!Relays, Jar!At, Jar!Relayed
      <4> QED
        BY <2>1, <3>2, <4>1
    <3>7. CASE Jar!OldRemoved
      <4>1. p = "record"
        BY <2>1, <3>7 DEF Jar!OldRemoved, Jar!At
      <4> QED
        BY <3>3, <3>4, <3>7, <4>1 DEF Jar!OldRemoved
    <3> QED
      BY <1>5, <3>5, <3>6, <3>7
  <2>5. Jar!TypeOK'
    BY <2>2, <2>3, <2>4, JarTyped DEF Jar!TypeOK, JarJobs
  <2>6. p = "record" => jarCommand = jarJob.new /\ jarFolder[jarJob.new] = "good"
    BY <2>1 DEF JarInv, JobHoldsItsJar
  <2>7. JobHoldsItsJar'
    BY <2>2, <2>3, <2>4, <2>6 DEF JobHoldsItsJar
  <2>8. Jar!CommandHasItsJar'
    <3>1. CASE p = "record"
      BY <2>3, <2>4, <2>6, <3>1 DEF Jar!CommandHasItsJar
    <3>2. CASE p # "record"
      <4>1. jarCommand \in Jar!Builds \/ jarCommand = Jar!NoBuild
        BY JarTyped DEF JarSizes, Jar!Builds, Jar!NoBuild
      <4> QED
        BY <2>3, <2>4, <3>2, <4>1 DEF JarInv, Jar!CommandHasItsJar
    <3> QED
      BY <3>1, <3>2
  <2>9. Jar!CompleteCanStart'
    BY <2>3 DEF JarInv, Jar!CompleteCanStart
  <2> QED
    BY <2>5, <2>7, <2>8, <2>9 DEF JarInv
<1>6. CASE Jar!RunsInstaller
  <2>1. jarJob.at = "run" /\ jarJob' \in JarJobs /\ jarJob'.at = "command" /\ jarJob'.new = jarJob.new
        /\ jarJob'.kind # "none" /\ jarJob'.new \in Jar!Builds
    BY <1>6, JobGoesOn DEF Jar!RunsInstaller, Jar!At, Jar!Places
  <2>2. UNCHANGED <<published, jarFolder, jarCommand, made, jarManifest, running, jarJobs, jarTroubles>>
    BY <1>6 DEF Jar!RunsInstaller
  <2>3. JobHoldsItsJar'
    BY <2>1, <2>2 DEF JarInv, JobHoldsItsJar
  <2> QED
    BY <2>1, <2>2, <2>3, JarTyped, JarJobMoves
<1>7. CASE Jar!CommandSet
  <2>1. PICK p \in {"remove", "record"} : Jar!Goes(p)
    BY <1>7 DEF Jar!CommandSet, Jar!AfterFetch
  <2>2. jarJob.at = "command" /\ jarJob' \in JarJobs /\ jarJob'.at = p /\ jarJob'.new = jarJob.new
        /\ jarJob'.kind # "none" /\ jarJob'.new \in Jar!Builds
    BY <1>7, <2>1, JobGoesOn DEF Jar!CommandSet, Jar!At, Jar!Places
  <2>3. UNCHANGED <<published, jarFolder, made, jarManifest, running, jarJobs, jarTroubles>>
        /\ jarCommand' = jarJob.new
    BY <1>7 DEF Jar!CommandSet
  <2>4. jarFolder[jarJob.new] = "good"
    BY <2>2 DEF JarInv, JobHoldsItsJar
  <2>5. JobHoldsItsJar' /\ Jar!CommandHasItsJar'
    BY <2>2, <2>3, <2>4 DEF JobHoldsItsJar, Jar!CommandHasItsJar
  <2>6. Jar!CompleteCanStart'
    BY <2>2, <2>3, JarTyped DEF Jar!CompleteCanStart
  <2>7. Jar!TypeOK'
    BY <2>2, <2>3, JarTyped DEF Jar!TypeOK, JarJobs
  <2> QED
    BY <2>5, <2>6, <2>7 DEF JarInv
<1>8. CASE Jar!Recorded
  <2> DEFINE new == [written |-> TRUE, complete |-> TRUE,
                     build |-> IF jarJob.kind = "finish" THEN jarManifest.build ELSE jarJob.new]
  <2>1. jarJob.at = "record" /\ (Jar!Goes("again") \/ jarJob' = Jar!NoUpdate)
    BY <1>8 DEF Jar!Recorded, Jar!At
  <2>2. jarJob' \in JarJobs /\ JobHoldsItsJar'
    <3>1. CASE Jar!Goes("again")
      <4>1. jarJob' \in JarJobs /\ jarJob'.at = "again" /\ jarJob'.kind # "none" /\ jarJob'.new \in Jar!Builds
        BY <2>1, <3>1, JobGoesOn DEF Jar!Places
      <4> QED
        BY <4>1 DEF JobHoldsItsJar
    <3>2. CASE jarJob' = Jar!NoUpdate
      BY <3>2, JobIsGone
    <3> QED
      BY <2>1, <3>1, <3>2
  <2>3. jarCommand # Jar!NoBuild /\ jarJob.new \in 0 .. MaxBuild
    BY <2>1, JarTyped DEF JarInv, JobHoldsItsJar
  <2>4. new \in [written : BOOLEAN, complete : BOOLEAN, build : 0 .. MaxBuild]
    BY <2>3, JarTyped
  <2>5. /\ UNCHANGED <<published, jarFolder, jarCommand, made, running, jarJobs>>
        /\ jarTroubles' = jarTroubles \/ Jar!Trouble
        /\ jarManifest' \in {jarManifest, new}
    BY <1>8 DEF Jar!Recorded
  <2> HIDE DEF new
  <2>6. jarManifest' \in [written : BOOLEAN, complete : BOOLEAN, build : 0 .. MaxBuild]
        /\ jarTroubles' \in 0 .. MaxJarTroubles
    BY <2>4, <2>5, JarTyped
  <2> QED
    BY <2>2, <2>3, <2>5, <2>6, JarTyped, JarJobMoves
<1>9. CASE Jar!StartedAgain
  <2>1. /\ UNCHANGED <<published, jarFolder, jarCommand, made, jarManifest, jarJobs, jarTroubles>>
        /\ jarJob' = Jar!NoUpdate /\ running' \in {jarCommand, Jar!NoBuild}
    BY <1>9 DEF Jar!StartedAgain
  <2>2. running' \in 0 .. MaxBuild
    BY <2>1, JarTyped DEF JarSizes, Jar!NoBuild
  <2> QED
    BY <2>1, <2>2, JobIsGone, JarTyped, JarJobMoves
<1> QED
  BY <1>0, <1>1, <1>2, <1>3, <1>4, <1>5, <1>6, <1>7, <1>8, <1>9 DEF Jar!Next

\* ServerJar: wherever a creation, a finished setup or an update dies, the startup command names a
\* jar that is in the folder and is the one that was published, and a server that is called
\* complete has such a command.
THEOREM JarIsThere ==
  ASSUME JarSizes
  PROVE  Jar!Spec => [](Jar!CommandHasItsJar /\ Jar!CompleteCanStart)
PROOF
<1>1. Jar!Init => JarInv
  BY NoJarYet
<1>2. JarInv /\ [Jar!Next]_(Jar!vars) => JarInv'
  BY JarGoesOn
<1>3. JarInv => Jar!CommandHasItsJar /\ Jar!CompleteCanStart
  BY DEF JarInv
<1> QED
  BY <1>1, <1>2, <1>3, PTL DEF Jar!Spec

-----------------------------------------------------------------------------
(***************************************************************************)
(* Heap: the heap in force is the one that was typed.                      *)
(***************************************************************************)
\* Forge is the loader that reads user_jvm_args.txt; sizes are numbers; a new server has no mods.
HeapSizes ==
  /\ \A w \in HeapWorlds : w[1] = "forge" <=> w[2] = TRUE
  /\ TypedHeaps \subseteq Nat /\ ModCounts \subseteq Nat /\ FreeMemory \subseteq Nat
  /\ Memory \in Nat /\ 0 \in ModCounts

HeapRecords == [mem : Nat, heap : Nat, by : BOOLEAN]
HeapRequests ==
  [op : {"none", "tune", "perf", "repair"},
   pc : {"idle", "put", "count", "limits", "size", "analyse", "grow", "grew"},
   heap : Nat, by : BOOLEAN, count : Nat, read : HeapRecords, limit : Nat]

HeapTypes ==
  /\ heapWorld \in HeapWorlds /\ modCount \in Nat /\ heapFile \in Nat /\ heapCommand \in Nat
  /\ heapRecord \in HeapRecords /\ resizing \in [Resizers -> HeapRequests]
  /\ wanted \in Nat /\ sized \in Nat /\ heapExcused \in BOOLEAN

Works(r) == resizing[r].op # "none"
\* The heap is in force, in the record and in the container, as it was wanted.
Settled ==
  /\ heapRecord.mem >= Sizing!Container(Sizing!InForce, sized)
  /\ heapRecord.heap = Sizing!InForce /\ Sizing!InForce = wanted

\* Where a request is, and what it knows.
Placed(r) ==
  /\ Works(r) <=> resizing[r].pc # "idle"
  /\ resizing[r].pc \in {"analyse", "grow", "grew"} => resizing[r].op = "repair"
Knows(r) ==
  /\ resizing[r].pc \in {"count", "limits", "size"} => Sizing!InForce = resizing[r].heap
  /\ resizing[r].pc \in {"analyse", "grow", "grew"} =>
       Settled /\ resizing[r].read = heapRecord /\ resizing[r].limit = heapRecord.mem
  /\ resizing[r].pc \in {"grow", "grew"} => resizing[r].heap = Sizing!InForce
  /\ resizing[r].pc = "grew" => resizing[r].by = heapRecord.by
  /\ resizing[r].op = "repair" /\ resizing[r].pc = "put" =>
       /\ ~heapRecord.by
       /\ resizing[r].heap # 512 =>
            Sizing!Container(resizing[r].heap, resizing[r].count) <= heapRecord.mem

HeapInv ==
  /\ HeapTypes
  /\ \A r \in Resizers : Placed(r)
  /\ ~heapExcused =>
       /\ \A r, q \in Resizers : Works(r) /\ Works(q) => r = q
       /\ (\A r \in Resizers : ~Works(r)) => Settled
       /\ \A r \in Resizers : Works(r) => Knows(r)

-----------------------------------------------------------------------------
(* Sizes.                                                                  *)

LEMMA ContainersAreNumbers ==
  ASSUME NEW h \in Nat, NEW k \in Nat
  PROVE  Sizing!Container(h, k) \in Nat
PROOF
<1>1. Sizing!ByMods(k) \in Nat
  BY DEF Sizing!ByMods, Sizing!OverheadMin, Sizing!Least
<1>2. h \div 5 \in Nat
  OBVIOUS
<1>3. Sizing!Overhead(h, k) \in Nat
  BY <1>1, <1>2 DEF Sizing!Overhead, Sizing!Most, Sizing!OverheadMin
<1> QED
  BY <1>3 DEF Sizing!Container

\* The largest heap that fits is one that fits, unless it is the least there is.
LEMMA HeapsFit ==
  ASSUME NEW m \in Nat, NEW k \in Nat
  PROVE  /\ Sizing!HeapFor(m, k) \in Nat
         /\ Sizing!HeapFor(m, k) # 512 => Sizing!Container(Sizing!HeapFor(m, k), k) <= m
PROOF
<1> DEFINE B == Sizing!ByMods(k)
           L == Sizing!Least(m - B, (5 * m) \div 6)
           v == (L \div 256) * 256
           h == Sizing!HeapFor(m, k)
<1>1. B \in Nat /\ B >= 768
  <2>1. (5 * k) \div 2 \in Nat
    OBVIOUS
  <2> QED
    BY <2>1 DEF Sizing!ByMods, Sizing!OverheadMin, Sizing!Least
<1> HIDE DEF B
<1>2. L \in Int /\ L <= m - B /\ L <= (5 * m) \div 6
  BY <1>1 DEF Sizing!Least
<1> HIDE DEF L
<1>3. v \in Int /\ v <= L
  BY <1>2
<1> HIDE DEF v
<1>4. h = IF 512 >= v THEN 512 ELSE v
  BY DEF Sizing!HeapFor, Sizing!Most, v, L, B
<1>5. h \in Nat
  BY <1>3, <1>4
<1>6. ASSUME h # 512 PROVE Sizing!Container(h, k) <= m
  <2>1. h <= m - B /\ h <= (5 * m) \div 6
    BY <1>1, <1>2, <1>3, <1>4, <1>6
  <2> HIDE DEF h
  <2>2. h + B <= m /\ h + 768 <= m
    BY <1>1, <1>5, <2>1
  <2>3. 6 * h <= 5 * m
    BY <1>5, <2>1
  <2>4. 5 * (h \div 5) <= h /\ h \div 5 \in Nat
    BY <1>5
  <2>5. h + (h \div 5) <= m
    BY <1>5, <2>3, <2>4
  <2>6. Sizing!Overhead(h, k) \in {768, h \div 5, B}
    BY DEF Sizing!Overhead, Sizing!Most, Sizing!OverheadMin, B
  <2> QED
    BY <2>2, <2>5, <2>6 DEF Sizing!Container
<1> QED
  BY <1>5, <1>6

\* What is grown is larger.
LEMMA GrownIsMore ==
  ASSUME NEW h \in Nat, NEW limit \in Nat, NEW k \in Nat, NEW free \in Nat, Memory \in Nat
  PROVE  /\ Sizing!Grown(h, limit, k, free) \in Nat
         /\ Sizing!Grown(h, limit, k, free) # 0 => Sizing!Grown(h, limit, k, free) > limit
PROOF
<1> DEFINE over == Sizing!Most(0, limit - h)
           more == Sizing!Most(h + Sizing!Most((5 * over) \div 4, over + Sizing!GrowMin), Sizing!Container(h, k))
           next == Sizing!Least(Memory, more)
           room == free - Sizing!KeepFree
<1>1. over \in Nat
  BY DEF Sizing!Most
<1>2. Sizing!Container(h, k) \in Nat
  BY ContainersAreNumbers
<1> HIDE DEF over
<1>3. (5 * over) \div 4 \in Nat
  BY <1>1
<1>4. more \in Nat
  BY <1>1, <1>2, <1>3 DEF Sizing!Most, Sizing!GrowMin
<1> HIDE DEF more
<1>5. next \in Nat
  BY <1>4 DEF Sizing!Least
<1>6. room \in Int
  BY DEF Sizing!KeepFree
<1>7. Sizing!Grown(h, limit, k, free) =
        IF next <= limit THEN 0
        ELSE IF free = 0 \/ room = 0 \/ next <= room THEN next
        ELSE IF room < limit + Sizing!GrowMin \div 2 THEN 0 ELSE room
  BY DEF Sizing!Grown, next, room, more, over
<1>8. Sizing!GrowMin \div 2 = 512
  BY DEF Sizing!GrowMin
<1> HIDE DEF next, room
<1>9. \/ Sizing!Grown(h, limit, k, free) = 0
      \/ next > limit /\ Sizing!Grown(h, limit, k, free) = next
      \/ room >= limit + 512 /\ Sizing!Grown(h, limit, k, free) = room
  BY <1>5, <1>6, <1>7, <1>8
<1> QED
  BY <1>5, <1>6, <1>9

-----------------------------------------------------------------------------
(* The steps.                                                              *)

LEMMA ServerIsMade ==
  ASSUME HeapSizes, Sizing!Init
  PROVE  HeapInv
PROOF
<1>1. PICK h \in TypedHeaps, by \in BOOLEAN :
        /\ heapFile = IF Sizing!ReadsFile THEN h ELSE 0
        /\ heapCommand = IF Sizing!ReadsFile THEN 0 ELSE h
        /\ heapRecord = [mem |-> Sizing!Container(h, 0), heap |-> h, by |-> by]
        /\ wanted = h /\ sized = 0
  BY DEF Sizing!Init
<1>2. h \in Nat /\ Sizing!Container(h, 0) \in Nat
  BY ContainersAreNumbers DEF HeapSizes
<1>3. heapRecord \in HeapRecords /\ heapRecord.mem = Sizing!Container(h, 0) /\ heapRecord.heap = h
  BY <1>1, <1>2 DEF HeapRecords
<1>4. Sizing!Idle \in HeapRequests /\ Sizing!Idle.op = "none" /\ Sizing!Idle.pc = "idle"
  BY DEF Sizing!Idle, HeapRequests, HeapRecords
<1>5. resizing = [r \in Resizers |-> Sizing!Idle] /\ heapWorld \in HeapWorlds /\ modCount = 0
      /\ heapExcused = FALSE
  BY DEF Sizing!Init
<1>6. heapFile \in Nat /\ heapCommand \in Nat
  BY <1>1, <1>2
<1>7. HeapTypes
  BY <1>1, <1>2, <1>3, <1>4, <1>5, <1>6 DEF HeapTypes
<1>8. Sizing!InForce = h
  BY <1>1 DEF Sizing!InForce
<1>9. Settled
  BY <1>1, <1>2, <1>3, <1>8 DEF Settled
<1> QED
  BY <1>4, <1>5, <1>7, <1>9 DEF HeapInv, Placed, Works

\* One request goes on, or ends.
LEMMA OneGoesOn ==
  ASSUME HeapInv, NEW r \in Resizers, Works(r), HeapTypes', heapExcused' = heapExcused,
         \A q \in Resizers \ {r} : resizing'[q] = resizing[q],
         Placed(r)', ~heapExcused => (~Works(r)' => Settled') /\ (Works(r)' => Knows(r)')
  PROVE  HeapInv'
PROOF
<1>1. \A q \in Resizers : Placed(q)'
  BY DEF HeapInv, Placed, Works
<1>2. ASSUME ~heapExcused PROVE \A q \in Resizers \ {r} : ~Works(q) /\ ~Works(q)'
  BY <1>2 DEF HeapInv, Works
<1>3. ASSUME ~heapExcused
      PROVE  /\ \A s, q \in Resizers : Works(s)' /\ Works(q)' => s = q
             /\ (\A s \in Resizers : ~Works(s)') => Settled'
             /\ \A s \in Resizers : Works(s)' => Knows(s)'
  <2>1. \A s \in Resizers : Works(s)' => s = r
    BY <1>2, <1>3
  <2>2. (\A s \in Resizers : ~Works(s)') => Settled'
    BY <1>3
  <2>3. \A s \in Resizers : Works(s)' => Knows(s)'
    <3> SUFFICES ASSUME NEW s \in Resizers, Works(s)' PROVE Knows(s)'
      OBVIOUS
    <3>1. s = r
      BY <2>1
    <3>2. Knows(r)'
      BY <1>3, <3>1 DEF Works
    <3> QED
      BY <3>1, <3>2 DEF Knows
  <2> QED
    BY <2>1, <2>2, <2>3
<1> QED
  BY <1>1, <1>3 DEF HeapInv

\* A request at work, of what it is made.
LEMMA ResizeTyped ==
  ASSUME HeapInv, NEW r \in Resizers
  PROVE  /\ resizing[r] \in HeapRequests /\ resizing \in [Resizers -> HeapRequests]
         /\ resizing[r].heap \in Nat /\ resizing[r].count \in Nat /\ resizing[r].limit \in Nat
         /\ resizing[r].by \in BOOLEAN /\ resizing[r].read \in HeapRecords
         /\ Placed(r) /\ (~heapExcused /\ Works(r) => Knows(r))
PROOF
<1>1. resizing[r] \in HeapRequests
  BY DEF HeapInv, HeapTypes
<1> QED
  BY <1>1 DEF HeapInv, HeapTypes, HeapRequests

LEMMA IdleTyped ==
  Sizing!Idle \in HeapRequests /\ Sizing!Idle.op = "none" /\ Sizing!Idle.pc = "idle"
PROOF
  BY DEF Sizing!Idle, HeapRequests, HeapRecords

\* It begins alone, or is excused.
LEMMA Beginning1 ==
  ASSUME HeapSizes, HeapInv, NEW r \in Resizers, NEW op \in {"tune", "perf"}, NEW h \in Nat,
         Sizing!Begins(r, op, "put", h, TRUE)
  PROVE  HeapInv'
PROOF
<1> DEFINE q == [Sizing!Idle EXCEPT !.op = op, !.pc = "put", !.heap = h, !.by = TRUE]
<1>1. /\ resizing' = [resizing EXCEPT ![r] = q] /\ heapExcused' = ~Sizing!Alone /\ ~Works(r)
      /\ UNCHANGED <<heapWorld, modCount, heapFile, heapCommand, heapRecord, wanted, sized>>
  BY DEF Sizing!Begins, Works
<1>2. q \in HeapRequests /\ q.op = op /\ q.pc = "put"
  BY IdleTyped DEF HeapRequests
<1> HIDE DEF q
<1>3. resizing' \in [Resizers -> HeapRequests] /\ resizing'[r] = q
      /\ \A s \in Resizers \ {r} : resizing'[s] = resizing[s]
  BY <1>1, <1>2, ResizeTyped
<1>4. HeapTypes'
  BY <1>1, <1>3 DEF HeapInv, HeapTypes
<1>5. \A s \in Resizers : Placed(s)'
  <2>1. Placed(r)'
    BY <1>2, <1>3 DEF Placed, Works
  <2>2. \A s \in Resizers \ {r} : Placed(s)'
    BY <1>3 DEF HeapInv, Placed, Works
  <2> QED
    BY <2>1, <2>2
<1>6. ASSUME ~heapExcused' PROVE \A s \in Resizers \ {r} : ~Works(s)'
  BY <1>1, <1>3, <1>6 DEF Sizing!Alone, Works
<1>7. Works(r)' /\ Knows(r)'
  BY <1>2, <1>3 DEF Works, Knows
<1>8. \A s \in Resizers : s = r => Knows(s)'
  BY <1>7 DEF Knows
<1> QED
  BY <1>4, <1>5, <1>6, <1>7, <1>8 DEF HeapInv

LEMMA RepairBegins ==
  ASSUME HeapSizes, HeapInv, NEW r \in Resizers, Sizing!Repairs(r)
  PROVE  HeapInv'
PROOF
<1> DEFINE q == [Sizing!Idle EXCEPT !.op = "repair", !.pc = "analyse", !.by = FALSE,
                                    !.read = heapRecord, !.limit = heapRecord.mem, !.count = modCount]
<1>1. /\ resizing' = [resizing EXCEPT ![r] = q] /\ ~Works(r)
      /\ heapExcused' = (heapExcused \/ ~Sizing!Alone)
      /\ UNCHANGED <<heapWorld, modCount, heapFile, heapCommand, heapRecord, wanted, sized>>
  BY DEF Sizing!Repairs, Works
<1>2. q \in HeapRequests /\ q.op = "repair" /\ q.pc = "analyse" /\ q.read = heapRecord
      /\ q.limit = heapRecord.mem
  <2>1. heapRecord \in HeapRecords /\ heapRecord.mem \in Nat /\ modCount \in Nat
    BY DEF HeapInv, HeapTypes, HeapRecords
  <2> QED
    BY <2>1, IdleTyped DEF HeapRequests
<1> HIDE DEF q
<1>3. resizing' \in [Resizers -> HeapRequests] /\ resizing'[r] = q
      /\ \A s \in Resizers \ {r} : resizing'[s] = resizing[s]
  BY <1>1, <1>2, ResizeTyped
<1>4. HeapTypes'
  <2>1. heapExcused' \in BOOLEAN
    BY <1>1
  <2> QED
    BY <1>1, <1>3, <2>1 DEF HeapInv, HeapTypes
<1>5. \A s \in Resizers : Placed(s)'
  <2>1. Placed(r)'
    BY <1>2, <1>3 DEF Placed, Works
  <2>2. \A s \in Resizers \ {r} : Placed(s)'
    BY <1>3 DEF HeapInv, Placed, Works
  <2> QED
    BY <2>1, <2>2
<1>6. ASSUME ~heapExcused' PROVE (\A s \in Resizers \ {r} : ~Works(s)') /\ Settled
  <2>1. ~heapExcused /\ \A s \in Resizers : ~Works(s)
    BY <1>1, <1>6 DEF Sizing!Alone, Works
  <2>2. Settled
    BY <2>1 DEF HeapInv
  <2> QED
    BY <1>3, <2>1, <2>2 DEF Works
<1>7. Works(r)'
  BY <1>2, <1>3 DEF Works
<1>8. ASSUME ~heapExcused' PROVE \A s \in Resizers : s = r => Knows(s)'
  <2>1. Settled'
    BY <1>1, <1>6, <1>8 DEF Settled, Sizing!InForce, Sizing!ReadsFile
  <2> QED
    BY <1>1, <1>2, <1>3, <2>1 DEF Knows
<1> QED
  BY <1>4, <1>5, <1>6, <1>7, <1>8 DEF HeapInv

\* A request ends with everything settled, or excused.
LEMMA Ending ==
  ASSUME HeapInv, NEW r \in Resizers, Works(r), Sizing!Ends(r),
         heapWorld' = heapWorld, modCount' = modCount, heapFile' = heapFile, heapCommand' = heapCommand,
         heapRecord' \in HeapRecords, wanted' \in Nat, sized' \in Nat, heapExcused' = heapExcused,
         ~heapExcused => Settled'
  PROVE  HeapInv'
PROOF
<1>1. resizing' \in [Resizers -> HeapRequests] /\ resizing'[r] = Sizing!Idle
      /\ \A q \in Resizers \ {r} : resizing'[q] = resizing[q]
  BY ResizeTyped, IdleTyped DEF Sizing!Ends
<1>2. Placed(r)' /\ ~Works(r)'
  BY <1>1, IdleTyped DEF Placed, Works
<1>3. HeapTypes'
  BY <1>1 DEF HeapInv, HeapTypes
<1> QED
  BY <1>1, <1>2, <1>3, OneGoesOn

\* A request moves on and writes nothing.
LEMMA MovingOn ==
  ASSUME HeapInv, NEW r \in Resizers, Works(r), NEW q \in HeapRequests, q.op = resizing[r].op, q.pc # "idle",
         resizing' = [resizing EXCEPT ![r] = q],
         UNCHANGED <<heapWorld, modCount, heapFile, heapCommand, heapRecord, wanted, sized, heapExcused>>,
         q.pc \in {"analyse", "grow", "grew"} => q.op = "repair", ~heapExcused => Knows(r)'
  PROVE  HeapInv'
PROOF
<1>1. resizing' \in [Resizers -> HeapRequests] /\ resizing'[r] = q
      /\ \A s \in Resizers \ {r} : resizing'[s] = resizing[s]
  BY ResizeTyped
<1>2. Placed(r)' /\ Works(r)'
  BY <1>1 DEF Placed, Works
<1>3. HeapTypes'
  BY <1>1 DEF HeapInv, HeapTypes
<1> QED
  BY <1>1, <1>2, <1>3, OneGoesOn

LEMMA Putting ==
  ASSUME HeapSizes, HeapInv, NEW r \in Resizers, Sizing!TunePuts(r) \/ Sizing!PerfPuts(r)
  PROVE  HeapInv'
PROOF
<1> DEFINE q == [resizing[r] EXCEPT !.pc = "count"]
<1>1. PICK inFile \in BOOLEAN : Sizing!Puts(r, inFile) /\ (inFile <=> Sizing!ReadsFile)
  <2>2. heapWorld \in HeapWorlds
    BY DEF HeapInv, HeapTypes
  <2>3. heapWorld[1] = "forge" <=> Sizing!ReadsFile
    BY <2>2 DEF HeapSizes, Sizing!ReadsFile
  <2> QED
    BY <2>3 DEF Sizing!TunePuts, Sizing!PerfPuts
<1>2. /\ resizing[r].pc = "put" /\ resizing' = [resizing EXCEPT ![r].pc = "count"]
      /\ UNCHANGED <<heapWorld, modCount, heapRecord, wanted, sized, heapExcused>>
      /\ IF inFile THEN heapFile' = resizing[r].heap /\ UNCHANGED heapCommand
         ELSE heapCommand' = resizing[r].heap /\ UNCHANGED heapFile
  BY <1>1 DEF Sizing!Puts, Sizing!At, Sizing!Goes
<1>3. q \in HeapRequests /\ q.op = resizing[r].op /\ q.pc = "count" /\ q.heap = resizing[r].heap
  BY ResizeTyped DEF HeapRequests
<1>4. resizing' = [resizing EXCEPT ![r] = q]
  BY <1>2, ResizeTyped
<1> HIDE DEF q
<1>5. Works(r)
  BY <1>2, ResizeTyped DEF Placed
<1>6. resizing' \in [Resizers -> HeapRequests] /\ resizing'[r] = q
      /\ \A s \in Resizers \ {r} : resizing'[s] = resizing[s]
  BY <1>3, <1>4, ResizeTyped
<1>7. HeapTypes'
  BY <1>2, <1>6, ResizeTyped DEF HeapInv, HeapTypes
<1>8. Placed(r)' /\ Works(r)'
  BY <1>3, <1>5, <1>6 DEF Placed, Works
<1>9. Sizing!InForce' = resizing[r].heap
  BY <1>1, <1>2 DEF Sizing!InForce, Sizing!ReadsFile
<1>10. Knows(r)'
  BY <1>3, <1>6, <1>9 DEF Knows
<1> QED
  BY <1>2, <1>5, <1>6, <1>7, <1>8, <1>10, OneGoesOn

LEMMA HeapFollows ==
  ASSUME HeapSizes, HeapInv, NEW r \in Resizers, Sizing!CountsMods(r) \/ Sizing!ReadsLimits(r)
  PROVE  HeapInv'
PROOF
<1>1. PICK q \in {[resizing[r] EXCEPT !.pc = "limits", !.count = modCount],
                  [resizing[r] EXCEPT !.pc = "size", !.read = heapRecord]} :
        resizing' = [resizing EXCEPT ![r] = q]
  BY ResizeTyped DEF Sizing!CountsMods, Sizing!ReadsLimits
<1>2. resizing[r].pc \in {"count", "limits"}
      /\ UNCHANGED <<heapWorld, modCount, heapFile, heapCommand, heapRecord, wanted, sized, heapExcused>>
  BY DEF Sizing!CountsMods, Sizing!ReadsLimits, Sizing!At
<1>3. q \in HeapRequests /\ q.op = resizing[r].op /\ q.pc \in {"limits", "size"} /\ q.heap = resizing[r].heap
  <2>1. heapRecord \in HeapRecords /\ modCount \in Nat
    BY DEF HeapInv, HeapTypes
  <2> QED
    BY <1>1, <2>1, ResizeTyped DEF HeapRequests
<1>4. Works(r)
  BY <1>2, ResizeTyped DEF Placed
<1>5. resizing'[r] = q
  BY <1>1, ResizeTyped
<1>6. ASSUME ~heapExcused PROVE Knows(r)'
  <2>1. Sizing!InForce = resizing[r].heap
    BY <1>2, <1>4, <1>6, ResizeTyped DEF Knows
  <2>2. Sizing!InForce' = Sizing!InForce
    BY <1>2 DEF Sizing!InForce, Sizing!ReadsFile
  <2> QED
    BY <1>3, <1>5, <2>1, <2>2 DEF Knows
<1> QED
  BY <1>1, <1>2, <1>3, <1>4, <1>6, MovingOn

LEMMA Resizing ==
  ASSUME HeapSizes, HeapInv, NEW r \in Resizers, Sizing!SizesContainer(r)
  PROVE  HeapInv'
PROOF
<1> DEFINE h == resizing[r].heap
           k == resizing[r].count
<1>1. /\ resizing[r].pc = "size" /\ Sizing!Ends(r)
      /\ heapRecord' = [mem |-> Sizing!Container(h, k), heap |-> h, by |-> resizing[r].by]
      /\ wanted' = h /\ sized' = k
      /\ UNCHANGED <<heapWorld, modCount, heapFile, heapCommand, heapExcused>>
  BY DEF Sizing!SizesContainer, Sizing!At, Sizing!Ends
<1>2. h \in Nat /\ k \in Nat /\ resizing[r].by \in BOOLEAN
  BY ResizeTyped
<1>3. Works(r)
  BY <1>1, ResizeTyped DEF Placed
<1>4. ~heapExcused => Sizing!InForce = h
  BY <1>1, <1>3, ResizeTyped DEF Knows
<1> HIDE DEF h, k
<1>5. Sizing!Container(h, k) \in Nat
  BY <1>2, ContainersAreNumbers
<1>6. heapRecord' \in HeapRecords /\ heapRecord'.mem = Sizing!Container(h, k) /\ heapRecord'.heap = h
  BY <1>1, <1>2, <1>5 DEF HeapRecords
<1>7. Sizing!InForce' = Sizing!InForce
  BY <1>1 DEF Sizing!InForce, Sizing!ReadsFile
<1>8. ASSUME ~heapExcused PROVE Settled'
  <2>1. Sizing!Container(Sizing!InForce, sized)' = Sizing!Container(h, k)
    BY <1>1, <1>4, <1>7, <1>8 DEF Sizing!Container, Sizing!Overhead, Sizing!ByMods, Sizing!Most, Sizing!Least
  <2> QED
    BY <1>1, <1>4, <1>5, <1>6, <1>7, <1>8, <2>1 DEF Settled
<1> QED
  BY <1>1, <1>2, <1>3, <1>6, <1>8, Ending

LEMMA Looking ==
  ASSUME HeapSizes, HeapInv, NEW r \in Resizers, Sizing!Analyses(r) \/ Sizing!Looks(r)
  PROVE  HeapInv'
PROOF
<1>1. /\ resizing[r].pc \in {"analyse", "grow"}
      /\ UNCHANGED <<heapWorld, modCount, heapFile, heapCommand, heapRecord, wanted, sized, heapExcused>>
  BY DEF Sizing!Analyses, Sizing!Looks, Sizing!At
<1>2. Works(r) /\ resizing[r].op = "repair"
  BY <1>1, ResizeTyped DEF Placed
<1>3. ~heapExcused => Knows(r)
  BY <1>2, ResizeTyped
<1>4. Sizing!InForce' = Sizing!InForce /\ (Settled => Settled')
  BY <1>1 DEF Sizing!InForce, Sizing!ReadsFile, Settled
<1>5. Sizing!InForce \in Nat /\ heapRecord \in HeapRecords
  BY DEF HeapInv, HeapTypes, Sizing!InForce
<1>6. CASE Sizing!Ends(r)
  <2>1. ~heapExcused => Settled'
    BY <1>1, <1>3, <1>4 DEF Knows
  <2>2. wanted' \in Nat /\ sized' \in Nat
    BY <1>1 DEF HeapInv, HeapTypes
  <2> QED
    BY <1>1, <1>2, <1>5, <1>6, <2>1, <2>2, Ending
<1>7. CASE resizing' = [resizing EXCEPT ![r].pc = "grow", ![r].heap = Sizing!InForce] /\ resizing[r].pc = "analyse"
  <2> DEFINE q == [resizing[r] EXCEPT !.pc = "grow", !.heap = Sizing!InForce]
  <2>1. resizing' = [resizing EXCEPT ![r] = q]
    BY <1>7, ResizeTyped
  <2>2. q \in HeapRequests /\ q.op = resizing[r].op /\ q.pc = "grow" /\ q.heap = Sizing!InForce
        /\ q.read = resizing[r].read /\ q.limit = resizing[r].limit
    BY <1>5, ResizeTyped DEF HeapRequests
  <2> HIDE DEF q
  <2>3. resizing'[r] = q
    BY <2>1, ResizeTyped
  <2>4. ~heapExcused => Knows(r)'
    BY <1>1, <1>3, <1>4, <1>7, <2>2, <2>3 DEF Knows
  <2> QED
    BY <1>1, <1>2, <2>1, <2>2, <2>4, MovingOn
<1>8. CASE resizing' = [resizing EXCEPT ![r].pc = "grew", ![r].by = resizing[r].read.by, ![r].read = heapRecord]
           /\ resizing[r].pc = "grow"
  <2> DEFINE q == [resizing[r] EXCEPT !.pc = "grew", !.by = resizing[r].read.by, !.read = heapRecord]
  <2>1. resizing' = [resizing EXCEPT ![r] = q]
    BY <1>8, ResizeTyped
  <2>2. q \in HeapRequests /\ q.op = resizing[r].op /\ q.pc = "grew" /\ q.heap = resizing[r].heap
        /\ q.read = heapRecord /\ q.limit = resizing[r].limit /\ q.by = resizing[r].read.by
    <3>1. resizing[r].read.by \in BOOLEAN
      BY ResizeTyped DEF HeapRecords
    <3> QED
      BY <1>5, <3>1, ResizeTyped DEF HeapRequests
  <2> HIDE DEF q
  <2>3. resizing'[r] = q
    BY <2>1, ResizeTyped
  <2>4. ~heapExcused => Knows(r)'
    BY <1>1, <1>3, <1>4, <1>8, <2>2, <2>3 DEF Knows
  <2> QED
    BY <1>1, <1>2, <2>1, <2>2, <2>4, MovingOn
<1> QED
  BY <1>6, <1>7, <1>8 DEF Sizing!Analyses, Sizing!Looks, Sizing!At

LEMMA Growing ==
  ASSUME HeapSizes, HeapInv, NEW r \in Resizers, Sizing!Grows(r)
  PROVE  HeapInv'
PROOF
<1> DEFINE read == resizing[r].read
<1>1. PICK free \in FreeMemory :
        /\ Sizing!Grown(resizing[r].heap, read.mem, resizing[r].count, free) # 0
        /\ heapRecord' = [read EXCEPT !.mem = Sizing!Grown(resizing[r].heap, read.mem, resizing[r].count, free)]
  BY DEF Sizing!Grows
<1> DEFINE more == Sizing!Grown(resizing[r].heap, read.mem, resizing[r].count, free)
<1>2. /\ resizing[r].pc = "grew" /\ Sizing!Ends(r)
      /\ UNCHANGED <<heapWorld, modCount, heapFile, heapCommand, wanted, sized, heapExcused>>
  BY DEF Sizing!Grows, Sizing!At
<1>3. Works(r) /\ (~heapExcused => Settled /\ read = heapRecord)
  BY <1>2, ResizeTyped DEF Placed, Knows
<1>4. read \in HeapRecords /\ read.mem \in Nat
  BY ResizeTyped DEF HeapRecords
<1>5. more \in Nat /\ more > read.mem
  BY <1>1, <1>4, ResizeTyped, GrownIsMore DEF HeapSizes
<1>6. heapRecord' = [read EXCEPT !.mem = more]
  BY <1>1
<1> HIDE DEF read, more
<1>7. heapRecord' \in HeapRecords /\ heapRecord'.mem = more /\ heapRecord'.heap = read.heap
  BY <1>4, <1>5, <1>6 DEF HeapRecords
<1>8. ASSUME ~heapExcused PROVE Settled'
  <2>1. Sizing!InForce' = Sizing!InForce /\ Sizing!InForce \in Nat /\ sized \in Nat
    BY <1>2 DEF Sizing!InForce, Sizing!ReadsFile, HeapInv, HeapTypes
  <2>2. Sizing!Container(Sizing!InForce, sized)' = Sizing!Container(Sizing!InForce, sized)
    BY <1>2, <2>1 DEF Sizing!Container, Sizing!Overhead, Sizing!ByMods, Sizing!Most, Sizing!Least
  <2>3. Sizing!Container(Sizing!InForce, sized) \in Nat
    BY <2>1, ContainersAreNumbers
  <2>4. heapRecord.mem >= Sizing!Container(Sizing!InForce, sized) /\ heapRecord.mem = read.mem
        /\ heapRecord.heap = Sizing!InForce /\ heapRecord.heap = read.heap /\ Sizing!InForce = wanted
    BY <1>3, <1>8 DEF Settled
  <2>5. more >= Sizing!Container(Sizing!InForce, sized)
    BY <1>4, <1>5, <2>3, <2>4
  <2> QED
    BY <1>2, <1>7, <2>1, <2>2, <2>4, <2>5 DEF Settled
<1>9. wanted' \in Nat /\ sized' \in Nat
  BY <1>2 DEF HeapInv, HeapTypes
<1> QED
  BY <1>2, <1>3, <1>7, <1>8, <1>9, Ending

LEMMA Fitting ==
  ASSUME HeapSizes, HeapInv, NEW r \in Resizers, Sizing!Fits(r)
  PROVE  HeapInv'
PROOF
<1> DEFINE fit == Sizing!HeapFor(resizing[r].limit, resizing[r].count)
<1>1. /\ resizing[r].pc = "grew"
      /\ UNCHANGED <<heapWorld, modCount, heapFile, heapCommand, heapRecord, wanted, sized, heapExcused>>
      /\ \/ Sizing!Ends(r)
         \/ /\ ~resizing[r].by
            /\ resizing' = [resizing EXCEPT ![r].pc = "put", ![r].heap = fit, ![r].by = FALSE]
  BY DEF Sizing!Fits, Sizing!At
<1>2. Works(r) /\ resizing[r].op = "repair" /\ (~heapExcused => Knows(r))
  BY <1>1, ResizeTyped DEF Placed
<1>3. fit \in Nat /\ (fit # 512 => Sizing!Container(fit, resizing[r].count) <= resizing[r].limit)
  <2>1. resizing[r].limit \in Nat /\ resizing[r].count \in Nat
    BY ResizeTyped
  <2>2. \A m \in Nat, k \in Nat :
          /\ Sizing!HeapFor(m, k) \in Nat
          /\ Sizing!HeapFor(m, k) # 512 => Sizing!Container(Sizing!HeapFor(m, k), k) <= m
    BY HeapsFit
  <2> DEFINE m == resizing[r].limit
             k == resizing[r].count
  <2>3. fit = Sizing!HeapFor(m, k) /\ m \in Nat /\ k \in Nat
    BY <2>1 DEF fit
  <2> HIDE DEF fit, m, k
  <2>4. /\ Sizing!HeapFor(m, k) \in Nat
        /\ Sizing!HeapFor(m, k) # 512 => Sizing!Container(Sizing!HeapFor(m, k), k) <= m
    BY <2>2, <2>3
  <2>5. fit \in Nat /\ (fit # 512 => Sizing!Container(fit, k) <= m)
    BY <2>3, <2>4
  <2> QED
    BY <2>5 DEF m, k
<1> HIDE DEF fit
<1>4. CASE Sizing!Ends(r)
  <2>1. ~heapExcused => Settled'
    BY <1>1, <1>2 DEF Knows, Settled, Sizing!InForce, Sizing!ReadsFile
  <2>2. wanted' \in Nat /\ sized' \in Nat /\ heapRecord' \in HeapRecords
    BY <1>1 DEF HeapInv, HeapTypes
  <2> QED
    BY <1>1, <1>2, <1>4, <2>1, <2>2, Ending
<1>5. CASE ~resizing[r].by /\ resizing' = [resizing EXCEPT ![r].pc = "put", ![r].heap = fit, ![r].by = FALSE]
  <2> DEFINE q == [resizing[r] EXCEPT !.pc = "put", !.heap = fit, !.by = FALSE]
  <2>1. resizing' = [resizing EXCEPT ![r] = q]
    BY <1>5, ResizeTyped
  <2>2. q \in HeapRequests /\ q.op = resizing[r].op /\ q.pc = "put" /\ q.heap = fit
        /\ q.count = resizing[r].count
    BY <1>3, ResizeTyped DEF HeapRequests
  <2> HIDE DEF q
  <2>3. resizing'[r] = q
    BY <2>1, ResizeTyped
  <2>4. ASSUME ~heapExcused PROVE Knows(r)'
    <3>1. ~heapRecord.by /\ resizing[r].limit = heapRecord.mem
      BY <1>1, <1>2, <1>5, <2>4 DEF Knows
    <3>2. heapRecord' = heapRecord
      BY <1>1
    <3>3. fit # 512 => Sizing!Container(fit, resizing[r].count) <= heapRecord.mem
      BY <1>3, <3>1
    <3>4. ~heapRecord'.by /\ (fit # 512 => Sizing!Container(fit, resizing[r].count) <= heapRecord'.mem)
      BY <3>1, <3>2, <3>3
    <3> QED
      BY <2>2, <2>3, <3>4 DEF Knows, Sizing!Container, Sizing!Overhead, Sizing!ByMods
  <2> QED
    BY <1>1, <1>2, <2>1, <2>2, <2>4, MovingOn
<1> QED
  BY <1>1, <1>4, <1>5

LEMMA Others ==
  ASSUME HeapSizes, HeapInv,
         \/ Sizing!ModsChange
         \/ \E h \in TypedHeaps : Sizing!FixesRam(h)
         \/ \E r \in Resizers : Sizing!Fails(r)
         \/ UNCHANGED Sizing!vars
  PROVE  HeapInv'
PROOF
<1>1. CASE Sizing!ModsChange \/ UNCHANGED Sizing!vars
  <2>1. UNCHANGED <<heapWorld, heapFile, heapCommand, heapRecord, resizing, wanted, sized, heapExcused>>
    BY <1>1 DEF Sizing!ModsChange, Sizing!vars
  <2>2. modCount' \in Nat
    BY <1>1 DEF HeapSizes, HeapInv, HeapTypes, Sizing!ModsChange, Sizing!vars
  <2>3. HeapTypes'
    BY <2>1, <2>2 DEF HeapInv, HeapTypes
  <2> QED
    BY <2>1, <2>3 DEF HeapInv, Placed, Works, Knows, Settled, Sizing!InForce, Sizing!ReadsFile
<1>2. ASSUME NEW h \in TypedHeaps, Sizing!FixesRam(h) PROVE HeapInv'
  <2>1. HeapTypes'
    BY <1>2 DEF HeapSizes, HeapInv, HeapTypes, Sizing!FixesRam
  <2> QED
    BY <1>2, <2>1 DEF HeapInv, Placed, Works, Sizing!FixesRam
<1>3. ASSUME NEW r \in Resizers, Sizing!Fails(r) PROVE HeapInv'
  <2>1. resizing' \in [Resizers -> HeapRequests] /\ resizing'[r] = Sizing!Idle
        /\ \A q \in Resizers \ {r} : resizing'[q] = resizing[q]
    BY <1>3, ResizeTyped, IdleTyped DEF Sizing!Fails, Sizing!Ends
  <2>2. HeapTypes'
    BY <1>3, <2>1 DEF HeapInv, HeapTypes, Sizing!Fails
  <2>3. \A q \in Resizers : Placed(q)'
    <3>1. Placed(r)'
      BY <2>1, IdleTyped DEF Placed, Works
    <3>2. \A q \in Resizers \ {r} : Placed(q)'
      BY <2>1 DEF HeapInv, Placed, Works
    <3> QED
      BY <3>1, <3>2
  <2> QED
    BY <1>3, <2>2, <2>3 DEF HeapInv, Sizing!Fails
<1> QED
  BY <1>1, <1>2, <1>3

LEMMA HeapGoesOn ==
  ASSUME HeapSizes, HeapInv, [Sizing!Next]_(Sizing!vars)
  PROVE  HeapInv'
PROOF
<1>1. CASE \/ Sizing!ModsChange
           \/ \E h \in TypedHeaps : Sizing!FixesRam(h)
           \/ \E r \in Resizers : Sizing!Fails(r)
           \/ UNCHANGED Sizing!vars
  BY <1>1, Others
<1>2. ASSUME NEW r \in Resizers, NEW h \in TypedHeaps, Sizing!Tunes(r, h) \/ Sizing!Perfs(r, h)
      PROVE  HeapInv'
  <2>1. h \in Nat
    BY DEF HeapSizes
  <2> QED
    BY <1>2, <2>1, Beginning1 DEF Sizing!Tunes, Sizing!Perfs
<1>3. ASSUME NEW r \in Resizers,
             \/ Sizing!TunePuts(r) \/ Sizing!PerfPuts(r) \/ Sizing!CountsMods(r) \/ Sizing!ReadsLimits(r)
             \/ Sizing!SizesContainer(r) \/ Sizing!Repairs(r) \/ Sizing!Analyses(r) \/ Sizing!Looks(r)
             \/ Sizing!Grows(r) \/ Sizing!Fits(r)
      PROVE  HeapInv'
  BY <1>3, Putting, HeapFollows, Resizing, RepairBegins, Looking, Growing, Fitting
<1> QED
  BY <1>1, <1>2, <1>3 DEF Sizing!Next

LEMMA HeapShown ==
  ASSUME HeapInv
  PROVE  /\ Sizing!ContainerFollows /\ Sizing!HeapIsAsTyped
         /\ Sizing!PersonsHeapStays /\ Sizing!RepairTakesNoMore
PROOF
<1>1. Sizing!ContainerFollows /\ Sizing!HeapIsAsTyped
  BY DEF HeapInv, Settled, Works, Sizing!ContainerFollows, Sizing!HeapIsAsTyped, Sizing!Alone
<1>2. ASSUME NEW r \in Resizers, resizing[r].op = "repair", resizing[r].pc = "put", ~heapExcused
      PROVE  Knows(r)
  BY <1>2 DEF HeapInv, Works
<1> QED
  BY <1>1, <1>2 DEF Knows, Sizing!PersonsHeapStays, Sizing!RepairTakesNoMore, Sizing!At

\* Heap: for any number of requests, when nothing is under way and nothing went wrong the heap in
\* force is the one that was set and its container holds it; a repair leaves a heap alone that a
\* person set, and asks for no more than the limit the server was killed at.
THEOREM HeapIsKept ==
  ASSUME HeapSizes
  PROVE  Sizing!Spec =>
           [](/\ Sizing!ContainerFollows /\ Sizing!HeapIsAsTyped
              /\ Sizing!PersonsHeapStays /\ Sizing!RepairTakesNoMore)
PROOF
<1>1. Sizing!Init => HeapInv
  BY ServerIsMade
<1>2. HeapInv /\ [Sizing!Next]_(Sizing!vars) => HeapInv'
  BY HeapGoesOn
<1>3. HeapInv => /\ Sizing!ContainerFollows /\ Sizing!HeapIsAsTyped
                 /\ Sizing!PersonsHeapStays /\ Sizing!RepairTakesNoMore
  BY HeapShown
<1> QED
  BY <1>1, <1>2, <1>3, PTL DEF Sizing!Spec

-----------------------------------------------------------------------------
\* What is promised of the boots, the jar and the heap of a server is kept, for any number of jars,
\* jobs and requests.
THEOREM LaunchesHold ==
  ASSUME RepairSizes, JarSizes, HeapSizes
  PROVE  Repairing!Spec /\ Booting!Spec /\ Jar!Spec /\ Sizing!Spec => []LaunchHolds
<1>1. Repairing!Spec =>
        [](Repairing!NeverUndoes /\ Repairing!ContentIsKept /\ Repairing!RoundsAreNew)
  BY RepairsGetOn
<1>2. Booting!Spec => []Booting!ReadyIsThisBoot
  BY UpIsThisBoot
<1>3. Jar!Spec => [](Jar!CommandHasItsJar /\ Jar!CompleteCanStart)
  BY JarIsThere
<1>4. Sizing!Spec => [](/\ Sizing!ContainerFollows /\ Sizing!HeapIsAsTyped
                        /\ Sizing!PersonsHeapStays /\ Sizing!RepairTakesNoMore)
  BY HeapIsKept
<1> QED
  BY <1>1, <1>2, <1>3, <1>4, PTL DEF LaunchHolds
=============================================================================
