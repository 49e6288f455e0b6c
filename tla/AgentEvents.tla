---------------------------- MODULE AgentEvents -----------------------------
(***************************************************************************)
(* What a node tells its panel: the queue of agent/events.py, and what     *)
(* POST /api/agent/events (app/agent_api.py) does with a batch.            *)
(*                                                                         *)
(* Events are numbered as they are emitted and each is a "status" of one   *)
(* server, so that the number stands for the state it reports.             *)
(***************************************************************************)
EXTENDS Integers, FiniteSets, Sequences, SequencesExt, FiniteSetTheorems, SequenceTheorems, TLAPS

CONSTANTS
  MaxQueued,   \* MAX_QUEUED
  Batch,       \* events in one post (500)
  MaxEmits,    \* bound on the events emitted
  MaxFails     \* bound on the posts the agent gives up on

ASSUME QueueAssumption == {MaxQueued, Batch} \subseteq Nat \ {0} /\ Batch < MaxQueued
ASSUME BoundsAssumption == MaxEmits \in Nat /\ MaxFails \in Nat

VARIABLES
  emitted,   \* the number of events emitted
  queue,     \* Events.queue
  dropped,   \* Events.dropped
  reported,  \* Events.dropped_reported
  post,      \* the posts flush() waits for the answer of: one or none
  accepted,  \* the panel has answered that post
  wire,      \* the posts the panel has yet to get to
  fails,     \* posts given up on
  late,      \* the panel has handled a post that was given up on before
  life,      \* run() is alive; the last flush of a shutdown; over
  seen,      \* the events the panel has handled
  status,    \* Server.status: the last event it was set from
  told       \* the count of dropped events in the panel's audit log

agentVars == <<emitted, queue, dropped, reported>>
panelVars == <<seen, status, told>>
vars == <<agentVars, post, accepted, wire, fails, late, life, panelVars>>

\* A post: the posts given up on before it, its batch and the count of its events_dropped, if any.
Posts == [after : 0 .. MaxFails + 1, batch : Seq(1 .. MaxEmits), lost : Nat]

TypeOK ==
  /\ emitted \in 0 .. MaxEmits
  /\ queue \in Seq(1 .. MaxEmits) /\ Len(queue) <= MaxQueued
  /\ dropped \in Nat /\ reported \in 0 .. dropped
  /\ post \in SUBSET Posts /\ Cardinality(post) <= 1
  /\ accepted \in BOOLEAN
  /\ wire \in SUBSET Posts
  /\ fails \in 0 .. MaxFails
  /\ late \in BOOLEAN
  /\ life \in {"run", "last", "over"}
  /\ seen \in SUBSET (1 .. MaxEmits)
  /\ status \in 0 .. MaxEmits
  /\ told \in Nat

Init ==
  /\ emitted = 0 /\ queue = <<>> /\ dropped = 0 /\ reported = 0
  /\ post = {} /\ accepted = FALSE /\ wire = {} /\ fails = 0 /\ late = FALSE /\ life = "run"
  /\ seen = {} /\ status = 0 /\ told = 0

\* A bug: the deque has no maxlen.
EmitUnbounded ==
  /\ emitted < MaxEmits
  /\ emitted' = emitted + 1
  /\ queue' = Append(queue, emitted')
  /\ UNCHANGED <<dropped, reported, post, accepted, wire, fails, late, life, panelVars>>

\* A bug: the oldest event is dropped without being counted.
EmitUncounted ==
  /\ emitted < MaxEmits
  /\ emitted' = emitted + 1
  /\ queue' = Append(IF Len(queue) = MaxQueued THEN Tail(queue) ELSE queue, emitted')
  /\ UNCHANGED <<dropped, reported, post, accepted, wire, fails, late, life, panelVars>>

\* emit(): a full deque drops its oldest event.
Emit ==
  /\ emitted < MaxEmits
  /\ emitted' = emitted + 1
  /\ dropped' = IF Len(queue) = MaxQueued THEN dropped + 1 ELSE dropped
  /\ queue' = Append(IF Len(queue) = MaxQueued THEN Tail(queue) ELSE queue, emitted')
  /\ UNCHANGED <<reported, post, accepted, wire, fails, late, life, panelVars>>

\* The batch of a flush.
Oldest(n) == SubSeq(queue, 1, Min({n, Len(queue)}))

\* flush(): the oldest events, and the count of what was lost before them.
FlushBegins ==
  /\ queue # <<>> /\ post = {} /\ life # "over"
  /\ post' = {[after |-> IF life = "last" THEN fails + 1 ELSE fails,
               batch |-> Oldest(Batch), lost |-> dropped - reported]}
  /\ wire' = wire \cup post' /\ accepted' = FALSE
  /\ UNCHANGED <<agentVars, fails, late, life, panelVars>>

\* A bug: of several states of a server in a batch the first is kept.
PanelKeepsFirst(p) ==
  /\ wire' = wire \ {p}
  /\ seen' = seen \cup Range(p.batch)
  /\ status' = Head(p.batch)
  /\ told' = told + p.lost
  /\ accepted' = (accepted \/ p \in post)
  /\ late' = (late \/ p \notin post)
  /\ UNCHANGED <<agentVars, post, fails, life>>

\* agent_events() goes through a batch, in order, and commits what it says.
PanelHandles(p) ==
  /\ wire' = wire \ {p}
  /\ seen' = seen \cup Range(p.batch)
  /\ status' = Last(p.batch)
  /\ told' = told + p.lost
  /\ accepted' = (accepted \/ p \in post)
  /\ late' = (late \/ p \notin post)
  /\ UNCHANGED <<agentVars, post, fails, life>>

\* A flush is over; the one of a shutdown is the last.
FlushEnds == post' = {} /\ life' = IF life = "last" THEN "over" ELSE life

\* The post was accepted: as many events as it had leave the queue, from the
\* left, whatever emit() did to the queue meanwhile.
FlushSucceeds ==
  /\ accepted /\ \E p \in post :
       /\ queue' = SubSeq(queue, Len(p.batch) + 1, Len(queue))
       /\ reported' = reported + p.lost
  /\ FlushEnds /\ accepted' = FALSE
  /\ UNCHANGED <<emitted, dropped, wire, fails, late, panelVars>>

\* The panel cannot be reached or does not answer in time: all is kept for the
\* next flush.  The panel may have handled the post, or do so later.
FlushFails ==
  /\ post # {} /\ fails < MaxFails
  /\ fails' = fails + 1
  /\ wire' \in {wire, wire \ post}
  /\ FlushEnds /\ accepted' = FALSE
  /\ UNCHANGED <<agentVars, late, panelVars>>

\* The agent shuts down: run() is cancelled, in a flush or between two, and
\* one more flush is made.
ShutsDown ==
  /\ life = "run" /\ life' = "last"
  /\ post' = {} /\ accepted' = FALSE
  /\ wire' \in {wire, wire \ post}
  /\ UNCHANGED <<agentVars, fails, late, panelVars>>

Next == \/ Emit \/ FlushBegins \/ FlushSucceeds \/ FlushFails \/ ShutsDown
        \/ \E p \in wire : PanelHandles(p)

Spec == Init /\ [][Next]_vars

\* run() flushes again and again; the panel gets to every post it still has.
\* Posts fail only so often: the panel is back in the end.
Fairness ==
  /\ WF_vars(FlushBegins) /\ WF_vars(FlushSucceeds)
  /\ WF_vars(\E p \in wire : PanelHandles(p))

FairSpec == Spec /\ Fairness

-----------------------------------------------------------------------------
(* Properties.                                                             *)

\* events.py: "Events lost to a full queue while the panel was away: counted".
\* An event that is neither waiting nor known to the panel is counted, though
\* flush() drops from the left events that a full queue has shifted.
LossesCounted ==
  Cardinality((1 .. emitted) \ (seen \cup Range(queue))) <= dropped

\* flush(): the agent takes no lost event for reported that the panel was not
\* told of, whatever is dropped while a post is under way.
ReportedIsTold == reported <= told

\* flush(): what was dropped is told with the next batch that gets through, so
\* as long as the agent lives no drop stays untold.
DropsTold == (dropped > told) ~> (dropped <= told \/ life # "run")

\* agent_events(): a panel that knows all that is left of the queue shows the
\* last state the server was reported in, unless it got to a post so late that
\* the agent had given up on it.
StatusCatchesUp == queue = <<>> /\ wire = {} /\ ~late => status = emitted

-----------------------------------------------------------------------------
(* The queue and the batches made of it.                                   *)

\* The number of events that have left the queue, in one way or the other.
Left == emitted - Len(queue)

\* The first n events, without those the panel has handled.
Unheard(n) == (1 .. n) \ seen

\* The minimum of two numbers.
LEMMA MinOfTwo ==
  ASSUME NEW a \in Nat, NEW b \in Nat
  PROVE  Min({a, b}) = IF a <= b THEN a ELSE b
<1>1. \A x \in {a, b} : (\A y \in {a, b} : x <= y) => x = IF a <= b THEN a ELSE b
  OBVIOUS
<1>2. \E x \in {a, b} : \A y \in {a, b} : x <= y
  OBVIOUS
<1> QED
  BY <1>1, <1>2 DEF Min

\* The batch of a flush is the beginning of the queue.
LEMMA OldestIsPrefix ==
  ASSUME TypeOK, queue # <<>>
  PROVE  /\ Oldest(Batch) \in Seq(1 .. MaxEmits)
         /\ Len(Oldest(Batch)) \in 1 .. Batch /\ Len(Oldest(Batch)) <= Len(queue)
         /\ \A i \in 1 .. Len(Oldest(Batch)) : Oldest(Batch)[i] = queue[i]
<1> DEFINE k == Min({Batch, Len(queue)})
<1>1. Len(queue) \in Nat \ {0} /\ Batch \in Nat \ {0}
  BY EmptySeq, LenProperties, QueueAssumption DEF TypeOK
<1>2. k \in 1 .. Batch /\ k <= Len(queue)
  BY <1>1, MinOfTwo
<1> HIDE DEF k
<1>3. \A i \in 1 .. k : queue[i] \in 1 .. MaxEmits
  <2>1. \A i \in 1 .. Len(queue) : queue[i] \in 1 .. MaxEmits
    BY ElementOfSeq DEF TypeOK
  <2> QED
    BY <1>1, <1>2, <2>1
<1>4. /\ SubSeq(queue, 1, k) \in Seq(1 .. MaxEmits)
      /\ Len(SubSeq(queue, 1, k)) = k
      /\ \A i \in 1 .. k : SubSeq(queue, 1, k)[i] = queue[i]
  BY <1>2, <1>3, SubSeqProperties
<1> QED
  BY <1>2, <1>4 DEF Oldest, k

\* What flush() keeps of the queue when it takes k events from the left.
LEMMA RestOfQueue ==
  ASSUME TypeOK, NEW k \in Nat, k <= Len(queue)
  PROVE  LET rest == SubSeq(queue, k + 1, Len(queue))
         IN  /\ rest \in Seq(1 .. MaxEmits) /\ Len(rest) = Len(queue) - k
             /\ \A i \in 1 .. Len(rest) : rest[i] = queue[k + i]
<1>1. Len(queue) \in Nat /\ \A i \in 1 .. Len(queue) : queue[i] \in 1 .. MaxEmits
  BY LenProperties, ElementOfSeq DEF TypeOK
<1>2. \A i \in k + 1 .. Len(queue) : queue[i] \in 1 .. MaxEmits
  BY <1>1
<1>3. /\ SubSeq(queue, k + 1, Len(queue)) \in Seq(1 .. MaxEmits)
      /\ Len(SubSeq(queue, k + 1, Len(queue)))
           = IF k + 1 <= Len(queue) THEN Len(queue) - (k + 1) + 1 ELSE 0
      /\ \A i \in 1 .. Len(queue) - (k + 1) + 1 :
           SubSeq(queue, k + 1, Len(queue))[i] = queue[k + 1 + i - 1]
  BY <1>1, <1>2, SubSeqProperties
<1>4. Len(SubSeq(queue, k + 1, Len(queue))) = Len(queue) - k
  BY <1>1, <1>3
<1> QED
  BY <1>1, <1>3, <1>4

\* The queue after emit(): longer by one, or full and shifted by one.
LEMMA EmitShifts ==
  ASSUME TypeOK, Emit
  PROVE  /\ emitted' = emitted + 1 /\ emitted' <= MaxEmits
         /\ queue' \in Seq(1 .. MaxEmits) /\ queue' # <<>>
         /\ \/ /\ Len(queue) < MaxQueued /\ Len(queue') = Len(queue) + 1 /\ dropped' = dropped
               /\ \A i \in 1 .. Len(queue) : queue'[i] = queue[i]
            \/ /\ Len(queue) = MaxQueued /\ Len(queue') = MaxQueued /\ dropped' = dropped + 1
               /\ \A i \in 1 .. Len(queue) - 1 : queue'[i] = queue[i + 1]
         /\ queue'[Len(queue')] = emitted + 1
<1>1. emitted + 1 \in 1 .. MaxEmits /\ emitted' = emitted + 1
  BY BoundsAssumption DEF Emit, TypeOK
<1>2. Len(queue) \in Nat /\ Len(queue) <= MaxQueued /\ MaxQueued \in Nat \ {0}
  BY LenProperties, QueueAssumption DEF TypeOK
<1>3. CASE Len(queue) = MaxQueued
  <2>1. queue # <<>>
    BY <1>2, <1>3, EmptySeq
  <2>2. /\ Tail(queue) \in Seq(1 .. MaxEmits) /\ Len(Tail(queue)) = Len(queue) - 1
        /\ \A i \in 1 .. Len(Tail(queue)) : Tail(queue)[i] = queue[i + 1]
    BY <2>1, HeadTailProperties DEF TypeOK
  <2>3. queue' = Append(Tail(queue), emitted + 1) /\ dropped' = dropped + 1
    BY <1>1, <1>3 DEF Emit
  <2>4. /\ queue' \in Seq(1 .. MaxEmits) /\ queue' # <<>>
        /\ Len(queue') = Len(Tail(queue)) + 1
        /\ \A i \in 1 .. Len(Tail(queue)) : queue'[i] = Tail(queue)[i]
        /\ queue'[Len(Tail(queue)) + 1] = emitted + 1
    BY <1>1, <2>2, <2>3, AppendProperties
  <2> QED
    BY <1>1, <1>2, <1>3, <2>2, <2>3, <2>4
<1>4. CASE Len(queue) # MaxQueued
  <2>1. queue' = Append(queue, emitted + 1) /\ dropped' = dropped
    BY <1>1, <1>4 DEF Emit
  <2>2. /\ queue' \in Seq(1 .. MaxEmits) /\ queue' # <<>>
        /\ Len(queue') = Len(queue) + 1
        /\ \A i \in 1 .. Len(queue) : queue'[i] = queue[i]
        /\ queue'[Len(queue) + 1] = emitted + 1
    BY <1>1, <2>1, AppendProperties DEF TypeOK
  <2> QED
    BY <1>1, <1>2, <1>4, <2>1, <2>2
<1> QED
  BY <1>3, <1>4

-----------------------------------------------------------------------------
(* Typing.                                                                 *)

LEMMA TypeInit == Init => TypeOK
<1> SUFFICES ASSUME Init PROVE TypeOK
  OBVIOUS
<1>1. queue \in Seq(1 .. MaxEmits) /\ Len(queue) <= MaxQueued
  BY EmptySeq, QueueAssumption DEF Init
<1>2. post \in SUBSET Posts /\ Cardinality(post) <= 1
  BY FS_EmptySet DEF Init
<1>3. emitted \in 0 .. MaxEmits /\ fails \in 0 .. MaxFails /\ status \in 0 .. MaxEmits
  BY BoundsAssumption DEF Init
<1>4. dropped = 0 /\ reported = 0 /\ told = 0
  BY DEF Init
<1>5. /\ accepted \in BOOLEAN /\ late \in BOOLEAN /\ life \in {"run", "last", "over"}
      /\ wire \in SUBSET Posts /\ seen \in SUBSET (1 .. MaxEmits)
  BY DEF Init
<1> QED
  BY <1>1, <1>2, <1>3, <1>4, <1>5 DEF TypeOK

LEMMA TypeStep ==
  ASSUME TypeOK, \A p \in post : /\ Len(p.batch) <= Len(queue)
                                 /\ reported + p.lost <= dropped,
         \A p \in wire : p.batch # <<>>, [Next]_vars
  PROVE  TypeOK'
<1>1. CASE Emit
  <2>1. /\ queue' \in Seq(1 .. MaxEmits) /\ Len(queue') <= MaxQueued
        /\ dropped' \in Nat /\ dropped <= dropped' /\ emitted' \in 0 .. MaxEmits
    BY <1>1, EmitShifts, LenProperties, QueueAssumption, BoundsAssumption DEF TypeOK
  <2> QED
    BY <1>1, <2>1 DEF Emit, TypeOK, panelVars
<1>2. CASE FlushBegins
  <2> DEFINE new == [after |-> IF life = "last" THEN fails + 1 ELSE fails,
                     batch |-> Oldest(Batch), lost |-> dropped - reported]
  <2>1. new \in Posts
    BY <1>2, OldestIsPrefix, BoundsAssumption DEF FlushBegins, TypeOK, Posts
  <2>2. post' = {new} /\ wire' = wire \cup {new}
    BY <1>2 DEF FlushBegins
  <2> HIDE DEF new
  <2>3. post' \in SUBSET Posts /\ Cardinality(post') <= 1 /\ wire' \in SUBSET Posts
    <3>1. Cardinality(post') = 1
      BY <2>2, FS_Singleton
    <3>2. post' \in SUBSET Posts /\ wire' \in SUBSET Posts
      BY <2>1, <2>2 DEF TypeOK
    <3> QED
      BY <3>1, <3>2
  <2> QED
    BY <1>2, <2>3 DEF FlushBegins, TypeOK, agentVars, panelVars
<1>3. CASE FlushSucceeds
  <2>1. PICK p \in post : /\ queue' = SubSeq(queue, Len(p.batch) + 1, Len(queue))
                          /\ reported' = reported + p.lost
    BY <1>3 DEF FlushSucceeds
  <2>2. p.batch \in Seq(1 .. MaxEmits) /\ p.lost \in Nat
    BY DEF TypeOK, Posts
  <2>3. Len(p.batch) \in Nat /\ Len(queue) \in Nat /\ Len(p.batch) <= Len(queue)
    BY <2>2, LenProperties DEF TypeOK
  <2>4. queue' \in Seq(1 .. MaxEmits) /\ Len(queue') = Len(queue) - Len(p.batch)
    BY <2>1, <2>3, RestOfQueue
  <2>5. Len(queue') <= MaxQueued
    BY <2>3, <2>4, QueueAssumption DEF TypeOK
  <2>6. reported' \in 0 .. dropped
    BY <2>1, <2>2 DEF TypeOK
  <2>7. post' \in SUBSET Posts /\ Cardinality(post') <= 1 /\ life' \in {"run", "last", "over"}
    BY <1>3, FS_EmptySet DEF FlushSucceeds, FlushEnds, TypeOK
  <2> QED
    BY <1>3, <2>4, <2>5, <2>6, <2>7 DEF FlushSucceeds, TypeOK, panelVars
<1>4. CASE FlushFails
  <2>1. post' \in SUBSET Posts /\ Cardinality(post') <= 1 /\ life' \in {"run", "last", "over"}
    BY <1>4, FS_EmptySet DEF FlushFails, FlushEnds, TypeOK
  <2>2. fails' \in 0 .. MaxFails /\ wire' \in SUBSET Posts
    BY <1>4, BoundsAssumption DEF FlushFails, TypeOK
  <2> QED
    BY <1>4, <2>1, <2>2 DEF FlushFails, TypeOK, agentVars, panelVars
<1>5. CASE ShutsDown
  <2>1. post' \in SUBSET Posts /\ Cardinality(post') <= 1
    BY <1>5, FS_EmptySet DEF ShutsDown, TypeOK
  <2> QED
    BY <1>5, <2>1 DEF ShutsDown, TypeOK, agentVars, panelVars
<1>6. ASSUME NEW p \in wire, PanelHandles(p)
      PROVE  TypeOK'
  <2>1. p.batch \in Seq(1 .. MaxEmits) /\ p.lost \in Nat /\ p.batch # <<>>
    BY DEF TypeOK, Posts
  <2>2. Len(p.batch) \in Nat \ {0} /\ DOMAIN p.batch = 1 .. Len(p.batch)
        /\ \A i \in 1 .. Len(p.batch) : p.batch[i] \in 1 .. MaxEmits
    BY <2>1, EmptySeq, LenProperties, ElementOfSeq
  <2>3. Range(p.batch) \subseteq 1 .. MaxEmits /\ Last(p.batch) \in 1 .. MaxEmits
    BY <2>2 DEF Range, Last
  <2>4. seen' \in SUBSET (1 .. MaxEmits) /\ status' \in 0 .. MaxEmits /\ told' \in Nat
    <3>1. seen' = seen \cup Range(p.batch) /\ status' = Last(p.batch) /\ told' = told + p.lost
      BY <1>6 DEF PanelHandles
    <3>2. seen' \in SUBSET (1 .. MaxEmits)
      BY <2>3, <3>1 DEF TypeOK
    <3>3. status' \in 0 .. MaxEmits /\ told' \in Nat
      BY <2>1, <2>3, <3>1 DEF TypeOK
    <3> QED
      BY <3>2, <3>3
  <2>5. wire' \in SUBSET Posts /\ accepted' \in BOOLEAN /\ late' \in BOOLEAN
    BY <1>6 DEF PanelHandles, TypeOK
  <2> QED
    BY <1>6, <2>4, <2>5 DEF PanelHandles, TypeOK, agentVars
<1>7. CASE UNCHANGED vars
  BY <1>7 DEF TypeOK, vars, agentVars, panelVars
<1> QED
  BY <1>1, <1>2, <1>3, <1>4, <1>5, <1>6, <1>7 DEF Next

-----------------------------------------------------------------------------
(* What is lost, and what the panel shows.                                 *)

\* The post p is of the events after the first b.  Since it was made the queue
\* may have been shifted -- then it is full and stays so until the answer.
Sent(p, b) ==
  /\ Len(p.batch) \in 1 .. Batch /\ Len(p.batch) <= Len(queue)
  /\ \A i \in 1 .. Len(p.batch) : p.batch[i] = b + i
  /\ Cardinality(Unheard(b)) + (Left - b) <= dropped
  /\ Left > b => Len(queue) = MaxQueued
  /\ reported + p.lost <= dropped
  /\ accepted => /\ \A i \in 1 .. Len(p.batch) : b + i \in seen
                 /\ ~late => status = b + Len(p.batch)
                 /\ reported + p.lost <= told

EventsInv ==
  /\ Left >= 0
  /\ \A i \in 1 .. Len(queue) : queue[i] = Left + i
  /\ post = {} => Cardinality(Unheard(Left)) <= dropped
  /\ \A p \in post : \E b \in 0 .. Left : Sent(p, b)
  /\ \A p, q \in post : p = q
  /\ \A p \in wire : p.batch # <<>>
  /\ queue = <<>> /\ ~late => status = emitted
  /\ reported <= told

\* Counting what the panel has not heard of.
LEMMA UnheardFinite ==
  ASSUME NEW n \in Int
  PROVE  IsFiniteSet(Unheard(n)) /\ Cardinality(Unheard(n)) \in Nat
<1>1. IsFiniteSet(1 .. n)
  BY FS_Interval
<1>2. IsFiniteSet((1 .. n) \ seen)
  BY <1>1, FS_Difference
<1> QED
  BY <1>2, FS_CardinalityType DEF Unheard

LEMMA UnheardGrows ==
  ASSUME NEW b \in Nat, NEW n \in Nat, NEW m \in Nat, b + m <= n,
         \A i \in 1 .. m : b + i \in seen
  PROVE  Cardinality(Unheard(n)) <= Cardinality(Unheard(b)) + (n - b - m)
<1> DEFINE New == b + m + 1 .. n
<1>1. Unheard(n) \subseteq Unheard(b) \cup New
  <2> SUFFICES ASSUME NEW e \in 1 .. n, e \notin seen, e > b
               PROVE  e > b + m
    BY DEF Unheard
  <2>1. e <= b + m => e - b \in 1 .. m /\ b + (e - b) = e
    OBVIOUS
  <2> QED
    BY <2>1
<1>2. IsFiniteSet(New) /\ Cardinality(New) = n - b - m
  <2>1. Cardinality(New) = IF b + m + 1 > n THEN 0 ELSE n - (b + m + 1) + 1
    BY FS_Interval
  <2>2. IsFiniteSet(New)
    BY FS_Interval
  <2> QED
    BY <2>1, <2>2
<1>3. IsFiniteSet(Unheard(b)) /\ Cardinality(Unheard(b)) \in Nat
  BY UnheardFinite
<1> HIDE DEF New
<1>4. /\ IsFiniteSet(Unheard(b) \cup New)
      /\ Cardinality(Unheard(b) \cup New)
           = Cardinality(Unheard(b)) + Cardinality(New) - Cardinality(Unheard(b) \cap New)
  BY <1>2, <1>3, FS_Union
<1>5. Cardinality(Unheard(b) \cap New) \in Nat
  BY <1>3, FS_Subset, FS_CardinalityType
<1>6. Cardinality(Unheard(n)) <= Cardinality(Unheard(b) \cup New)
  BY <1>1, <1>4, FS_Subset
<1>7. Cardinality(Unheard(n)) \in Nat
  BY UnheardFinite
<1> QED
  BY <1>2, <1>3, <1>4, <1>5, <1>6, <1>7

LEMMA UnheardNext ==
  ASSUME NEW n \in Nat
  PROVE  Cardinality(Unheard(n + 1)) <= Cardinality(Unheard(n)) + 1
<1>1. n + 1 \in Nat /\ 0 \in Nat /\ n + 0 <= n + 1 /\ \A i \in 1 .. 0 : n + i \in seen
  OBVIOUS
<1>2. Cardinality(Unheard(n + 1)) <= Cardinality(Unheard(n)) + (n + 1 - n - 0)
  BY <1>1, UnheardGrows
<1> QED
  BY <1>2

LEMMA UnheardShrinks ==
  ASSUME NEW n \in Int, seen \subseteq seen'
  PROVE  Cardinality(Unheard(n)') <= Cardinality(Unheard(n))
<1>1. (1 .. n) \ seen' \in SUBSET ((1 .. n) \ seen) /\ IsFiniteSet((1 .. n) \ seen)
  BY UnheardFinite DEF Unheard
<1>2. Cardinality((1 .. n) \ seen') <= Cardinality((1 .. n) \ seen)
  BY <1>1, FS_Subset
<1> QED
  BY <1>2 DEF Unheard

LEMMA EventsInit == Init => EventsInv
<1> SUFFICES ASSUME Init PROVE EventsInv
  OBVIOUS
<1>1. Len(queue) = 0
  BY EmptySeq DEF Init
<1>2. emitted = 0
  BY DEF Init
<1>3. Left = 0
  BY <1>1, <1>2 DEF Left
<1>4. Unheard(Left) = {}
  BY <1>3 DEF Unheard
<1>5. Cardinality(Unheard(Left)) <= dropped
  BY <1>4, FS_EmptySet DEF Init
<1> QED
  BY <1>1, <1>3, <1>5 DEF Init, EventsInv

\* Whatever is posted, no more than it says leaves the count of what was lost.
LEMMA LeftIsCounted ==
  ASSUME TypeOK, EventsInv
  PROVE  Cardinality(Unheard(Left)) <= dropped
<1>1. CASE post = {}
  BY <1>1 DEF EventsInv
<1>2. ASSUME NEW p \in post
      PROVE  Cardinality(Unheard(Left)) <= dropped
  <2>1. PICK b \in 0 .. Left : Sent(p, b)
    BY DEF EventsInv
  <2>2. Left \in Nat
    BY LenProperties DEF EventsInv, Left, TypeOK
  <2>3. Cardinality(Unheard(Left)) <= Cardinality(Unheard(b)) + (Left - b - 0)
    BY <2>2, UnheardGrows
  <2>4. Cardinality(Unheard(b)) \in Nat /\ Cardinality(Unheard(Left)) \in Nat
    BY <2>2, UnheardFinite
  <2> QED
    BY <2>1, <2>2, <2>3, <2>4 DEF Sent, TypeOK
<1> QED
  BY <1>1, <1>2

\* A flush that ends without an answer leaves everything as it was.
LEMMA FlushDropped ==
  ASSUME TypeOK, EventsInv, post' = {}, wire' \subseteq wire, UNCHANGED <<agentVars, late, panelVars>>
  PROVE  EventsInv'
<1>1. Left' = Left /\ Unheard(Left)' = Unheard(Left)
  BY DEF Left, Unheard, agentVars, panelVars
<1>2. Cardinality(Unheard(Left)') <= dropped'
  BY <1>1, LeftIsCounted DEF agentVars
<1> QED
  BY <1>1, <1>2 DEF EventsInv, agentVars, panelVars

LEMMA EmitKeeps ==
  ASSUME TypeOK, EventsInv, Emit
  PROVE  EventsInv'
<1>1. UNCHANGED <<reported, post, accepted, wire, late, seen, status, told>>
  BY DEF Emit, panelVars
<1>2. Len(queue) \in Nat /\ Left \in Nat /\ dropped \in Nat /\ emitted = Left + Len(queue)
  BY LenProperties DEF EventsInv, Left, TypeOK
<1>3. \A i \in 1 .. Len(queue) : queue[i] = Left + i
  BY DEF EventsInv
<1>4. \A n : Unheard(n)' = Unheard(n)
  BY <1>1 DEF Unheard
<1>5. /\ (Left' = Left /\ dropped' = dropped) \/ (Left' = Left + 1 /\ dropped' = dropped + 1)
      /\ Left' > Left => Len(queue) = MaxQueued
      /\ Len(queue') \in Nat /\ Len(queue) <= Len(queue')
      /\ Len(queue) = MaxQueued => Left' = Left + 1 /\ Len(queue') = MaxQueued
      /\ \A i \in 1 .. Len(queue') : queue'[i] = Left' + i
  <2>1. CASE Len(queue) < MaxQueued
    <3>0. emitted' = emitted + 1 /\ Len(queue') = Len(queue) + 1 /\ dropped' = dropped
      BY <1>2, <2>1, EmitShifts
    <3>1. Len(queue') = Len(queue) + 1 /\ Left' = Left /\ dropped' = dropped
      BY <1>2, <3>0 DEF Left
    <3>2. /\ \A i \in 1 .. Len(queue) : queue'[i] = queue[i]
          /\ queue'[Len(queue')] = emitted + 1
      BY <1>2, <2>1, EmitShifts
    <3>3. \A i \in 1 .. Len(queue') : queue'[i] = Left' + i
      BY <1>2, <1>3, <3>1, <3>2
    <3> QED
      BY <1>2, <2>1, <3>1, <3>3
  <2>2. CASE ~(Len(queue) < MaxQueued)
    <3>0. /\ Len(queue) = MaxQueued /\ Len(queue') = MaxQueued
          /\ emitted' = emitted + 1 /\ dropped' = dropped + 1
      BY <1>2, <2>2, EmitShifts
    <3>1. /\ Len(queue) = MaxQueued /\ Len(queue') = MaxQueued
          /\ Left' = Left + 1 /\ dropped' = dropped + 1
      BY <1>2, <3>0 DEF Left
    <3>2. /\ \A i \in 1 .. Len(queue) - 1 : queue'[i] = queue[i + 1]
          /\ queue'[Len(queue')] = emitted + 1
      BY <1>2, <2>2, EmitShifts
    <3>3. ASSUME NEW i \in 1 .. Len(queue')
          PROVE  queue'[i] = Left' + i
      <4>1. CASE i < Len(queue)
        <5>1. i \in 1 .. Len(queue) - 1 /\ i + 1 \in 1 .. Len(queue)
          BY <1>2, <3>1, <4>1
        <5> QED
          BY <1>2, <1>3, <3>1, <3>2, <5>1
      <4>2. CASE i = Len(queue)
        BY <1>2, <3>1, <3>2, <4>2
      <4> QED
        BY <1>2, <3>1, <4>1, <4>2
    <3> QED
      BY <1>2, <3>1, <3>3
  <2> QED
    BY <2>1, <2>2
<1>6. Left' >= 0 /\ queue' # <<>>
  BY <1>2, <1>5, EmitShifts
<1>7. post' = {} => Cardinality(Unheard(Left)') <= dropped'
  <2> SUFFICES ASSUME post = {}
               PROVE  Cardinality((1 .. Left') \ seen) <= dropped'
    BY <1>1 DEF Unheard
  <2>1. Cardinality(Unheard(Left)) <= dropped /\ Cardinality(Unheard(Left)) \in Nat
    BY <1>2, UnheardFinite DEF EventsInv
  <2>2. Cardinality(Unheard(Left + 1)) <= Cardinality(Unheard(Left)) + 1
    BY <1>2, UnheardNext
  <2>3. Cardinality(Unheard(Left + 1)) \in Nat
    BY <1>2, UnheardFinite
  <2>4. CASE Left' = Left
    <3>1. dropped' = dropped
      BY <1>2, <1>5, <2>4
    <3>2. (1 .. Left') \ seen = Unheard(Left)
      BY <2>4 DEF Unheard
    <3> QED
      BY <2>1, <3>1, <3>2
  <2>5. CASE Left' = Left + 1
    <3>1. Cardinality(Unheard(Left + 1)) <= dropped'
      BY <1>2, <1>5, <2>1, <2>2, <2>3, <2>5
    <3> QED
      BY <2>5, <3>1 DEF Unheard
  <2> QED
    BY <1>5, <2>4, <2>5
<1>8. ASSUME NEW p \in post
      PROVE  \E b \in 0 .. Left' : Sent(p, b)'
  <2>1. PICK b \in 0 .. Left : Sent(p, b)
    BY DEF EventsInv
  <2>2. /\ Len(p.batch) \in 1 .. Batch /\ Len(p.batch) <= Len(queue)
        /\ \A i \in 1 .. Len(p.batch) : p.batch[i] = b + i
        /\ Cardinality(Unheard(b)) + (Left - b) <= dropped
        /\ Left > b => Len(queue) = MaxQueued
        /\ reported + p.lost <= dropped
    BY <2>1 DEF Sent
  <2>3. accepted => /\ \A i \in 1 .. Len(p.batch) : b + i \in seen
                    /\ ~late => status = b + Len(p.batch)
                    /\ reported + p.lost <= told
    BY <2>1 DEF Sent
  <2>4. Cardinality(Unheard(b)) \in Nat /\ p.lost \in Nat /\ reported \in Nat
    BY UnheardFinite DEF TypeOK, Posts
  <2>5. Len(p.batch) <= Len(queue') /\ (Left' > b => Len(queue') = MaxQueued)
    BY <1>2, <1>5, <2>2, QueueAssumption
  <2>6. Cardinality(Unheard(b)) + (Left' - b) <= dropped' /\ reported + p.lost <= dropped'
    <3>1. CASE Left' = Left /\ dropped' = dropped
      BY <2>2, <3>1
    <3>2. CASE Left' = Left + 1 /\ dropped' = dropped + 1
      BY SMTT(30), <1>2, <2>2, <2>4, <3>2
    <3>3. (Left' = Left /\ dropped' = dropped) \/ (Left' = Left + 1 /\ dropped' = dropped + 1)
      BY <1>5
    <3> QED
      BY <3>1, <3>2, <3>3
  <2>7. Cardinality(Unheard(b)') = Cardinality(Unheard(b))
    BY <1>4
  <2>8. Sent(p, b)'
    BY <1>1, <2>2, <2>3, <2>5, <2>6, <2>7 DEF Sent
  <2>9. b \in 0 .. Left'
    BY <1>2, <1>5
  <2> QED
    BY <2>8, <2>9
<1>9. \A p, q \in post : p = q
  BY DEF EventsInv
<1>10. reported <= told /\ \A p \in wire : p.batch # <<>>
  BY DEF EventsInv
<1>11. \A i \in 1 .. Len(queue') : queue'[i] = Left' + i
  BY <1>5
<1> QED
  BY <1>1, <1>6, <1>7, <1>8, <1>9, <1>10, <1>11 DEF EventsInv

LEMMA FlushBeginsKeeps ==
  ASSUME TypeOK, EventsInv, FlushBegins
  PROVE  EventsInv'
<1>0. PICK new : new = [after |-> IF life = "last" THEN fails + 1 ELSE fails,
                        batch |-> Oldest(Batch), lost |-> dropped - reported]
  OBVIOUS
<1>1. /\ post = {} /\ post' = {new} /\ wire' = wire \cup {new} /\ ~accepted'
      /\ new.batch = Oldest(Batch) /\ new.lost = dropped - reported
  <2>1. post = {} /\ post' = {new} /\ wire' = wire \cup post' /\ accepted' = FALSE
    BY <1>0 DEF FlushBegins
  <2>2. new.batch = Oldest(Batch) /\ new.lost = dropped - reported
    BY <1>0
  <2> QED
    BY <2>1, <2>2
<1>2. queue # <<>> /\ UNCHANGED <<emitted, queue, dropped, reported, late, seen, status, told>>
  BY DEF FlushBegins, agentVars, panelVars
<1>3. PICK b \in Nat : b = Left
  BY LenProperties DEF EventsInv, Left, TypeOK
<1>4. Left' = b /\ Unheard(b)' = Unheard(b) /\ Cardinality(Unheard(b)) \in Nat
  <2>1. Left' = Left
    BY <1>2 DEF Left
  <2>2. Unheard(b)' = Unheard(b)
    BY <1>2 DEF Unheard
  <2> QED
    BY <1>3, <2>1, <2>2, UnheardFinite
<1>5. /\ Len(new.batch) \in 1 .. Batch /\ Len(new.batch) <= Len(queue)
      /\ \A i \in 1 .. Len(new.batch) : new.batch[i] = queue[i]
  BY <1>1, <1>2, OldestIsPrefix
<1>6. \A i \in 1 .. Len(queue) : queue[i] = b + i
  BY <1>3 DEF EventsInv
<1>7. \A i \in 1 .. Len(new.batch) : new.batch[i] = b + i
  <2>1. Len(queue) \in Nat
    BY LenProperties DEF TypeOK
  <2> QED
    BY SMTT(30), <1>5, <1>6, <2>1
<1>8. Cardinality(Unheard(b)) + (b - b) <= dropped
  BY <1>1, <1>3, <1>4 DEF EventsInv
<1>9. reported + new.lost <= dropped
  BY <1>1 DEF TypeOK
<1>10. Sent(new, b)'
  <2>1. Cardinality(Unheard(b)') + (Left' - b) <= dropped' /\ ~(Left' > b)
    BY <1>2, <1>4, <1>8
  <2> QED
    BY <1>1, <1>2, <1>5, <1>7, <1>9, <2>1 DEF Sent
<1>11. \A p \in post' : \E c \in 0 .. Left' : Sent(p, c)'
  BY <1>1, <1>4, <1>10
<1>12. new.batch # <<>>
  BY <1>5, EmptySeq
<1>13. Left' >= 0 /\ (\A i \in 1 .. Len(queue') : queue'[i] = Left' + i)
  BY <1>2, <1>4, <1>6
<1>14. (\A p, q \in post' : p = q) /\ (\A p \in wire' : p.batch # <<>>) /\ post' # {}
  BY <1>1, <1>12 DEF EventsInv
<1>15. reported' <= told' /\ queue' # <<>>
  BY <1>2 DEF EventsInv
<1> QED
  BY <1>11, <1>13, <1>14, <1>15 DEF EventsInv

\* The answer: the events that leave the queue were in the batch, or as many
\* others were shifted out, and counted, since the batch was made.
LEMMA FlushSucceedsKeeps ==
  ASSUME TypeOK, EventsInv, FlushSucceeds
  PROVE  EventsInv'
<1>1. PICK p \in post : /\ queue' = SubSeq(queue, Len(p.batch) + 1, Len(queue))
                        /\ reported' = reported + p.lost
  BY DEF FlushSucceeds
<1>2. accepted /\ post' = {} /\ UNCHANGED <<emitted, dropped, wire, late, seen, status, told>>
  BY DEF FlushSucceeds, FlushEnds, panelVars
<1>3. PICK b \in 0 .. Left : Sent(p, b)
  BY DEF EventsInv
<1> DEFINE k == Len(p.batch)
<1>4. k \in Nat \ {0} /\ k <= Batch /\ k <= Len(queue) /\ Len(queue) \in Nat /\ Left \in Nat
      /\ emitted = Left + Len(queue)
  BY SMTT(30), <1>3, LenProperties, QueueAssumption DEF Sent, EventsInv, TypeOK, Left
<1>5. /\ \A i \in 1 .. k : b + i \in seen
      /\ ~late => status = b + k
      /\ reported + p.lost <= told
      /\ Cardinality(Unheard(b)) + (Left - b) <= dropped
      /\ Left > b => Len(queue) = MaxQueued
  BY <1>2, <1>3 DEF Sent
<1> HIDE DEF k
<1>6. /\ Len(queue') = Len(queue) - k
      /\ \A i \in 1 .. Len(queue') : queue'[i] = queue[k + i]
  BY <1>1, <1>4, RestOfQueue DEF k
<1>7. Left' = Left + k
  BY <1>2, <1>4, <1>6 DEF Left
<1>8. \A i \in 1 .. Len(queue') : queue'[i] = Left' + i
  BY <1>4, <1>6, <1>7 DEF EventsInv
<1>9. Cardinality(Unheard(Left + k)) <= dropped
  <2>1. PICK n \in Nat : n = Left + k
    BY <1>4
  <2>2. b \in Nat /\ k \in Nat /\ b + k <= n
    BY <1>4, <2>1
  <2>3. Cardinality(Unheard(n)) <= Cardinality(Unheard(b)) + (n - b - k)
    <3>1. \A i \in 1 .. k : b + i \in seen
      BY <1>5
    <3> QED
      BY <2>2, <3>1, UnheardGrows
  <2>4. Cardinality(Unheard(n)) \in Nat /\ Cardinality(Unheard(b)) \in Nat /\ dropped \in Nat
    <3>1. n \in Int /\ b \in Int
      BY <2>2
    <3>2. dropped \in Nat
      BY DEF TypeOK
    <3> QED
      BY <3>1, <3>2, UnheardFinite
  <2>5. Cardinality(Unheard(n)) <= dropped
    BY <1>4, <1>5, <2>1, <2>2, <2>3, <2>4
  <2> QED
    BY <2>1, <2>5
<1>10. Unheard(Left)' = Unheard(Left + k)
  BY <1>2, <1>7 DEF Unheard
<1>11. ASSUME queue' = <<>>, ~late
       PROVE  status = emitted
  <2>1. Len(queue) = k
    BY <1>4, <1>6, <1>11, EmptySeq
  <2>2. Left = b
    BY <1>4, <1>5, <2>1, QueueAssumption
  <2> QED
    BY <1>4, <1>5, <1>11, <2>1, <2>2
<1>12. post' = {} => Cardinality(Unheard(Left)') <= dropped'
  BY <1>2, <1>9, <1>10
<1>13. reported' <= told'
  <2>1. p \in post /\ reported' = reported + p.lost
    BY <1>1
  <2> QED
    BY <1>2, <1>5, <2>1
<1>14. Left' >= 0
  BY <1>4, <1>7
<1>15. \A q \in wire : q.batch # <<>>
  BY DEF EventsInv
<1> QED
  BY <1>2, <1>8, <1>11, <1>12, <1>13, <1>14, <1>15 DEF EventsInv

LEMMA PanelKeeps ==
  ASSUME TypeOK, EventsInv, NEW p \in wire, PanelHandles(p)
  PROVE  EventsInv'
<1>1. /\ wire' = wire \ {p} /\ seen' = seen \cup Range(p.batch) /\ status' = Last(p.batch)
      /\ told' = told + p.lost
      /\ accepted' = (accepted \/ p \in post) /\ late' = (late \/ p \notin post)
      /\ UNCHANGED <<emitted, queue, dropped, reported, post>>
  BY DEF PanelHandles, agentVars
<1>2. p.lost \in Nat /\ told \in Nat /\ reported \in Nat /\ dropped \in Nat
  BY DEF TypeOK, Posts
<1>3. Len(queue) \in Nat /\ Left \in Nat /\ Left' = Left
  BY <1>1, LenProperties DEF EventsInv, Left, TypeOK
<1>4. ASSUME NEW b \in Nat
      PROVE  Cardinality(Unheard(b)') <= Cardinality(Unheard(b)) /\ Cardinality(Unheard(b)') \in Nat
  <2>1. Cardinality(Unheard(b)') <= Cardinality(Unheard(b))
    BY <1>1, UnheardShrinks
  <2>2. IsFiniteSet((1 .. b) \ seen')
    <3>1. IsFiniteSet(1 .. b)
      BY FS_Interval
    <3> QED
      BY <3>1, FS_Difference
  <2> QED
    BY <2>1, <2>2, FS_CardinalityType DEF Unheard
<1>5. post' = {} => Cardinality(Unheard(Left)') <= dropped
  <2>1. post = {} => Cardinality(Unheard(Left)) <= dropped /\ Cardinality(Unheard(Left)) \in Nat
    BY <1>3, UnheardFinite DEF EventsInv
  <2>2. /\ Cardinality((1 .. Left) \ seen') <= Cardinality(Unheard(Left))
        /\ Cardinality((1 .. Left) \ seen') \in Nat
    BY <1>3, <1>4 DEF Unheard
  <2>3. Unheard(Left)' = (1 .. Left) \ seen'
    BY <1>3 DEF Unheard
  <2> QED
    BY <1>1, <1>2, <2>1, <2>2, <2>3
<1>6. ASSUME NEW q \in post
      PROVE  \E b \in 0 .. Left' : Sent(q, b)'
  <2>1. PICK b \in 0 .. Left : Sent(q, b)
    BY DEF EventsInv
  <2>2. /\ Len(q.batch) \in 1 .. Batch /\ Len(q.batch) <= Len(queue)
        /\ \A i \in 1 .. Len(q.batch) : q.batch[i] = b + i
        /\ Cardinality(Unheard(b)) + (Left - b) <= dropped
        /\ Left > b => Len(queue) = MaxQueued
        /\ reported + q.lost <= dropped
    BY <2>1 DEF Sent
  <2>3. Cardinality(Unheard(b)') + (Left - b) <= dropped
    BY <1>2, <1>3, <1>4, <2>2, UnheardFinite
  <2>4. ASSUME accepted'
        PROVE  /\ \A i \in 1 .. Len(q.batch) : b + i \in seen'
               /\ ~late' => status' = b + Len(q.batch)
               /\ reported + q.lost <= told'
    <3>1. CASE p \in post
      <4>1. p = q
        BY <3>1 DEF EventsInv
      <4>2. q.batch \in Seq(1 .. MaxEmits) /\ DOMAIN q.batch = 1 .. Len(q.batch)
        BY LenProperties DEF TypeOK, Posts
      <4>3. \A i \in 1 .. Len(q.batch) : q.batch[i] \in seen'
        BY <1>1, <4>1, <4>2 DEF Range
      <4>4. status' = q.batch[Len(q.batch)] /\ Len(q.batch) \in 1 .. Len(q.batch)
        BY <1>1, <2>2, <4>1, QueueAssumption DEF Last
      <4>5. reported <= told
        BY DEF EventsInv
      <4>6. reported + q.lost <= told'
        BY <1>1, <1>2, <4>1, <4>5
      <4>7. status' = b + Len(q.batch) /\ \A i \in 1 .. Len(q.batch) : b + i \in seen'
        BY <2>2, <4>3, <4>4
      <4> QED
        BY <4>6, <4>7
    <3>2. CASE p \notin post
      <4>1. accepted /\ late'
        BY <1>1, <2>4, <3>2
      <4>2. /\ \A i \in 1 .. Len(q.batch) : b + i \in seen
            /\ reported + q.lost <= told
        BY <2>1, <4>1 DEF Sent
      <4>3. q.lost \in Nat
        BY DEF TypeOK, Posts
      <4> QED
        BY <1>1, <1>2, <4>1, <4>2, <4>3
    <3> QED
      BY <3>1, <3>2
  <2>5. Sent(q, b)'
    BY <1>1, <1>3, <2>2, <2>3, <2>4 DEF Sent
  <2> QED
    BY <1>3, <2>5
<1>7. ASSUME queue = <<>>, ~late'
      PROVE  FALSE
  <2>1. p \in post
    BY <1>1, <1>7
  <2>2. Len(p.batch) >= 1 /\ Len(p.batch) <= Len(queue) /\ Len(p.batch) \in Int
    BY <2>1, QueueAssumption DEF EventsInv, Sent
  <2>3. Len(queue) = 0
    BY <1>7, EmptySeq
  <2> QED
    BY <2>2, <2>3
<1>8. reported <= told'
  BY <1>1, <1>2 DEF EventsInv
<1>9. \A i \in 1 .. Len(queue) : queue[i] = Left + i
  BY DEF EventsInv
<1>10. (\A q, r \in post : q = r) /\ (\A q \in wire' : q.batch # <<>>)
  BY <1>1 DEF EventsInv
<1> QED
  BY <1>1, <1>3, <1>5, <1>6, <1>7, <1>8, <1>9, <1>10 DEF EventsInv

LEMMA EventsGoOn ==
  ASSUME TypeOK, EventsInv, [Next]_vars
  PROVE  TypeOK' /\ EventsInv'
<1>1. TypeOK'
  <2>1. \A p \in post : Len(p.batch) <= Len(queue) /\ reported + p.lost <= dropped
    BY DEF EventsInv, Sent
  <2>2. \A p \in wire : p.batch # <<>>
    BY DEF EventsInv
  <2> QED
    BY <2>1, <2>2, TypeStep
<1>2. CASE FlushFails
  <2>1. post' = {} /\ wire' \subseteq wire /\ UNCHANGED <<agentVars, late, panelVars>>
    BY <1>2 DEF FlushFails, FlushEnds
  <2> QED
    BY <1>1, <2>1, FlushDropped
<1>3. CASE ShutsDown
  <2>1. post' = {} /\ wire' \subseteq wire /\ UNCHANGED <<agentVars, late, panelVars>>
    BY <1>3 DEF ShutsDown
  <2> QED
    BY <1>1, <2>1, FlushDropped
<1>4. CASE UNCHANGED vars
  <2>1. UNCHANGED <<emitted, queue, dropped, reported, post, accepted, wire, late, seen, status, told>>
    BY <1>4 DEF vars, agentVars, panelVars
  <2>2. Left' = Left
    BY <2>1 DEF Left
  <2>3. \A n : Unheard(n)' = Unheard(n)
    BY <2>1 DEF Unheard
  <2>4. Unheard(Left)' = Unheard(Left)
    BY <2>1, <2>2 DEF Unheard
  <2>5. \A p, b : Sent(p, b)' <=> Sent(p, b)
    BY <2>1, <2>2, <2>3 DEF Sent
  <2> QED
    BY <1>1, <2>1, <2>2, <2>4, <2>5 DEF EventsInv
<1>5. CASE Emit
  BY <1>1, <1>5, EmitKeeps
<1>6. CASE FlushBegins
  BY <1>1, <1>6, FlushBeginsKeeps
<1>7. CASE FlushSucceeds
  BY <1>1, <1>7, FlushSucceedsKeeps
<1>8. ASSUME NEW p \in wire, PanelHandles(p)
      PROVE  TypeOK' /\ EventsInv'
  BY <1>1, <1>8, PanelKeeps
<1> QED
  BY <1>2, <1>3, <1>4, <1>5, <1>6, <1>7, <1>8 DEF Next

\* Every variable keeps its type, for any bounds: the queue holds no more than
\* MAX_QUEUED events and a post no more than a batch of them.
THEOREM EventTypesHold == Spec => []TypeOK
BY TypeInit, EventsInit, EventsGoOn, PTL DEF Spec

\* An event that is neither waiting nor known to the panel is counted as lost
\* (LossesCounted: emit, flush), for a queue and batches of any size and any
\* number of events, posts given up on and answers that come late.
THEOREM LossesAreCounted == Spec => []LossesCounted
<1>1. TypeOK /\ EventsInv => LossesCounted
  <2> SUFFICES ASSUME TypeOK, EventsInv PROVE LossesCounted
    OBVIOUS
  <2>1. Len(queue) \in Nat /\ Left \in Nat /\ emitted = Left + Len(queue)
        /\ DOMAIN queue = 1 .. Len(queue)
    BY LenProperties DEF EventsInv, Left, TypeOK
  <2>2. (1 .. emitted) \ (seen \cup Range(queue)) \subseteq Unheard(Left)
    <3> SUFFICES ASSUME NEW e \in 1 .. emitted, e \notin seen, e > Left
                 PROVE  e \in Range(queue)
      BY <2>1 DEF Unheard
    <3>1. e - Left \in 1 .. Len(queue)
      BY <2>1
    <3>2. queue[e - Left] = Left + (e - Left)
      BY <3>1 DEF EventsInv
    <3>3. queue[e - Left] = e
      BY <2>1, <3>2
    <3> QED
      BY <2>1, <3>1, <3>3 DEF Range
  <2>3. IsFiniteSet(Unheard(Left)) /\ Cardinality(Unheard(Left)) \in Nat
    <3>1. Left \in Int
      BY <2>1
    <3> QED
      BY <3>1, UnheardFinite
  <2>4. /\ Cardinality((1 .. emitted) \ (seen \cup Range(queue))) <= Cardinality(Unheard(Left))
        /\ Cardinality((1 .. emitted) \ (seen \cup Range(queue))) \in Nat
    BY <2>2, <2>3, FS_Subset, FS_CardinalityType
  <2> QED
    BY <2>3, <2>4, LeftIsCounted DEF LossesCounted, TypeOK
<1> QED
  BY <1>1, TypeInit, EventsInit, EventsGoOn, PTL DEF Spec

\* A panel that knows all that is left of the queue shows the last state that
\* was reported, unless it got to a post too late (StatusCatchesUp:
\* agent_events), under the same conditions.
THEOREM StatusIsLast == Spec => []StatusCatchesUp
<1>1. EventsInv => StatusCatchesUp
  BY DEF EventsInv, StatusCatchesUp
<1> QED
  BY <1>1, TypeInit, EventsInit, EventsGoOn, PTL DEF Spec

\* The agent takes no lost event for reported that the panel was not told of
\* (ReportedIsTold: flush), under the same conditions.
THEOREM ReportsAreHeard == Spec => []ReportedIsTold
<1>1. EventsInv => ReportedIsTold
  BY DEF EventsInv, ReportedIsTold
<1> QED
  BY <1>1, TypeInit, EventsInit, EventsGoOn, PTL DEF Spec
=============================================================================
