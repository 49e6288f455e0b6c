----------------------------- MODULE ConsoleRelay -----------------------------
(***************************************************************************)
(* The console of one server on its way to the people who watch it: the    *)
(* ring on the node (agent/servers.py, Console) and the websocket that     *)
(* follows it (agent/main.py), the one connection the panel keeps for all  *)
(* viewers (app/console_hub.py), the page that shows it (tab-console.js),  *)
(* and the polled stream that stands in for the socket (app/main.py).      *)
(*                                                                         *)
(* A line is the life of the agent it was written in and its number there. *)
(***************************************************************************)
EXTENDS Integers, Sequences, SequenceTheorems, TLAPS

CONSTANTS Viewers,      \* pages that follow over the socket
          Readers,      \* pages that poll
          Ring,         \* lines the node and the panel keep
          AgentQueue,   \* lines that wait for the panel on the node
          ViewerQueue,  \* frames that wait for one viewer
          Batch,        \* lines of one frame
          MaxLines,     \* bound: lines written
          MaxJoins,     \* bound: times a page opens its socket
          MaxTroubles   \* bound: restarts of the agent, lost sockets, failed calls

VARIABLES life, count, ring,    \* the node's Console
          sub,          \* the panel's subscription to it
          wire,         \* frames on their way to the panel
          task,         \* the panel's follower: none, connecting, following, closing
          feed,         \* the panel's Feed: ready, and the lines it keeps
          viewers, queue,       \* who watches, and what waits for each
          shown,        \* what each page shows
          cursor, seen, sure,   \* a reader: its cursor, what it diffs with, see PolledIsWhole
          lines, joins, troubles

node == <<life, count, ring>>
link == <<sub, wire>>
panel == <<task, feed, viewers, queue>>
polled == <<cursor, seen, sure>>
bounds == <<lines, joins, troubles>>
vars == <<node, link, panel, shown, polled, bounds>>

Pages == Viewers \cup Readers
None == MaxLines + 1    \* a cursor before the first poll
Newest(s, n) == IF Len(s) > n THEN SubSeq(s, Len(s) - n + 1, Len(s)) ELSE s
Shorter(m, n) == IF m < n THEN m ELSE n

Line == (0..MaxTroubles) \X (1..MaxLines)
Frame == [kind : {"backlog", "lines"}, lines : Seq(Line)]
NoSub == [on |-> FALSE, q |-> <<>>, over |-> FALSE]
NoFeed == [there |-> FALSE, ready |-> FALSE, lines |-> <<>>]
TypeOK ==
  /\ life \in 0..MaxTroubles /\ count \in 0..MaxLines /\ ring \in Seq(Line)
  /\ sub \in [on : BOOLEAN, q : Seq(Line), over : BOOLEAN] /\ Len(sub.q) <= AgentQueue
  /\ wire \in Seq(Frame)
  /\ task \in {"none", "connecting", "following", "closing"}
  /\ feed \in [there : BOOLEAN, ready : BOOLEAN, lines : Seq(Line)]
  /\ viewers \subseteq Viewers /\ queue \in [Viewers -> Seq(Frame)]
  /\ \A v \in Viewers : Len(queue[v]) <= ViewerQueue
  /\ shown \in [Pages -> Seq(Line)]
  /\ cursor \in [Readers -> 0..None] /\ seen \in [Readers -> Seq(Line)]
  /\ sure \in [Readers -> BOOLEAN]
  /\ lines \in 0..MaxLines /\ joins \in 0..MaxJoins /\ troubles \in 0..MaxTroubles

Init ==
  /\ life = 0 /\ count = 0 /\ ring = <<>>
  /\ sub = NoSub /\ wire = <<>> /\ task = "none" /\ feed = NoFeed
  /\ viewers = {} /\ queue = [v \in Viewers |-> <<>>]
  /\ shown = [p \in Pages |-> <<>>]
  /\ cursor = [r \in Readers |-> None] /\ seen = [r \in Readers |-> <<>>]
  /\ sure = [r \in Readers |-> TRUE]
  /\ lines = 0 /\ joins = 0 /\ troubles = 0

Trouble == troubles < MaxTroubles /\ troubles' = troubles + 1

(***************************************************************************)
(* The node.                                                               *)
(***************************************************************************)
Backlog(ls) == [kind |-> "backlog", lines |-> ls]
Lines(ls) == [kind |-> "lines", lines |-> ls]

FeedsLine ==        \* Console.feed: a subscriber whose queue is full loses the line
  /\ lines < MaxLines /\ lines' = lines + 1
  /\ count' = count + 1
  /\ ring' = Newest(Append(ring, <<life, count + 1>>), Ring)
  /\ sub' = IF ~sub.on THEN sub
            ELSE IF Len(sub.q) < AgentQueue THEN [sub EXCEPT !.q = Append(@, <<life, count + 1>>)]
            ELSE [sub EXCEPT !.over = TRUE]
  /\ UNCHANGED <<life, wire, panel, shown, polled, joins, troubles>>

Batches == IF sub.over THEN Backlog(ring) ELSE Lines(SubSeq(sub.q, 1, Shorter(Batch, Len(sub.q))))
AgentSends ==       \* outbound: a batch, or the ring afresh for one that fell behind
  /\ sub.on /\ sub.q # <<>> /\ Len(wire) < 2
  /\ wire' = Append(wire, Batches)
  /\ sub' = IF sub.over THEN [sub EXCEPT !.over = FALSE, !.q = <<>>]
            ELSE [sub EXCEPT !.q = SubSeq(@, Shorter(Batch, Len(@)) + 1, Len(@))]
  /\ UNCHANGED <<node, panel, shown, polled, bounds>>

AgentRestarts ==
  /\ Trouble
  /\ life' = life + 1 /\ count' = 0 /\ ring' = <<>>
  /\ sub' = NoSub /\ wire' = <<>>
  /\ task' = IF task = "following" THEN "connecting" ELSE task
  /\ sure' = [r \in Readers |-> FALSE]
  /\ UNCHANGED <<feed, viewers, queue, shown, cursor, seen, lines, joins>>

(***************************************************************************)
(* The panel's Feed.                                                       *)
(***************************************************************************)
\* Feed._give: a viewer whose queue is full is given the backlog in its place.
Given(q, frame) ==
  IF Len(q) < ViewerQueue THEN Append(q, frame) ELSE <<Backlog(feed'.lines)>>
Sends(frame) == queue' = [v \in Viewers |-> IF v \in viewers THEN Given(queue[v], frame)
                                            ELSE queue[v]]

Connects ==         \* the agent subscribes the socket and sends the backlog first
  /\ task = "connecting" /\ task' = "following"
  /\ sub' = [NoSub EXCEPT !.on = TRUE] /\ wire' = <<Backlog(ring)>>
  /\ UNCHANGED <<node, feed, viewers, queue, shown, polled, bounds>>
SocketLost ==       \* it connects again while anybody watches
  /\ task = "following" /\ Trouble
  /\ task' = "connecting" /\ sub' = NoSub /\ wire' = <<>>
  /\ UNCHANGED <<node, feed, viewers, queue, shown, polled, lines, joins>>

Takes ==            \* Feed._take
  /\ task = "following" /\ wire # <<>>
  /\ wire' = Tail(wire)
  /\ LET f == Head(wire)
     IN /\ feed' = [feed EXCEPT !.ready = @ \/ f.kind = "backlog",
                                !.lines = IF f.kind = "backlog" THEN f.lines
                                          ELSE Newest(@ \o f.lines, Ring)]
        /\ Sends(f)
  /\ UNCHANGED <<node, sub, task, viewers, shown, polled, bounds>>

\* The last viewer has been gone for GRACE seconds. A follower that is between two
\* connections ends at once; one that is connected closes its socket first.
NotWanted ==
  /\ viewers = {}
  /\ \/ /\ task = "following" /\ task' = "closing" /\ feed' = feed
        /\ sub' = NoSub /\ wire' = <<>>
     \/ /\ task = "connecting" /\ task' = "none" /\ feed' = NoFeed
        /\ UNCHANGED link
  /\ UNCHANGED <<node, viewers, queue, shown, polled, bounds>>
ClosedForgetting ==
  /\ task = "closing" /\ task' = "none" /\ feed' = NoFeed
  /\ UNCHANGED <<node, link, viewers, queue, shown, polled, bounds>>
Closed ==           \* Hub._follow: somebody may have joined while it was closing
  /\ task = "closing"
  /\ IF viewers # {} THEN task' = "connecting" /\ feed' = feed ELSE task' = "none" /\ feed' = NoFeed
  /\ UNCHANGED <<node, link, viewers, queue, shown, polled, bounds>>

Joins(v) ==         \* Hub.join
  /\ v \notin viewers /\ joins < MaxJoins /\ joins' = joins + 1
  /\ viewers' = viewers \cup {v}
  /\ feed' = [feed EXCEPT !.there = TRUE]
  /\ queue' = [queue EXCEPT ![v] = IF feed.ready THEN <<Backlog(feed.lines)>> ELSE <<>>]
  /\ task' = IF task = "none" THEN "connecting" ELSE task
  /\ UNCHANGED <<node, link, shown, polled, lines, troubles>>
Leaves(v) ==        \* Hub.leave, or the viewer's own socket is lost
  /\ v \in viewers /\ viewers' = viewers \ {v}
  /\ queue' = [queue EXCEPT ![v] = <<>>]
  /\ UNCHANGED <<node, link, task, feed, shown, polled, bounds>>
Shows(v) ==         \* socket.onmessage
  /\ v \in viewers /\ queue[v] # <<>>
  /\ LET f == Head(queue[v])
     IN shown' = [shown EXCEPT ![v] = IF f.kind = "backlog" THEN f.lines ELSE @ \o f.lines]
  /\ queue' = [queue EXCEPT ![v] = Tail(@)]
  /\ UNCHANGED <<node, link, task, feed, viewers, polled, bounds>>

(***************************************************************************)
(* The polled stream.                                                      *)
(***************************************************************************)
\* Console.since: the lines after a number, and whether to start over.
Since(after) ==
  IF after > count \/ count - after > Len(ring) THEN [fresh |-> ring, reset |-> TRUE]
  ELSE [fresh |-> Newest(ring, count - after), reset |-> FALSE]
Polls(r) ==
  /\ LET got == IF cursor[r] = None THEN [fresh |-> ring, reset |-> TRUE] ELSE Since(cursor[r])
     IN /\ got.fresh # <<>> \/ cursor[r] # None
        /\ shown' = [shown EXCEPT ![r] = IF got.reset THEN got.fresh ELSE @ \o got.fresh]
        /\ sure' = [sure EXCEPT ![r] = @ \/ got.reset]
  /\ cursor' = [cursor EXCEPT ![r] = count]
  /\ UNCHANGED <<node, link, panel, seen, bounds>>
\* The numbered call fails and the snapshot does not: the lines are diffed.
PollFallsBack(r) ==
  /\ Trouble
  /\ LET old == seen[r]
         grown == Len(old) <= Len(ring) /\ SubSeq(ring, 1, Len(old)) = old
     IN shown' = [shown EXCEPT ![r] = IF grown THEN @ \o SubSeq(ring, Len(old) + 1, Len(ring))
                                      ELSE ring]
  /\ seen' = [seen EXCEPT ![r] = ring]
  /\ sure' = [sure EXCEPT ![r] = FALSE]
  /\ UNCHANGED <<node, link, panel, cursor, lines, joins>>

Moves == AgentSends \/ Connects \/ Takes \/ Closed
Next == \/ FeedsLine \/ AgentRestarts \/ SocketLost \/ NotWanted \/ Moves
        \/ \E v \in Viewers : Joins(v) \/ Leaves(v) \/ Shows(v)
        \/ \E r \in Readers : Polls(r) \/ PollFallsBack(r)
Spec == Init /\ [][Next]_vars

(***************************************************************************)
(* Properties.                                                             *)
(***************************************************************************)
Whole(s) == \A i \in 1..(Len(s) - 1) : s[i + 1] = <<s[i][1], s[i][2] + 1>>
\* What a page shows is one unbroken piece of the console of one life of the agent:
\* no line missing, doubled or out of order - however slow the panel or the page is,
\* whatever is lost and whoever comes and goes (Console.feed, outbound, Feed._give).
NoHole == \A v \in Viewers : Whole(shown[v])
\* So for a page that polls, once it started over after a restart of the agent or a
\* poll that had to be diffed: those two the code does not see (console_stream, since).
PolledIsWhole == \A r \in Readers : sure[r] => Whole(shown[r])
\* The two together: what a page shows of a console, it can be read by.
PagesAreTrue == NoHole /\ PolledIsWhole
\* Whoever keeps watching comes to see the newest line: also one that joined while
\* the connection before was being closed (Hub._follow).
Seen(v) == count > 0 => shown[v] # <<>> /\ shown[v][Len(shown[v])] = <<life, count>>
CatchesUp == \A v \in Viewers : v \in viewers ~> (v \notin viewers \/ Seen(v))

-----------------------------------------------------------------------------
(***************************************************************************)
(* Proofs, for any number of pages and lengths of the queues: a line that  *)
(* is shown after another came right after it at every stage in between.   *)
(***************************************************************************)
\* The constants of a real node and panel.
Sizes ==
  /\ {Ring, ViewerQueue, Batch} \subseteq Nat \ {0}
  /\ {AgentQueue, MaxLines, MaxJoins, MaxTroubles} \subseteq Nat
  /\ Viewers \cap Readers = {}

\* What b begins with comes right after what a ends with.
Precedes(a, b) ==
  a # <<>> /\ b # <<>> => b[1] = <<a[Len(a)][1], a[Len(a)][2] + 1>>
\* b ends as a does, if a has an end.
EndsAs(a, b) == a # <<>> => b # <<>> /\ b[Len(b)] = a[Len(a)]

\* What is kept of lines when only n are.
LEMMA NewestIs ==
  ASSUME NEW s \in Seq(Line), NEW n \in Nat
  PROVE  /\ Newest(s, n) \in Seq(Line)
         /\ Len(Newest(s, n)) = IF Len(s) > n THEN n ELSE Len(s)
         /\ \A i \in 1 .. Len(Newest(s, n)) :
              Newest(s, n)[i] = s[Len(s) - Len(Newest(s, n)) + i]
<1>1. Len(s) \in Nat /\ \A i \in 1 .. Len(s) : s[i] \in Line
  BY LenProperties, ElementOfSeq
<1>2. CASE Len(s) > n
  <2>1. Newest(s, n) = SubSeq(s, Len(s) - n + 1, Len(s))
    BY <1>2 DEF Newest
  <2>2. \A i \in Len(s) - n + 1 .. Len(s) : s[i] \in Line
    BY <1>1, <1>2
  <2>3. /\ SubSeq(s, Len(s) - n + 1, Len(s)) \in Seq(Line)
        /\ Len(SubSeq(s, Len(s) - n + 1, Len(s)))
             = IF Len(s) - n + 1 <= Len(s) THEN Len(s) - (Len(s) - n + 1) + 1 ELSE 0
        /\ \A i \in 1 .. Len(s) - (Len(s) - n + 1) + 1 :
             SubSeq(s, Len(s) - n + 1, Len(s))[i] = s[Len(s) - n + 1 + i - 1]
    BY <1>1, <1>2, <2>2, SubSeqProperties
  <2>4. Len(SubSeq(s, Len(s) - n + 1, Len(s))) = n
    BY <1>1, <2>3
  <2> QED
    BY <1>1, <1>2, <2>1, <2>3, <2>4
<1>3. CASE ~(Len(s) > n)
  BY <1>1, <1>3 DEF Newest
<1> QED
  BY <1>2, <1>3

\* The first k lines, and the others.
LEMMA PartOf ==
  ASSUME NEW s \in Seq(Line), NEW k \in 0 .. Len(s)
  PROVE  /\ SubSeq(s, 1, k) \in Seq(Line) /\ Len(SubSeq(s, 1, k)) = k
         /\ \A i \in 1 .. k : SubSeq(s, 1, k)[i] = s[i]
         /\ SubSeq(s, k + 1, Len(s)) \in Seq(Line)
         /\ Len(SubSeq(s, k + 1, Len(s))) = Len(s) - k
         /\ \A i \in 1 .. Len(s) - k : SubSeq(s, k + 1, Len(s))[i] = s[k + i]
<1>1. Len(s) \in Nat /\ \A i \in 1 .. Len(s) : s[i] \in Line
  BY LenProperties, ElementOfSeq
<1>2. (\A i \in 1 .. k : s[i] \in Line) /\ \A i \in k + 1 .. Len(s) : s[i] \in Line
  BY <1>1
<1>3. /\ SubSeq(s, 1, k) \in Seq(Line)
      /\ Len(SubSeq(s, 1, k)) = IF 1 <= k THEN k - 1 + 1 ELSE 0
      /\ \A i \in 1 .. k - 1 + 1 : SubSeq(s, 1, k)[i] = s[1 + i - 1]
  BY <1>1, <1>2, SubSeqProperties
<1>4. /\ SubSeq(s, k + 1, Len(s)) \in Seq(Line)
      /\ Len(SubSeq(s, k + 1, Len(s))) = IF k + 1 <= Len(s) THEN Len(s) - (k + 1) + 1 ELSE 0
      /\ \A i \in 1 .. Len(s) - (k + 1) + 1 : SubSeq(s, k + 1, Len(s))[i] = s[k + 1 + i - 1]
  BY <1>1, <1>2, SubSeqProperties
<1>5. Len(SubSeq(s, 1, k)) = k /\ Len(SubSeq(s, k + 1, Len(s))) = Len(s) - k
  BY <1>1, <1>3, <1>4
<1>6. \A i \in 1 .. k : SubSeq(s, 1, k)[i] = s[i]
  BY <1>1, <1>3
<1>7. \A i \in 1 .. Len(s) - k : SubSeq(s, k + 1, Len(s))[i] = s[k + i]
  BY <1>1, <1>4
<1> QED
  BY <1>3, <1>4, <1>5, <1>6, <1>7

\* The newest lines of an unbroken piece are one, with the same end.
LEMMA NewestIsWhole ==
  ASSUME NEW s \in Seq(Line), Whole(s), NEW n \in Nat \ {0}
  PROVE  Whole(Newest(s, n)) /\ EndsAs(s, Newest(s, n)) /\ EndsAs(Newest(s, n), s)
<1>1. Len(s) \in Nat /\ (s # <<>> => Len(s) # 0) /\ (s = <<>> => Len(s) = 0)
  BY LenProperties, EmptySeq
<1> DEFINE t == Newest(s, n)
<1>2. /\ t \in Seq(Line) /\ Len(t) = IF Len(s) > n THEN n ELSE Len(s)
      /\ \A i \in 1 .. Len(t) : t[i] = s[Len(s) - Len(t) + i]
  BY NewestIs
<1>3. t = <<>> <=> Len(t) = 0
  BY <1>2, EmptySeq
<1> HIDE DEF t
<1>4. Whole(t)
  <2> SUFFICES ASSUME NEW i \in 1 .. Len(t) - 1
               PROVE  t[i + 1] = <<t[i][1], t[i][2] + 1>>
    BY DEF Whole
  <2> DEFINE j == Len(s) - Len(t) + i
  <2>1. i \in 1 .. Len(t) /\ i + 1 \in 1 .. Len(t) /\ j \in 1 .. Len(s) - 1
    BY <1>1, <1>2
  <2>2. t[i] = s[j] /\ t[i + 1] = s[j + 1]
    <3>1. Len(s) - Len(t) + (i + 1) = j + 1
      BY <1>1, <1>2
    <3>2. t[i] = s[Len(s) - Len(t) + i] /\ t[i + 1] = s[Len(s) - Len(t) + (i + 1)]
      BY <1>2, <2>1
    <3> QED
      BY <3>1, <3>2
  <2> QED
    BY <2>1, <2>2 DEF Whole
<1>5. EndsAs(s, t) /\ EndsAs(t, s)
  <2>1. CASE s = <<>>
    BY <1>1, <1>2, <1>3, <2>1 DEF EndsAs
  <2>2. CASE s # <<>>
    <3>1. Len(t) \in 1 .. Len(t) /\ Len(s) - Len(t) + Len(t) = Len(s) /\ t # <<>>
      BY <1>1, <1>2, <1>3, <2>2
    <3>2. t[Len(t)] = s[Len(s) - Len(t) + Len(t)]
      BY <1>2, <3>1
    <3> QED
      BY <2>2, <3>1, <3>2 DEF EndsAs
  <2> QED
    BY <2>1, <2>2
<1> QED
  BY <1>4, <1>5 DEF t

\* Two unbroken pieces, one right after the other, are one.
LEMMA JoinedIsWhole ==
  ASSUME NEW a \in Seq(Line), NEW b \in Seq(Line), Whole(a), Whole(b), Precedes(a, b)
  PROVE  /\ a \o b \in Seq(Line) /\ Whole(a \o b)
         /\ b # <<>> => EndsAs(b, a \o b) /\ EndsAs(a \o b, b)
         /\ b = <<>> => a \o b = a
<1> DEFINE c == a \o b
<1>1. /\ Len(a) \in Nat /\ Len(b) \in Nat
      /\ (a = <<>> <=> Len(a) = 0) /\ (b = <<>> <=> Len(b) = 0)
  BY LenProperties, EmptySeq
<1>2. /\ c \in Seq(Line) /\ Len(c) = Len(a) + Len(b)
      /\ \A i \in 1 .. Len(a) + Len(b) : c[i] = IF i <= Len(a) THEN a[i] ELSE b[i - Len(a)]
  BY ConcatProperties
<1>3. c = <<>> <=> Len(c) = 0
  BY <1>2, EmptySeq
<1>4. b = <<>> => c = a
  BY ConcatEmptySeq
<1> HIDE DEF c
<1>5. Whole(c)
  <2> SUFFICES ASSUME NEW i \in 1 .. Len(c) - 1
               PROVE  c[i + 1] = <<c[i][1], c[i][2] + 1>>
    BY DEF Whole
  <2>1. i \in 1 .. Len(a) + Len(b) /\ i + 1 \in 1 .. Len(a) + Len(b)
    BY <1>1, <1>2
  <2>2. CASE i < Len(a)
    <3>1. c[i] = a[i] /\ c[i + 1] = a[i + 1] /\ i \in 1 .. Len(a) - 1
      BY <1>1, <1>2, <2>1, <2>2
    <3> QED
      BY <3>1 DEF Whole
  <2>3. CASE i = Len(a)
    <3>1. c[i] = a[Len(a)] /\ c[i + 1] = b[1] /\ a # <<>> /\ b # <<>>
      <4>1. c[i + 1] = b[i + 1 - Len(a)] /\ i + 1 - Len(a) = 1
        BY <1>1, <1>2, <2>1, <2>3
      <4> QED
        BY <1>1, <1>2, <2>1, <2>3, <4>1
    <3> QED
      BY <3>1 DEF Precedes
  <2>4. CASE i > Len(a)
    <3> DEFINE j == i - Len(a)
    <3>1. c[i] = b[j] /\ c[i + 1] = b[j + 1] /\ j \in 1 .. Len(b) - 1
      <4>1. c[i + 1] = b[i + 1 - Len(a)] /\ i + 1 - Len(a) = j + 1
        BY <1>1, <1>2, <2>1, <2>4
      <4> QED
        BY <1>1, <1>2, <2>1, <2>4, <4>1
    <3> QED
      BY <3>1 DEF Whole
  <2> QED
    BY <1>1, <2>1, <2>2, <2>3, <2>4
<1>6. b # <<>> => EndsAs(b, c) /\ EndsAs(c, b)
  <2> SUFFICES ASSUME b # <<>> PROVE c # <<>> /\ c[Len(c)] = b[Len(b)]
    BY DEF EndsAs
  <2>1. Len(c) \in 1 .. Len(a) + Len(b) /\ Len(c) > Len(a) /\ Len(c) - Len(a) = Len(b)
    BY <1>1, <1>2
  <2> QED
    BY <1>1, <1>2, <1>3, <2>1
<1> QED
  BY <1>2, <1>4, <1>5, <1>6 DEF c

-----------------------------------------------------------------------------
(* Frames that wait, after what has been taken of them.                    *)

\* What comes before the ith frame, when first is what the frames are taken into.
Before(first, frames, i) == IF i = 1 THEN first ELSE frames[i - 1].lines
\* Every frame that is not a backlog follows what comes before it.
Chain(first, frames) ==
  \A i \in 1 .. Len(frames) :
    /\ Whole(frames[i].lines)
    /\ frames[i].kind = "lines" =>
         frames[i].lines # <<>> /\ Precedes(Before(first, frames, i), frames[i].lines)
LastOf(first, frames) == IF frames = <<>> THEN first ELSE frames[Len(frames)].lines

LEMMA ChainOfOne ==
  ASSUME NEW first, NEW ls, Whole(ls)
  PROVE  Chain(first, <<Backlog(ls)>>) /\ LastOf(first, <<Backlog(ls)>>) = ls
BY DEF Chain, LastOf, Backlog

\* A frame that is put behind the others.
LEMMA ChainGrows ==
  ASSUME NEW first, NEW frames \in Seq(Frame), Chain(first, frames), NEW f \in Frame,
         Whole(f.lines),
         f.kind = "lines" => f.lines # <<>> /\ Precedes(LastOf(first, frames), f.lines)
  PROVE  Chain(first, Append(frames, f)) /\ LastOf(first, Append(frames, f)) = f.lines
<1> DEFINE more == Append(frames, f)
<1>1. Len(frames) \in Nat /\ (frames = <<>> <=> Len(frames) = 0)
  BY LenProperties, EmptySeq
<1>2. /\ Len(more) = Len(frames) + 1 /\ more # <<>>
      /\ \A i \in 1 .. Len(frames) : more[i] = frames[i]
      /\ more[Len(frames) + 1] = f
  BY AppendProperties
<1> HIDE DEF more
<1>3. ASSUME NEW i \in 1 .. Len(more)
      PROVE  /\ Whole(more[i].lines)
             /\ more[i].kind = "lines" =>
                  more[i].lines # <<>> /\ Precedes(Before(first, more, i), more[i].lines)
  <2>1. CASE i \in 1 .. Len(frames)
    <3>1. i # 1 => i - 1 \in 1 .. Len(frames)
      BY <1>1, <2>1
    <3>2. Before(first, more, i) = Before(first, frames, i)
      BY <1>2, <3>1 DEF Before
    <3> QED
      BY <1>2, <2>1, <3>2 DEF Chain
  <2>2. CASE i = Len(frames) + 1
    <3>1. Before(first, more, i) = LastOf(first, frames)
      <4>1. CASE Len(frames) = 0
        BY <1>1, <2>2, <4>1 DEF Before, LastOf
      <4>2. CASE Len(frames) # 0
        <5>1. i # 1 /\ i - 1 = Len(frames) /\ i - 1 \in 1 .. Len(frames)
          BY <1>1, <2>2, <4>2
        <5> QED
          BY <1>1, <1>2, <4>2, <5>1 DEF Before, LastOf
      <4> QED
        BY <4>1, <4>2
    <3> QED
      BY <1>2, <2>2, <3>1
  <2> QED
    BY <1>1, <1>2, <2>1, <2>2
<1> QED
  BY <1>2, <1>3 DEF Chain, LastOf, more

\* The first frame is taken, into something that ends as the frame does.
LEMMA ChainIsTaken ==
  ASSUME NEW first, NEW frames \in Seq(Frame), frames # <<>>, Chain(first, frames),
         NEW second, EndsAs(second, frames[1].lines)
  PROVE  /\ Chain(second, Tail(frames))
         /\ EndsAs(LastOf(second, Tail(frames)), LastOf(first, frames))
<1> DEFINE rest == Tail(frames)
<1>1. Len(frames) \in Nat \ {0}
  BY EmptySeq
<1>2. /\ rest \in Seq(Frame) /\ Len(rest) = Len(frames) - 1
      /\ \A i \in 1 .. Len(rest) : rest[i] = frames[i + 1]
  BY HeadTailProperties
<1>3. rest = <<>> <=> Len(rest) = 0
  BY <1>2, EmptySeq
<1> HIDE DEF rest
<1>4. Chain(second, rest)
  <2> SUFFICES ASSUME NEW i \in 1 .. Len(rest)
               PROVE  /\ Whole(rest[i].lines)
                      /\ rest[i].kind = "lines" =>
                           /\ rest[i].lines # <<>>
                           /\ Precedes(Before(second, rest, i), rest[i].lines)
    BY DEF Chain
  <2>1. i + 1 \in 1 .. Len(frames) /\ i + 1 # 1 /\ (i + 1) - 1 = i
    BY <1>1, <1>2
  <2>2. /\ Whole(rest[i].lines)
        /\ rest[i].kind = "lines" =>
             rest[i].lines # <<>> /\ Precedes(frames[i].lines, rest[i].lines)
    BY <1>2, <2>1 DEF Chain, Before
  <2>3. CASE i = 1
    BY <2>2, <2>3 DEF Before, Precedes, EndsAs
  <2>4. CASE i # 1
    <3>1. i - 1 \in 1 .. Len(rest) /\ (i - 1) + 1 = i
      BY <1>1, <1>2, <2>4
    <3>2. Before(second, rest, i) = frames[i].lines
      BY <1>2, <2>4, <3>1 DEF Before
    <3> QED
      BY <2>2, <3>2
  <2> QED
    BY <2>3, <2>4
<1>5. rest # <<>> => LastOf(second, rest) = LastOf(first, frames)
  <2> SUFFICES ASSUME rest # <<>> PROVE rest[Len(rest)] = frames[Len(frames)]
    BY DEF LastOf
  <2>1. Len(rest) \in 1 .. Len(rest) /\ Len(rest) + 1 = Len(frames)
    BY <1>1, <1>2, <1>3
  <2> QED
    BY <1>2, <2>1
<1>6. rest = <<>> => LastOf(first, frames) = frames[1].lines /\ LastOf(second, rest) = second
  <2>1. rest = <<>> => Len(frames) = 1
    BY <1>1, <1>2, <1>3
  <2> QED
    BY <2>1 DEF LastOf
<1> QED
  BY <1>4, <1>5, <1>6 DEF rest, EndsAs

-----------------------------------------------------------------------------
(* Types.                                                                  *)

Typed == TypeOK /\ life <= troubles /\ count <= lines

LEMMA BacklogIsFrame ==
  ASSUME NEW ls \in Seq(Line)
  PROVE  /\ Backlog(ls) \in Frame /\ Backlog(ls).kind = "backlog" /\ Backlog(ls).lines = ls
         /\ Lines(ls) \in Frame /\ Lines(ls).kind = "lines" /\ Lines(ls).lines = ls
BY DEF Backlog, Lines, Frame

LEMMA FrameIs ==
  ASSUME NEW f \in Frame
  PROVE  f.lines \in Seq(Line) /\ f.kind \in {"backlog", "lines"}
BY DEF Frame

LEMMA FirstFrame ==
  ASSUME NEW s \in Seq(Frame), s # <<>>
  PROVE  /\ Head(s) = s[1] /\ s[1] \in Frame /\ 1 \in 1 .. Len(s)
         /\ Tail(s) \in Seq(Frame) /\ Len(Tail(s)) = Len(s) - 1
<1>1. Len(s) \in Nat \ {0}
  BY EmptySeq
<1>2. Head(s) = s[1]
  BY <1>1
<1> QED
  BY <1>1, <1>2, ElementOfSeq, HeadTailProperties

LEMMA OneFrame ==
  ASSUME NEW f \in Frame
  PROVE  <<f>> \in Seq(Frame) /\ Len(<<f>>) = 1 /\ <<f>> # <<>> /\ <<f>>[1] = f
OBVIOUS

\* What is sent to the panel, and what still waits.
LEMMA SendsIs ==
  ASSUME Sizes, Typed, AgentSends
  PROVE  /\ Batches \in Frame /\ wire' = Append(wire, Batches) /\ wire' \in Seq(Frame)
         /\ sub' \in [on : {TRUE}, q : Seq(Line), over : {FALSE}] /\ Len(sub'.q) <= AgentQueue
         /\ sub.over => Batches = Backlog(ring) /\ sub'.q = <<>>
         /\ ~sub.over => \E k \in 1 .. Len(sub.q) :
              /\ Batches = Lines(SubSeq(sub.q, 1, k))
              /\ sub'.q = SubSeq(sub.q, k + 1, Len(sub.q))
<1> USE DEF Sizes, Typed, TypeOK
<1>1. Len(sub.q) \in Nat \ {0}
  BY EmptySeq DEF AgentSends
<1> DEFINE k == Shorter(Batch, Len(sub.q))
<1>2. k \in 1 .. Len(sub.q)
  BY <1>1 DEF Shorter
<1> HIDE DEF k
<1>9. k \in 0 .. Len(sub.q) /\ sub.q \in Seq(Line) /\ Len(sub.q) <= AgentQueue
  BY <1>1, <1>2
<1>3. /\ SubSeq(sub.q, 1, k) \in Seq(Line)
      /\ SubSeq(sub.q, k + 1, Len(sub.q)) \in Seq(Line)
      /\ Len(SubSeq(sub.q, k + 1, Len(sub.q))) <= AgentQueue
  BY SMTT(30), <1>1, <1>2, <1>9, PartOf
<1>4. CASE sub.over
  <2>1. Batches = Backlog(ring) /\ sub' = [sub EXCEPT !.over = FALSE, !.q = <<>>]
    BY <1>4 DEF AgentSends, Batches
  <2>2. <<>> \in Seq(Line) /\ Len(<<>>) = 0
    BY EmptySeq
  <2>3. Batches \in Frame
    BY <2>1, BacklogIsFrame
  <2>4. /\ sub' \in [on : {TRUE}, q : Seq(Line), over : {FALSE}]
        /\ sub'.q = <<>> /\ Len(sub'.q) <= AgentQueue
    <3>1. AgentQueue >= 0 /\ sub.on
      BY DEF AgentSends
    <3>2. sub' \in [on : {TRUE}, q : {<<>>}, over : {FALSE}]
      BY <2>1, <3>1
    <3> QED
      BY <2>2, <3>1, <3>2
  <2>5. wire' = Append(wire, Batches) /\ wire' \in Seq(Frame)
    BY <2>3, AppendProperties DEF AgentSends
  <2> QED
    BY <1>4, <2>1, <2>3, <2>4, <2>5
<1>5. CASE ~sub.over
  <2>1. /\ Batches = Lines(SubSeq(sub.q, 1, k))
        /\ sub' = [sub EXCEPT !.q = SubSeq(@, k + 1, Len(@))]
    BY <1>5 DEF AgentSends, Batches, k
  <2>2. Batches \in Frame
    BY <1>3, <2>1, BacklogIsFrame
  <2>3. /\ sub' \in [on : {TRUE}, q : Seq(Line), over : {FALSE}]
        /\ sub'.q = SubSeq(sub.q, k + 1, Len(sub.q))
    BY <1>3, <1>5, <2>1 DEF AgentSends
  <2>4. wire' = Append(wire, Batches) /\ wire' \in Seq(Frame)
    BY <2>2, AppendProperties DEF AgentSends
  <2> QED
    BY <1>2, <1>3, <1>5, <2>1, <2>2, <2>3, <2>4
<1> QED
  BY <1>4, <1>5

\* The next line, and the ring and the subscription with it.
LEMMA FeedIs ==
  ASSUME Sizes, Typed, FeedsLine
  PROVE  LET line == <<life, count + 1>>
         IN  /\ line \in Line
             /\ Append(ring, line) \in Seq(Line) /\ ring' = Newest(Append(ring, line), Ring)
             /\ ring' \in Seq(Line)
             /\ sub' \in [on : {sub.on}, q : Seq(Line), over : BOOLEAN] /\ Len(sub'.q) <= AgentQueue
             /\ \/ ~sub.on /\ sub' = sub
                \/ sub.on /\ sub'.q = Append(sub.q, line) /\ sub'.over = sub.over
                \/ sub.on /\ sub'.over
<1> DEFINE line == <<life, count + 1>>
<1> USE DEF Sizes, Typed, TypeOK
<1>1. line \in Line
  BY SMTT(30) DEF FeedsLine, Line
<1>2. Append(ring, line) \in Seq(Line) /\ ring' = Newest(Append(ring, line), Ring)
  BY <1>1, AppendProperties DEF FeedsLine
<1>3. ring' \in Seq(Line)
  BY <1>2, NewestIs
<1>4. Append(sub.q, line) \in Seq(Line) /\ Len(Append(sub.q, line)) = Len(sub.q) + 1
  BY <1>1, AppendProperties
<1>5. Len(sub.q) \in Nat
  BY LenProperties
<1>6. CASE ~sub.on
  <2>1. sub' = sub
    BY <1>6 DEF FeedsLine
  <2> QED
    BY <1>1, <1>2, <1>3, <1>6, <2>1
<1>7. CASE sub.on /\ Len(sub.q) < AgentQueue
  <2>1. sub' = [sub EXCEPT !.q = Append(@, line)]
    BY <1>7 DEF FeedsLine
  <2>2. sub' \in [on : {sub.on}, q : Seq(Line), over : BOOLEAN]
        /\ sub'.q = Append(sub.q, line) /\ sub'.over = sub.over
    BY <1>4, <2>1
  <2>3. Len(sub'.q) <= AgentQueue
    BY SMTT(30), <1>4, <1>5, <1>7, <2>2
  <2> QED
    BY <1>1, <1>2, <1>3, <1>7, <2>2, <2>3
<1>8. CASE sub.on /\ ~(Len(sub.q) < AgentQueue)
  <2>1. sub' = [sub EXCEPT !.over = TRUE]
    BY <1>8 DEF FeedsLine
  <2> QED
    BY <1>1, <1>2, <1>3, <1>8, <2>1
<1> QED
  BY <1>6, <1>7, <1>8

\* The feed after a frame.
LEMMA TakeIs ==
  ASSUME Sizes, Typed, Takes
  PROVE  /\ wire # <<>> /\ wire[1] \in Frame /\ Head(wire) = wire[1]
         /\ wire' = Tail(wire) /\ wire' \in Seq(Frame)
         /\ feed' \in [there : BOOLEAN, ready : BOOLEAN, lines : Seq(Line)]
         /\ feed'.ready = (feed.ready \/ wire[1].kind = "backlog")
         /\ wire[1].kind = "backlog" => feed'.lines = wire[1].lines
         /\ wire[1].kind # "backlog" => feed'.lines = Newest(feed.lines \o wire[1].lines, Ring)
         /\ queue' = [v \in Viewers |-> IF v \in viewers THEN Given(queue[v], wire[1])
                                        ELSE queue[v]]
<1> USE DEF Sizes, Typed, TypeOK
<1>1. /\ wire # <<>> /\ wire[1] \in Frame /\ Head(wire) = wire[1]
      /\ wire' = Tail(wire) /\ wire' \in Seq(Frame)
  BY FirstFrame DEF Takes
<1> DEFINE f == wire[1]
           ls == IF f.kind = "backlog" THEN f.lines ELSE Newest(feed.lines \o f.lines, Ring)
<1>2. f.lines \in Seq(Line) /\ feed.lines \in Seq(Line)
  BY <1>1, FrameIs
<1>3. feed.lines \o f.lines \in Seq(Line)
  BY <1>2, ConcatProperties
<1>4. ls \in Seq(Line)
  BY <1>2, <1>3, NewestIs
<1>5. feed' = [feed EXCEPT !.ready = @ \/ f.kind = "backlog", !.lines = ls]
  BY <1>1 DEF Takes
<1>6. queue' = [v \in Viewers |-> IF v \in viewers THEN Given(queue[v], wire[1]) ELSE queue[v]]
  BY <1>1 DEF Takes, Sends
<1> HIDE DEF ls
<1>7. feed' \in [there : BOOLEAN, ready : BOOLEAN, lines : Seq(Line)] /\ feed'.lines = ls
      /\ feed'.ready = (feed.ready \/ f.kind = "backlog")
  BY <1>4, <1>5
<1> QED
  BY <1>1, <1>6, <1>7 DEF ls

LEMMA GivenIs ==
  ASSUME Sizes, NEW q \in Seq(Frame), Len(q) <= ViewerQueue, NEW f \in Frame,
         feed'.lines \in Seq(Line)
  PROVE  Given(q, f) \in Seq(Frame) /\ Len(Given(q, f)) <= ViewerQueue
<1>1. Len(q) \in Nat
  BY LenProperties
<1>2. Backlog(feed'.lines) \in Frame
  BY BacklogIsFrame
<1> QED
  BY <1>1, <1>2, OneFrame, AppendProperties DEF Given, Sizes

LEMMA TypesOfNode ==
  ASSUME Sizes, Typed, FeedsLine \/ AgentSends \/ AgentRestarts
  PROVE  Typed'
<1> USE DEF Sizes
<1>0. <<>> \in Seq(Line) /\ Len(<<>>) = 0 /\ <<>> \in Seq(Frame)
  BY EmptySeq
<1>1. CASE FeedsLine
  <2>1. lines' \in 0 .. MaxLines /\ count' \in 0 .. MaxLines /\ count' <= lines'
    BY SMTT(30), <1>1 DEF Typed, TypeOK, FeedsLine
  <2>2. /\ ring' \in Seq(Line) /\ Len(sub'.q) <= AgentQueue
        /\ sub' \in [on : {sub.on}, q : Seq(Line), over : BOOLEAN]
    BY <1>1, FeedIs
  <2>3. sub' \in [on : BOOLEAN, q : Seq(Line), over : BOOLEAN]
    BY <2>2 DEF Typed, TypeOK
  <2> QED
    BY <1>1, <2>1, <2>2, <2>3 DEF Typed, TypeOK, FeedsLine, panel, polled
<1>2. CASE AgentSends
  <2>1. /\ wire' \in Seq(Frame) /\ Len(sub'.q) <= AgentQueue
        /\ sub' \in [on : {TRUE}, q : Seq(Line), over : {FALSE}]
    BY <1>2, SendsIs
  <2>2. sub' \in [on : BOOLEAN, q : Seq(Line), over : BOOLEAN]
    BY <2>1
  <2> QED
    BY <1>2, <2>1, <2>2 DEF Typed, TypeOK, AgentSends, node, panel, polled, bounds
<1>3. CASE AgentRestarts
  <2>1. sub' \in [on : BOOLEAN, q : Seq(Line), over : BOOLEAN] /\ Len(sub'.q) <= AgentQueue
    BY <1>0, <1>3 DEF AgentRestarts, NoSub
  <2>2. troubles' \in 0 .. MaxTroubles /\ life' \in 0 .. MaxTroubles /\ life' <= troubles'
    BY <1>3 DEF Typed, TypeOK, AgentRestarts, Trouble
  <2> QED
    BY SMTT(30), <1>0, <1>3, <2>1, <2>2 DEF Typed, TypeOK, AgentRestarts
<1> QED
  BY <1>1, <1>2, <1>3

LEMMA TypesOfPanel ==
  ASSUME Sizes, Typed, Connects \/ SocketLost \/ NotWanted \/ Closed \/ Takes
  PROVE  Typed'
<1> USE DEF Sizes
<1>0. <<>> \in Seq(Line) /\ Len(<<>>) = 0 /\ <<>> \in Seq(Frame)
  BY EmptySeq
<1>1. /\ NoSub \in [on : BOOLEAN, q : Seq(Line), over : BOOLEAN] /\ Len(NoSub.q) <= AgentQueue
      /\ NoFeed \in [there : BOOLEAN, ready : BOOLEAN, lines : Seq(Line)]
  BY <1>0 DEF NoSub, NoFeed
<1>2. CASE Connects
  <2>1. sub' \in [on : BOOLEAN, q : Seq(Line), over : BOOLEAN] /\ Len(sub'.q) <= AgentQueue
    <3>1. sub'.q = <<>> /\ sub' \in [on : {TRUE}, q : {<<>>}, over : {FALSE}]
      BY <1>2 DEF Connects, NoSub
    <3>2. AgentQueue >= 0
      OBVIOUS
    <3> QED
      BY <1>0, <3>1, <3>2
  <2>2. wire' \in Seq(Frame)
    BY <1>2, BacklogIsFrame, OneFrame DEF Connects, Typed, TypeOK
  <2> QED
    BY <1>2, <2>1, <2>2 DEF Typed, TypeOK, Connects, node, polled, bounds
<1>3. CASE SocketLost
  BY SMTT(30), <1>0, <1>1, <1>3 DEF Typed, TypeOK, SocketLost, Trouble, node, polled
<1>4. CASE NotWanted
  BY <1>0, <1>1, <1>4 DEF Typed, TypeOK, NotWanted, node, link, polled, bounds
<1>5. CASE Closed
  BY <1>1, <1>5 DEF Typed, TypeOK, Closed, node, link, polled, bounds
<1>6. CASE Takes
  <2>1. /\ wire' \in Seq(Frame) /\ wire[1] \in Frame
        /\ feed' \in [there : BOOLEAN, ready : BOOLEAN, lines : Seq(Line)]
        /\ queue' = [v \in Viewers |-> IF v \in viewers THEN Given(queue[v], wire[1]) ELSE queue[v]]
    BY <1>6, TakeIs
  <2>2. \A v \in Viewers : Given(queue[v], wire[1]) \in Seq(Frame)
                           /\ Len(Given(queue[v], wire[1])) <= ViewerQueue
    BY <2>1, GivenIs DEF Typed, TypeOK
  <2>3. queue' \in [Viewers -> Seq(Frame)] /\ \A v \in Viewers : Len(queue'[v]) <= ViewerQueue
    BY <2>1, <2>2 DEF Typed, TypeOK
  <2> QED
    BY <1>6, <2>1, <2>3 DEF Typed, TypeOK, Takes, node, polled, bounds
<1> QED
  BY <1>2, <1>3, <1>4, <1>5, <1>6

\* What a page that watches shows after the frame that waits longest.
LEMMA ShowIs ==
  ASSUME Sizes, Typed, NEW v \in Viewers, Shows(v)
  PROVE  /\ queue[v] # <<>> /\ queue[v][1] \in Frame
         /\ shown' = [shown EXCEPT ![v] = IF queue[v][1].kind = "backlog" THEN queue[v][1].lines
                                          ELSE @ \o queue[v][1].lines]
         /\ shown'[v] \in Seq(Line)
         /\ queue' = [queue EXCEPT ![v] = Tail(queue[v])]
         /\ Tail(queue[v]) \in Seq(Frame) /\ Len(Tail(queue[v])) <= ViewerQueue
<1> USE DEF Sizes, Typed, TypeOK
<1>1. /\ queue[v] # <<>> /\ queue[v][1] \in Frame /\ Head(queue[v]) = queue[v][1]
      /\ Tail(queue[v]) \in Seq(Frame) /\ Len(Tail(queue[v])) = Len(queue[v]) - 1
  BY FirstFrame DEF Shows
<1>2. Len(queue[v]) \in Nat /\ Len(queue[v]) <= ViewerQueue
  BY LenProperties
<1>3. queue[v][1].lines \in Seq(Line) /\ shown[v] \in Seq(Line) /\ v \in Pages
  BY <1>1, FrameIs DEF Pages
<1>4. shown[v] \o queue[v][1].lines \in Seq(Line)
  BY <1>3, ConcatProperties
<1>5. /\ shown' = [shown EXCEPT ![v] = IF queue[v][1].kind = "backlog" THEN queue[v][1].lines
                                       ELSE @ \o queue[v][1].lines]
      /\ queue' = [queue EXCEPT ![v] = Tail(queue[v])]
  BY <1>1 DEF Shows
<1> QED
  BY SMTT(30), <1>1, <1>2, <1>3, <1>4, <1>5

LEMMA TypesOfViewers ==
  ASSUME Sizes, Typed, NEW v \in Viewers, Joins(v) \/ Leaves(v) \/ Shows(v)
  PROVE  Typed'
<1> USE DEF Sizes
<1>0. <<>> \in Seq(Frame) /\ Len(<<>>) = 0
  BY EmptySeq
<1>1. CASE Joins(v)
  <2>1. <<Backlog(feed.lines)>> \in Seq(Frame) /\ Len(<<Backlog(feed.lines)>>) = 1
    BY BacklogIsFrame, OneFrame DEF Typed, TypeOK
  <2>2. queue' \in [Viewers -> Seq(Frame)] /\ \A w \in Viewers : Len(queue'[w]) <= ViewerQueue
    BY SMTT(30), <1>0, <1>1, <2>1 DEF Typed, TypeOK, Joins
  <2>3. /\ feed' \in [there : BOOLEAN, ready : BOOLEAN, lines : Seq(Line)]
        /\ viewers' \subseteq Viewers
    BY <1>1 DEF Typed, TypeOK, Joins
  <2>4. joins' \in 0 .. MaxJoins /\ task' \in {"none", "connecting", "following", "closing"}
    BY <1>1 DEF Typed, TypeOK, Joins
  <2> QED
    BY <1>1, <2>2, <2>3, <2>4 DEF Typed, TypeOK, Joins, node, link, polled
<1>2. CASE Leaves(v)
  <2>1. queue' \in [Viewers -> Seq(Frame)] /\ \A w \in Viewers : Len(queue'[w]) <= ViewerQueue
    BY <1>0, <1>2 DEF Typed, TypeOK, Leaves
  <2> QED
    BY <1>2, <2>1 DEF Typed, TypeOK, Leaves, node, link, polled, bounds
<1>3. CASE Shows(v)
  <2>1. /\ shown' = [shown EXCEPT ![v] = IF queue[v][1].kind = "backlog" THEN queue[v][1].lines
                                          ELSE @ \o queue[v][1].lines]
        /\ shown'[v] \in Seq(Line)
        /\ queue' = [queue EXCEPT ![v] = Tail(queue[v])]
        /\ Tail(queue[v]) \in Seq(Frame) /\ Len(Tail(queue[v])) <= ViewerQueue
    BY <1>3, ShowIs
  <2>2. shown' \in [Pages -> Seq(Line)]
    BY <2>1 DEF Typed, TypeOK
  <2>3. queue' \in [Viewers -> Seq(Frame)] /\ \A w \in Viewers : Len(queue'[w]) <= ViewerQueue
    BY <2>1 DEF Typed, TypeOK
  <2> QED
    BY <1>3, <2>2, <2>3 DEF Typed, TypeOK, Shows, node, link, polled, bounds
<1> QED
  BY <1>1, <1>2, <1>3

\* A poll, by the number of the last line that was answered.
LEMMA PollIs ==
  ASSUME Sizes, Typed, NEW r \in Readers, Polls(r)
  PROVE  \E fresh \in Seq(Line), reset \in BOOLEAN :
           /\ reset => fresh = ring
           /\ ~reset => /\ cursor[r] # None /\ cursor[r] <= count /\ count - cursor[r] <= Len(ring)
                        /\ fresh = Newest(ring, count - cursor[r])
           /\ shown' = [shown EXCEPT ![r] = IF reset THEN fresh ELSE shown[r] \o fresh]
           /\ shown'[r] \in Seq(Line)
           /\ sure' = [sure EXCEPT ![r] = sure[r] \/ reset]
           /\ cursor' = [cursor EXCEPT ![r] = count]
<1> USE DEF Sizes, Typed, TypeOK
<1>1. Len(ring) \in Nat /\ shown[r] \in Seq(Line) /\ r \in Pages
  BY LenProperties DEF Pages
<1>2. CASE cursor[r] = None
  <2>1. /\ shown' = [shown EXCEPT ![r] = ring] /\ sure' = [sure EXCEPT ![r] = TRUE]
        /\ cursor' = [cursor EXCEPT ![r] = count]
    BY <1>2 DEF Polls
  <2> QED
    BY <1>1, <2>1
<1>3. CASE cursor[r] # None /\ (cursor[r] > count \/ count - cursor[r] > Len(ring))
  <2>1. /\ shown' = [shown EXCEPT ![r] = ring] /\ sure' = [sure EXCEPT ![r] = TRUE]
        /\ cursor' = [cursor EXCEPT ![r] = count]
    BY <1>3 DEF Polls, Since
  <2> QED
    BY <1>1, <2>1
<1>4. CASE cursor[r] # None /\ ~(cursor[r] > count \/ count - cursor[r] > Len(ring))
  <2>0. cursor[r] \in Nat /\ count \in Nat
    BY DEF None
  <2>1. count - cursor[r] \in Nat /\ cursor[r] <= count /\ count - cursor[r] <= Len(ring)
    BY SMTT(30), <1>1, <1>4, <2>0
  <2> DEFINE fresh == Newest(ring, count - cursor[r])
  <2>2. fresh \in Seq(Line)
    BY <2>1, NewestIs
  <2>3. shown[r] \o fresh \in Seq(Line)
    BY <1>1, <2>2, ConcatProperties
  <2>4. /\ shown' = [shown EXCEPT ![r] = @ \o fresh] /\ sure' = [sure EXCEPT ![r] = @ \/ FALSE]
        /\ cursor' = [cursor EXCEPT ![r] = count]
    BY <1>4 DEF Polls, Since
  <2> HIDE DEF fresh
  <2>5. shown'[r] \in Seq(Line)
    BY <1>1, <2>3, <2>4
  <2>6. /\ shown' = [shown EXCEPT ![r] = IF FALSE THEN fresh ELSE shown[r] \o fresh]
        /\ sure' = [sure EXCEPT ![r] = sure[r] \/ FALSE]
    BY <2>4
  <2>7. ~FALSE => /\ cursor[r] # None /\ cursor[r] <= count /\ count - cursor[r] <= Len(ring)
                  /\ fresh = Newest(ring, count - cursor[r])
    BY <1>4, <2>1 DEF fresh
  <2> WITNESS fresh \in Seq(Line), FALSE \in BOOLEAN
  <2> QED
    BY <2>4, <2>5, <2>6, <2>7
<1> QED
  BY <1>2, <1>3, <1>4

LEMMA TypesOfReaders ==
  ASSUME Sizes, Typed, NEW r \in Readers, Polls(r) \/ PollFallsBack(r)
  PROVE  Typed'
<1> USE DEF Sizes
<1>1. CASE Polls(r)
  <2>1. /\ shown'[r] \in Seq(Line) /\ cursor' = [cursor EXCEPT ![r] = count]
        /\ \E x \in Seq(Line) : shown' = [shown EXCEPT ![r] = x]
        /\ \E b \in BOOLEAN : sure' = [sure EXCEPT ![r] = b]
    <3>1. PICK fresh \in Seq(Line), reset \in BOOLEAN :
           /\ shown' = [shown EXCEPT ![r] = IF reset THEN fresh ELSE shown[r] \o fresh]
           /\ shown'[r] \in Seq(Line)
           /\ sure' = [sure EXCEPT ![r] = sure[r] \/ reset]
           /\ cursor' = [cursor EXCEPT ![r] = count]
      BY <1>1, PollIs
    <3>2. (IF reset THEN fresh ELSE shown[r] \o fresh) \in Seq(Line)
      BY <3>1, ConcatProperties DEF Typed, TypeOK, Pages
    <3>3. (sure[r] \/ reset) \in BOOLEAN
      OBVIOUS
    <3> QED
      BY <3>1, <3>2, <3>3
  <2>2. shown' \in [Pages -> Seq(Line)] /\ sure' \in [Readers -> BOOLEAN]
    BY <2>1 DEF Typed, TypeOK
  <2>3. cursor' \in [Readers -> 0 .. None]
    BY SMTT(30), <2>1 DEF Typed, TypeOK, None
  <2> QED
    BY <1>1, <2>2, <2>3 DEF Typed, TypeOK, Polls, node, link, panel, bounds
<1>2. CASE PollFallsBack(r)
  <2>1. Len(seen[r]) \in Nat /\ Len(ring) \in Nat /\ shown[r] \in Seq(Line) /\ ring \in Seq(Line)
    BY LenProperties DEF Typed, TypeOK, Pages
  <2>2. Len(seen[r]) <= Len(ring) => SubSeq(ring, Len(seen[r]) + 1, Len(ring)) \in Seq(Line)
    BY <2>1, PartOf
  <2>3. Len(seen[r]) <= Len(ring) =>
          shown[r] \o SubSeq(ring, Len(seen[r]) + 1, Len(ring)) \in Seq(Line)
    BY <2>1, <2>2, ConcatProperties
  <2>4. \E x \in Seq(Line) : shown' = [shown EXCEPT ![r] = x]
    BY <1>2, <2>1, <2>3 DEF PollFallsBack
  <2>5. shown' \in [Pages -> Seq(Line)]
    BY <2>4 DEF Typed, TypeOK
  <2>6. seen' \in [Readers -> Seq(Line)] /\ sure' \in [Readers -> BOOLEAN]
    BY <1>2, <2>1 DEF Typed, TypeOK, PollFallsBack
  <2>7. troubles' \in 0 .. MaxTroubles /\ troubles <= troubles'
    BY <1>2 DEF Typed, TypeOK, PollFallsBack, Trouble
  <2>8. life' <= troubles'
    BY <1>2, <2>7 DEF Typed, TypeOK, PollFallsBack, node
  <2>9. count' <= lines'
    BY <1>2 DEF Typed, PollFallsBack, node
  <2>10. UNCHANGED <<life, count, ring, sub, wire, task, feed, viewers, queue, cursor, lines,
                     joins>>
    BY <1>2 DEF PollFallsBack, node, link, panel
  <2>11. TypeOK'
    BY <2>5, <2>6, <2>7, <2>10 DEF Typed, TypeOK
  <2> QED
    BY <2>8, <2>9, <2>11 DEF Typed
<1> QED
  BY <1>1, <1>2

LEMMA TypesStep == Sizes /\ Typed /\ [Next]_vars => Typed'
<1> SUFFICES ASSUME Sizes, Typed, [Next]_vars PROVE Typed'
  OBVIOUS
<1>1. CASE UNCHANGED vars
  BY <1>1 DEF Typed, TypeOK, vars, node, link, panel, polled, bounds
<1> QED
  BY <1>1, TypesOfNode, TypesOfPanel, TypesOfViewers, TypesOfReaders DEF Next, Moves

-----------------------------------------------------------------------------
(* The lines on their way.                                                 *)

\* The lines of life l up to the nth.
Numbered(s, l, n) == \A i \in 1 .. Len(s) : s[i] = <<l, n - Len(s) + i>>

RingHolds == Len(ring) <= count /\ Numbered(ring, life, count)

\* What waits for the panel follows what was sent; a follower that fell behind is sent the ring
\* instead, and so is one that has just connected.
LinkHolds ==
  /\ sub.on => task = "following"
  /\ task # "following" => wire = <<>>
  /\ Whole(feed.lines) /\ Chain(feed.lines, wire)
  /\ task = "following" /\ ~feed.ready => wire # <<>> /\ wire[1].kind = "backlog"
  /\ sub.on /\ ~sub.over =>
       /\ Len(sub.q) <= count /\ Numbered(sub.q, life, count)
       /\ LastOf(feed.lines, wire) # <<>> =>
            LastOf(feed.lines, wire)[Len(LastOf(feed.lines, wire))] = <<life, count - Len(sub.q)>>

\* What waits for a viewer follows what it shows, up to where the feed is.
ViewerHolds(v) ==
  /\ Whole(shown[v]) /\ Chain(shown[v], queue[v])
  /\ v \in viewers /\ feed.ready => EndsAs(LastOf(shown[v], queue[v]), feed.lines)

ReaderHolds(r) ==
  sure[r] => /\ Whole(shown[r])
             /\ cursor[r] # None /\ shown[r] # <<>> =>
                  shown[r][Len(shown[r])] = <<life, cursor[r]>>

Inv == /\ Typed /\ RingHolds /\ LinkHolds
       /\ \A v \in Viewers : ViewerHolds(v)
       /\ \A r \in Readers : ReaderHolds(r)

\* Lines that are numbered one by one are an unbroken piece.
LEMMA NumberedIsWhole ==
  ASSUME NEW s \in Seq(Line), NEW l, NEW n \in Int, Numbered(s, l, n)
  PROVE  Whole(s) /\ (s # <<>> => s[1] = <<l, n - Len(s) + 1>> /\ s[Len(s)] = <<l, n>>)
<1>1. Len(s) \in Nat /\ (s # <<>> => Len(s) # 0)
  BY LenProperties, EmptySeq
<1>2. ASSUME NEW i \in 1 .. Len(s) - 1
      PROVE  s[i + 1] = <<s[i][1], s[i][2] + 1>>
  <2>1. i \in 1 .. Len(s) /\ i + 1 \in 1 .. Len(s)
    BY <1>1
  <2>2. s[i] = <<l, n - Len(s) + i>> /\ s[i + 1] = <<l, n - Len(s) + (i + 1)>>
    BY <2>1 DEF Numbered
  <2> QED
    BY <1>1, <2>2
<1>3. ASSUME s # <<>>
      PROVE  s[1] = <<l, n - Len(s) + 1>> /\ s[Len(s)] = <<l, n>>
  <2>1. 1 \in 1 .. Len(s) /\ Len(s) \in 1 .. Len(s) /\ n - Len(s) + Len(s) = n
    BY <1>1, <1>3
  <2>2. s[Len(s)] = <<l, n - Len(s) + Len(s)>> /\ s[1] = <<l, n - Len(s) + 1>>
    BY <2>1 DEF Numbered
  <2> QED
    BY <2>1, <2>2
<1> QED
  BY <1>2, <1>3 DEF Whole

LEMMA RingIsWhole ==
  ASSUME Typed, RingHolds
  PROVE  /\ Whole(ring)
         /\ ring # <<>> => /\ ring[1] = <<life, count - Len(ring) + 1>>
                           /\ ring[Len(ring)] = <<life, count>>
<1>1. ring \in Seq(Line) /\ count \in Int /\ Numbered(ring, life, count)
  BY DEF Typed, TypeOK, RingHolds
<1> QED
  BY <1>1, NumberedIsWhole

\* One more line at the end of numbered lines.
LEMMA NumberedGrows ==
  ASSUME NEW s \in Seq(Line), NEW l, NEW n \in Nat, <<l, n + 1>> \in Line, Len(s) <= n,
         Numbered(s, l, n)
  PROVE  LET t == Append(s, <<l, n + 1>>)
         IN  t \in Seq(Line) /\ Len(t) = Len(s) + 1 /\ Numbered(t, l, n + 1)
<1> DEFINE t == Append(s, <<l, n + 1>>)
<1>1. /\ t \in Seq(Line) /\ Len(t) = Len(s) + 1 /\ Len(s) \in Nat
      /\ \A i \in 1 .. Len(s) : t[i] = s[i]
      /\ t[Len(s) + 1] = <<l, n + 1>>
  BY AppendProperties, LenProperties
<1> HIDE DEF t
<1>2. ASSUME NEW i \in 1 .. Len(t)
      PROVE  t[i] = <<l, (n + 1) - Len(t) + i>>
  <2>1. (n + 1) - Len(t) + i = n - Len(s) + i
    BY <1>1
  <2>2. CASE i \in 1 .. Len(s)
    BY <1>1, <2>1, <2>2 DEF Numbered
  <2>3. CASE i = Len(s) + 1
    <3>1. n - Len(s) + i = n + 1
      BY <1>1, <2>3
    <3> QED
      BY <1>1, <2>1, <2>3, <3>1
  <2> QED
    BY <1>1, <2>2, <2>3
<1> QED
  BY <1>1, <1>2 DEF t, Numbered

LEMMA NodeFeeds ==
  ASSUME Sizes, Inv, FeedsLine
  PROVE  Inv'
<1> DEFINE line == <<life, count + 1>>
           more == Append(ring, line)
<1> USE DEF Sizes
<1>1. Typed' /\ Typed /\ RingHolds /\ LinkHolds
  BY TypesOfNode DEF Inv
<1>2. /\ UNCHANGED <<life, wire, task, feed, viewers, queue, shown, cursor, seen, sure>>
      /\ count' = count + 1 /\ count \in Nat
  BY DEF FeedsLine, panel, polled, Inv, Typed, TypeOK
<1>3. /\ line \in Line /\ more \in Seq(Line) /\ ring' = Newest(more, Ring) /\ ring' \in Seq(Line)
      /\ \/ ~sub.on /\ sub' = sub
         \/ sub.on /\ sub'.q = Append(sub.q, line) /\ sub'.over = sub.over
         \/ sub.on /\ sub'.over
      /\ sub'.on = sub.on
  BY <1>1, FeedIs
<1>4. ring \in Seq(Line) /\ sub.q \in Seq(Line)
  BY <1>1 DEF Typed, TypeOK
<1>5. RingHolds'
  <2>1. Len(more) = Len(ring) + 1 /\ Numbered(more, life, count + 1)
    BY <1>1, <1>2, <1>3, <1>4, NumberedGrows DEF RingHolds
  <2> HIDE DEF more
  <2>2. /\ Len(ring') = IF Len(more) > Ring THEN Ring ELSE Len(more)
        /\ \A i \in 1 .. Len(ring') : ring'[i] = more[Len(more) - Len(ring') + i]
    BY <1>3, NewestIs
  <2>3. Len(more) \in Nat /\ Len(ring) \in Nat
    BY <1>3, <1>4, LenProperties
  <2>4. Len(ring') <= count'
    BY <1>1, <1>2, <2>1, <2>2, <2>3 DEF RingHolds
  <2>5. ASSUME NEW i \in 1 .. Len(ring')
        PROVE  ring'[i] = <<life', count' - Len(ring') + i>>
    <3> DEFINE j == Len(more) - Len(ring') + i
    <3>1. j \in 1 .. Len(more) /\ (count + 1) - Len(more) + j = count' - Len(ring') + i
      BY SMTT(30), <1>2, <2>2, <2>3
    <3>2. ring'[i] = more[j]
      BY <2>2
    <3>3. more[j] = <<life, (count + 1) - Len(more) + j>>
      BY <2>1, <3>1 DEF Numbered
    <3> QED
      BY <1>2, <3>1, <3>2, <3>3
  <2> QED
    BY <2>4, <2>5 DEF RingHolds, Numbered
<1>6. LinkHolds'
  <2>1. ASSUME sub.on, ~sub.over, sub'.q = Append(sub.q, line), sub'.over = sub.over
        PROVE  /\ Len(sub'.q) <= count' /\ count' - Len(sub'.q) = count - Len(sub.q)
               /\ Numbered(sub'.q, life', count')
    <3>1. Len(sub.q) <= count /\ Numbered(sub.q, life, count)
      BY <1>1, <2>1 DEF LinkHolds
    <3>2. Len(sub'.q) = Len(sub.q) + 1 /\ Len(sub.q) \in Nat
      BY <1>2, <1>3, <1>4, <2>1, AppendProperties, LenProperties
    <3>3. Numbered(Append(sub.q, line), life, count + 1)
      BY <1>2, <1>3, <1>4, <3>1, NumberedGrows
    <3>4. Numbered(sub'.q, life', count')
      BY <1>2, <2>1, <3>3
    <3>5. Len(sub'.q) <= count' /\ count' - Len(sub'.q) = count - Len(sub.q)
      BY <1>2, <3>1, <3>2
    <3> QED
      BY <3>4, <3>5
  <2> HIDE DEF line
  <2> QED
    BY <1>1, <1>2, <1>3, <2>1 DEF LinkHolds
<1>7. \A v \in Viewers : ViewerHolds(v)'
  BY <1>2 DEF Inv, ViewerHolds
<1>8. \A r \in Readers : ReaderHolds(r)'
  BY <1>2 DEF Inv, ReaderHolds
<1> QED
  BY <1>1, <1>5, <1>6, <1>7, <1>8 DEF Inv

LEMMA NodeSends ==
  ASSUME Sizes, Inv, AgentSends
  PROVE  Inv'
<1> USE DEF Sizes
<1>1. Typed' /\ Typed /\ RingHolds /\ LinkHolds
  BY TypesOfNode DEF Inv
<1>2. /\ UNCHANGED <<life, count, ring, task, feed, viewers, queue, shown, cursor, seen, sure>>
      /\ sub.on /\ sub.q # <<>> /\ task = "following"
  BY <1>1 DEF AgentSends, node, panel, polled, LinkHolds
<1>3. /\ Batches \in Frame /\ wire' = Append(wire, Batches) /\ wire \in Seq(Frame)
      /\ sub' \in [on : {TRUE}, q : Seq(Line), over : {FALSE}]
      /\ count \in Nat /\ ring \in Seq(Line) /\ sub.q \in Seq(Line)
  <2>1. /\ Batches \in Frame /\ wire' = Append(wire, Batches)
        /\ sub' \in [on : {TRUE}, q : Seq(Line), over : {FALSE}]
    BY <1>1, SendsIs
  <2>2. wire \in Seq(Frame) /\ count \in Nat /\ ring \in Seq(Line) /\ sub.q \in Seq(Line)
    BY <1>1 DEF Typed, TypeOK
  <2> QED
    BY <2>1, <2>2
<1> DEFINE z == LastOf(feed.lines, wire)
<1>4. /\ Whole(Batches.lines)
      /\ Batches.kind = "lines" => Batches.lines # <<>> /\ Precedes(z, Batches.lines)
      /\ Batches.lines # <<>> =>
           Batches.lines[Len(Batches.lines)] = <<life, count - Len(sub'.q)>>
      /\ Len(sub'.q) <= count /\ Numbered(sub'.q, life, count)
  <2>1. CASE sub.over
    <3>1. Batches = Backlog(ring) /\ sub'.q = <<>> /\ Len(sub'.q) = 0
      BY <1>1, <2>1, SendsIs, EmptySeq
    <3>2. Batches.kind = "backlog" /\ Batches.lines = ring
      BY <3>1 DEF Backlog
    <3>3. Numbered(sub'.q, life, count)
      BY <3>1 DEF Numbered
    <3> QED
      BY <1>1, <1>3, <3>1, <3>2, <3>3, RingIsWhole
  <2>2. CASE ~sub.over
    <3>1. PICK k \in 1 .. Len(sub.q) :
            /\ Batches = Lines(SubSeq(sub.q, 1, k))
            /\ sub'.q = SubSeq(sub.q, k + 1, Len(sub.q))
      BY <1>1, <2>2, SendsIs
    <3>2. /\ Len(sub.q) <= count /\ Len(sub.q) \in Nat /\ Numbered(sub.q, life, count)
          /\ z # <<>> => z[Len(z)] = <<life, count - Len(sub.q)>>
      BY <1>1, <1>2, <1>3, <2>2, LenProperties DEF LinkHolds
    <3>3. k \in 0 .. Len(sub.q) /\ k \in Nat
      BY <3>2
    <3> DEFINE b == SubSeq(sub.q, 1, k)
    <3>4. /\ b \in Seq(Line) /\ Len(b) = k
          /\ \A i \in 1 .. k : b[i] = sub.q[i]
          /\ Len(sub'.q) = Len(sub.q) - k
          /\ \A i \in 1 .. Len(sub.q) - k : sub'.q[i] = sub.q[k + i]
      BY SMTT(30), <1>3, <3>1, <3>3, PartOf
    <3> HIDE DEF b
    <3> DEFINE n == count - Len(sub'.q)
    <3>5. n \in Int /\ n - Len(b) = count - Len(sub.q)
      <4>1. count \in Nat /\ Len(sub'.q) = Len(sub.q) - k /\ Len(b) = k
        BY <1>3, <3>4
      <4> QED
        BY <3>2, <3>3, <4>1
    <3>6. Numbered(b, life, n)
      <4> SUFFICES ASSUME NEW i \in 1 .. Len(b) PROVE b[i] = <<life, n - Len(b) + i>>
        BY DEF Numbered
      <4>1. i \in 1 .. Len(sub.q) /\ b[i] = sub.q[i]
        BY <3>2, <3>4
      <4>2. sub.q[i] = <<life, count - Len(sub.q) + i>>
        BY <3>2, <4>1 DEF Numbered
      <4> QED
        BY <3>5, <4>1, <4>2
    <3> HIDE DEF n
    <3>7. Whole(b) /\ (b # <<>> => b[1] = <<life, n - Len(b) + 1>> /\ b[Len(b)] = <<life, n>>)
      BY <3>4, <3>5, <3>6, NumberedIsWhole
    <3>8. b # <<>>
      BY <3>4, EmptySeq
    <3>9. Precedes(z, b)
      BY SMTT(30), <3>2, <3>5, <3>7, <3>8 DEF Precedes
    <3>10. Numbered(sub'.q, life, count)
      <4> SUFFICES ASSUME NEW i \in 1 .. Len(sub'.q)
                   PROVE  sub'.q[i] = <<life, count - Len(sub'.q) + i>>
        BY DEF Numbered
      <4>1. i \in 1 .. Len(sub.q) - k /\ k + i \in 1 .. Len(sub.q)
        BY <3>2, <3>3, <3>4
      <4>2. sub'.q[i] = <<life, count - Len(sub.q) + (k + i)>>
        BY <3>2, <3>4, <4>1 DEF Numbered
      <4>3. count - Len(sub.q) + (k + i) = count - Len(sub'.q) + i
        BY <1>3, <3>2, <3>3, <3>4
      <4> QED
        BY <4>2, <4>3
    <3>11. Batches.kind = "lines" /\ Batches.lines = b
      BY <3>1 DEF Lines, b
    <3>12. Len(sub'.q) <= count
      BY <1>3, <3>2, <3>3, <3>4
    <3>13. b[Len(b)] = <<life, count - Len(sub'.q)>>
      BY <3>7, <3>8 DEF n
    <3> QED
      BY <3>7, <3>8, <3>9, <3>10, <3>11, <3>12, <3>13
  <2> QED
    BY <2>1, <2>2
<1>5. Chain(feed.lines, wire') /\ LastOf(feed.lines, wire') = Batches.lines
  BY <1>1, <1>3, <1>4, ChainGrows DEF LinkHolds
<1>6. ASSUME ~feed.ready
      PROVE  wire' # <<>> /\ wire'[1].kind = "backlog"
  <2>1. wire # <<>> /\ wire[1].kind = "backlog"
    BY <1>1, <1>2, <1>6 DEF LinkHolds
  <2>2. 1 \in 1 .. Len(wire)
    BY <1>3, <2>1, FirstFrame
  <2> QED
    BY <1>3, <2>1, <2>2, AppendProperties
<1>7. LinkHolds'
  BY <1>1, <1>2, <1>3, <1>4, <1>5, <1>6 DEF LinkHolds
<1>8. RingHolds' /\ (\A v \in Viewers : ViewerHolds(v)') /\ \A r \in Readers : ReaderHolds(r)'
  BY <1>2 DEF Inv, RingHolds, ViewerHolds, ReaderHolds
<1> QED
  BY <1>1, <1>7, <1>8 DEF Inv

LEMMA EmptyChain == \A first : Chain(first, <<>>) /\ LastOf(first, <<>>) = first
BY DEF Chain, LastOf

\* Nobody is connected afterwards.
LEMMA LinkEnds ==
  ASSUME Sizes, Inv, AgentRestarts \/ SocketLost \/ NotWanted \/ Closed
  PROVE  Inv'
<1> USE DEF Sizes
<1>1. Typed' /\ Typed /\ RingHolds /\ LinkHolds
  BY TypesOfNode, TypesOfPanel DEF Inv
<1>2. /\ ~sub'.on /\ wire' = <<>> /\ task' # "following"
      /\ feed' = feed \/ (feed' = NoFeed /\ viewers' = {})
      /\ viewers' = viewers /\ queue' = queue /\ shown' = shown
  <2>1. CASE AgentRestarts
    BY <1>1, <2>1 DEF AgentRestarts, NoSub
  <2>2. CASE SocketLost
    BY <1>1, <2>2 DEF SocketLost, NoSub
  <2>3. CASE NotWanted
    BY <1>1, <2>3 DEF NotWanted, NoSub, LinkHolds, link
  <2>4. CASE Closed
    BY <1>1, <2>4 DEF Closed, LinkHolds, link
  <2> QED
    BY <2>1, <2>2, <2>3, <2>4
<1>3. Whole(feed'.lines)
  <2>1. CASE feed' = feed
    BY <1>1, <2>1 DEF LinkHolds
  <2>2. CASE feed' = NoFeed
    BY <2>2 DEF NoFeed, Whole
  <2> QED
    BY <1>2, <2>1, <2>2
<1>4. LinkHolds'
  BY <1>2, <1>3, EmptyChain DEF LinkHolds
<1>5. RingHolds'
  <2>1. CASE AgentRestarts
    BY <2>1 DEF AgentRestarts, RingHolds, Numbered
  <2>2. CASE ~AgentRestarts
    BY <1>1, <2>2 DEF SocketLost, NotWanted, Closed, RingHolds, node
  <2> QED
    BY <2>1, <2>2
<1>6. \A v \in Viewers : ViewerHolds(v)'
  BY <1>2 DEF Inv, ViewerHolds
<1>7. \A r \in Readers : ReaderHolds(r)'
  <2>1. CASE AgentRestarts
    BY <2>1 DEF AgentRestarts, ReaderHolds
  <2>2. CASE ~AgentRestarts
    BY <2>2 DEF Inv, SocketLost, NotWanted, Closed, ReaderHolds, node, polled
  <2> QED
    BY <2>1, <2>2
<1> QED
  BY <1>1, <1>4, <1>5, <1>6, <1>7 DEF Inv

LEMMA PanelConnects ==
  ASSUME Sizes, Inv, Connects
  PROVE  Inv'
<1> USE DEF Sizes
<1>1. Typed' /\ Typed /\ RingHolds /\ LinkHolds
  BY TypesOfPanel DEF Inv
<1>2. /\ UNCHANGED <<life, count, ring, feed, viewers, queue, shown, cursor, seen, sure>>
      /\ task' = "following" /\ wire' = <<Backlog(ring)>> /\ sub'.q = <<>>
  BY DEF Connects, NoSub, node, polled
<1>3. Whole(ring) /\ (ring # <<>> => ring[Len(ring)] = <<life, count>>)
  BY <1>1, RingIsWhole
<1>4. /\ Chain(feed.lines, wire') /\ LastOf(feed.lines, wire') = ring
  BY <1>2, <1>3, ChainOfOne
<1>5. wire' # <<>> /\ wire'[1].kind = "backlog"
  BY <1>2 DEF Backlog
<1>6. Len(sub'.q) = 0 /\ count \in Nat /\ Numbered(sub'.q, life, count)
  BY <1>1, <1>2, EmptySeq DEF Typed, TypeOK, Numbered
<1>7. LinkHolds'
  BY <1>1, <1>2, <1>3, <1>4, <1>5, <1>6 DEF LinkHolds
<1>8. RingHolds' /\ (\A v \in Viewers : ViewerHolds(v)') /\ \A r \in Readers : ReaderHolds(r)'
  BY <1>2 DEF Inv, RingHolds, ViewerHolds, ReaderHolds
<1> QED
  BY <1>1, <1>7, <1>8 DEF Inv

LEMMA PanelTakes ==
  ASSUME Sizes, Inv, Takes
  PROVE  Inv'
<1> USE DEF Sizes
<1> DEFINE f == wire[1]
<1>1. Typed' /\ Typed /\ RingHolds /\ LinkHolds
  BY TypesOfPanel DEF Inv
<1>2. /\ UNCHANGED <<life, count, ring, sub, task, viewers, shown, cursor, seen, sure>>
      /\ task = "following"
  BY DEF Takes, node, polled, bounds
<1>3. /\ wire # <<>> /\ f \in Frame /\ wire' = Tail(wire)
      /\ feed'.ready = (feed.ready \/ f.kind = "backlog")
      /\ f.kind = "backlog" => feed'.lines = f.lines
      /\ f.kind # "backlog" => feed'.lines = Newest(feed.lines \o f.lines, Ring)
      /\ queue' = [v \in Viewers |-> IF v \in viewers THEN Given(queue[v], f) ELSE queue[v]]
  BY <1>1, TakeIs
<1>4. /\ wire \in Seq(Frame) /\ feed.lines \in Seq(Line) /\ feed'.lines \in Seq(Line)
      /\ f.lines \in Seq(Line) /\ f.kind \in {"backlog", "lines"} /\ 1 \in 1 .. Len(wire)
  <2>1. wire \in Seq(Frame) /\ feed.lines \in Seq(Line) /\ feed'.lines \in Seq(Line)
    BY <1>1 DEF Typed, TypeOK
  <2> QED
    BY <1>3, <2>1, FrameIs, FirstFrame
<1>5. /\ Whole(f.lines)
      /\ f.kind = "lines" => feed.ready /\ f.lines # <<>> /\ Precedes(feed.lines, f.lines)
  BY <1>1, <1>2, <1>4 DEF LinkHolds, Chain, Before
<1>6. Whole(feed'.lines) /\ EndsAs(feed'.lines, f.lines) /\ EndsAs(f.lines, feed'.lines)
  <2>1. CASE f.kind = "backlog"
    BY <1>3, <1>5, <2>1 DEF EndsAs
  <2>2. CASE f.kind = "lines"
    <3> DEFINE both == feed.lines \o f.lines
    <3>1. both \in Seq(Line) /\ Whole(both) /\ EndsAs(f.lines, both) /\ EndsAs(both, f.lines)
      BY <1>1, <1>4, <1>5, <2>2, JoinedIsWhole DEF LinkHolds
    <3> HIDE DEF both
    <3>2. /\ Whole(Newest(both, Ring))
          /\ EndsAs(both, Newest(both, Ring)) /\ EndsAs(Newest(both, Ring), both)
      BY <3>1, NewestIsWhole
    <3>3. feed'.lines = Newest(both, Ring)
      BY <1>3, <2>2 DEF both
    <3> QED
      BY <3>1, <3>2, <3>3 DEF EndsAs
  <2> QED
    BY <1>4, <2>1, <2>2
<1>7. feed'.ready
  BY <1>3, <1>4, <1>5
<1>8. /\ Chain(feed'.lines, wire')
      /\ EndsAs(LastOf(feed'.lines, wire'), LastOf(feed.lines, wire))
  BY <1>1, <1>3, <1>4, <1>6, ChainIsTaken DEF LinkHolds
<1>9. LinkHolds'
  <2> DEFINE z == LastOf(feed'.lines, wire')
             y == LastOf(feed.lines, wire)
  <2>1. z # <<>> => y # <<>> /\ y[Len(y)] = z[Len(z)]
    BY <1>8 DEF EndsAs
  <2>2. sub'.on /\ ~sub'.over =>
          /\ Len(sub'.q) <= count' /\ Numbered(sub'.q, life', count')
          /\ y # <<>> => y[Len(y)] = <<life', count' - Len(sub'.q)>>
    BY <1>1, <1>2 DEF LinkHolds
  <2>3. sub'.on /\ ~sub'.over =>
          /\ Len(sub'.q) <= count' /\ Numbered(sub'.q, life', count')
          /\ z # <<>> => z[Len(z)] = <<life', count' - Len(sub'.q)>>
    BY <2>1, <2>2
  <2> QED
    BY <1>1, <1>2, <1>6, <1>7, <1>8, <2>3 DEF LinkHolds
<1>10. ASSUME NEW v \in Viewers
       PROVE  ViewerHolds(v)'
  <2>1. /\ Whole(shown[v]) /\ Chain(shown[v], queue[v]) /\ shown'[v] = shown[v]
        /\ v \in viewers /\ feed.ready => EndsAs(LastOf(shown[v], queue[v]), feed.lines)
        /\ queue[v] \in Seq(Frame)
    BY <1>1, <1>2 DEF Inv, ViewerHolds, Typed, TypeOK
  <2>2. CASE v \notin viewers
    <3>1. queue'[v] = queue[v] /\ v \notin viewers'
      BY <1>2, <1>3, <2>2
    <3> QED
      BY <2>1, <3>1 DEF ViewerHolds
  <2>3. CASE v \in viewers
    <3>1. queue'[v] = Given(queue[v], f)
      BY <1>3, <2>3
    <3>2. Chain(shown[v], queue'[v]) /\ EndsAs(LastOf(shown[v], queue'[v]), feed'.lines)
      <4>1. CASE Len(queue[v]) < ViewerQueue
        <5>1. queue'[v] = Append(queue[v], f)
          BY <3>1, <4>1 DEF Given
        <5>2. f.kind = "lines" => f.lines # <<>> /\ Precedes(LastOf(shown[v], queue[v]), f.lines)
          BY <1>5, <2>1, <2>3 DEF Precedes, EndsAs
        <5>3. /\ Chain(shown[v], Append(queue[v], f))
              /\ LastOf(shown[v], Append(queue[v], f)) = f.lines
          BY <1>3, <1>5, <2>1, <5>2, ChainGrows
        <5> QED
          BY <1>6, <5>1, <5>3
      <4>2. CASE ~(Len(queue[v]) < ViewerQueue)
        <5>1. queue'[v] = <<Backlog(feed'.lines)>>
          BY <3>1, <4>2 DEF Given
        <5>2. /\ Chain(shown[v], <<Backlog(feed'.lines)>>)
              /\ LastOf(shown[v], <<Backlog(feed'.lines)>>) = feed'.lines
          BY <1>6, ChainOfOne
        <5> QED
          BY <5>1, <5>2 DEF EndsAs
      <4> QED
        BY <4>1, <4>2
    <3> QED
      BY <2>1, <3>2 DEF ViewerHolds
  <2> QED
    BY <2>2, <2>3
<1>11. RingHolds' /\ \A r \in Readers : ReaderHolds(r)'
  BY <1>2 DEF Inv, RingHolds, ReaderHolds
<1> QED
  BY <1>1, <1>9, <1>10, <1>11 DEF Inv

LEMMA ViewerMoves ==
  ASSUME Sizes, Inv, NEW v \in Viewers, Joins(v) \/ Leaves(v) \/ Shows(v)
  PROVE  Inv'
<1> USE DEF Sizes
<1>1. Typed' /\ Typed /\ RingHolds /\ LinkHolds
  BY TypesOfViewers DEF Inv
<1>2. /\ UNCHANGED <<life, count, ring, sub, wire, cursor, seen, sure>>
      /\ feed'.ready = feed.ready /\ feed'.lines = feed.lines
      /\ task' = "following" <=> task = "following"
  BY <1>1 DEF Joins, Leaves, Shows, node, link, polled, Typed, TypeOK
<1>3. RingHolds' /\ LinkHolds'
  BY <1>1, <1>2 DEF RingHolds, LinkHolds
<1>4. ASSUME NEW w \in Viewers \ {v}
      PROVE  ViewerHolds(w)'
  <2>1. shown'[w] = shown[w] /\ queue'[w] = queue[w] /\ (w \in viewers' <=> w \in viewers)
    BY <1>1, <1>4 DEF Joins, Leaves, Shows, Typed, TypeOK, Pages
  <2> QED
    BY <1>2, <2>1 DEF Inv, ViewerHolds
<1>5. ASSUME NEW r \in Readers
      PROVE  ReaderHolds(r)'
  <2>1. shown'[r] = shown[r]
    BY <1>1 DEF Joins, Leaves, Shows, Typed, TypeOK, Pages
  <2> QED
    BY <1>2, <2>1 DEF Inv, ReaderHolds
<1>6. ViewerHolds(v)'
  <2>0. /\ Whole(shown[v]) /\ Chain(shown[v], queue[v])
        /\ v \in viewers /\ feed.ready => EndsAs(LastOf(shown[v], queue[v]), feed.lines)
    BY DEF Inv, ViewerHolds
  <2>1. CASE Joins(v)
    <3>1. /\ shown' = shown
          /\ queue'[v] = IF feed.ready THEN <<Backlog(feed.lines)>> ELSE <<>>
      BY <1>1, <2>1 DEF Joins, Typed, TypeOK
    <3>2. CASE feed.ready
      <4>1. /\ Chain(shown[v], <<Backlog(feed.lines)>>)
            /\ LastOf(shown[v], <<Backlog(feed.lines)>>) = feed.lines
        BY <1>1, ChainOfOne DEF LinkHolds
      <4> QED
        BY <1>2, <2>0, <3>1, <3>2, <4>1 DEF ViewerHolds, EndsAs
    <3>3. CASE ~feed.ready
      BY <1>2, <2>0, <3>1, <3>3, EmptyChain DEF ViewerHolds
    <3> QED
      BY <3>2, <3>3
  <2>2. CASE Leaves(v)
    <3>1. shown' = shown /\ queue'[v] = <<>> /\ v \notin viewers'
      BY <1>1, <2>2 DEF Leaves, Typed, TypeOK
    <3> QED
      BY <2>0, <3>1, EmptyChain DEF ViewerHolds
  <2>3. CASE Shows(v)
    <3> DEFINE f == queue[v][1]
    <3>1. /\ queue[v] # <<>> /\ f \in Frame /\ queue[v] \in Seq(Frame) /\ shown[v] \in Seq(Line)
          /\ shown'[v] = IF f.kind = "backlog" THEN f.lines ELSE shown[v] \o f.lines
          /\ queue'[v] = Tail(queue[v])
          /\ viewers' = viewers /\ feed' = feed
      <4>1. /\ queue[v] # <<>> /\ f \in Frame
            /\ shown' = [shown EXCEPT ![v] = IF f.kind = "backlog" THEN f.lines ELSE @ \o f.lines]
            /\ queue' = [queue EXCEPT ![v] = Tail(queue[v])]
        BY <1>1, <2>3, ShowIs
      <4>2. /\ shown \in [Pages -> Seq(Line)] /\ queue \in [Viewers -> Seq(Frame)] /\ v \in Pages
        BY <1>1 DEF Typed, TypeOK, Pages
      <4>3. viewers' = viewers /\ feed' = feed
        BY <2>3 DEF Shows
      <4> HIDE DEF f
      <4>4. shown'[v] = IF f.kind = "backlog" THEN f.lines ELSE shown[v] \o f.lines
        BY <4>1, <4>2
      <4> QED
        BY <4>1, <4>2, <4>3, <4>4
    <3>2. f.lines \in Seq(Line) /\ f.kind \in {"backlog", "lines"} /\ 1 \in 1 .. Len(queue[v])
      BY <3>1, FrameIs, FirstFrame
    <3>3. /\ Whole(f.lines)
          /\ f.kind = "lines" => f.lines # <<>> /\ Precedes(shown[v], f.lines)
      BY <2>0, <3>2 DEF Chain, Before
    <3>4. Whole(shown'[v]) /\ EndsAs(shown'[v], f.lines)
      <4>1. CASE f.kind = "backlog"
        BY <3>1, <3>3, <4>1 DEF EndsAs
      <4>2. CASE f.kind = "lines"
        BY <2>0, <3>1, <3>2, <3>3, <4>2, JoinedIsWhole
      <4> QED
        BY <3>2, <4>1, <4>2
    <3>5. /\ Chain(shown'[v], queue'[v])
          /\ EndsAs(LastOf(shown'[v], queue'[v]), LastOf(shown[v], queue[v]))
      BY <2>0, <3>1, <3>4, ChainIsTaken
    <3>6. v \in viewers' /\ feed'.ready => EndsAs(LastOf(shown'[v], queue'[v]), feed'.lines)
      BY <2>0, <3>1, <3>5 DEF EndsAs
    <3> QED
      BY <3>4, <3>5, <3>6 DEF ViewerHolds
  <2> QED
    BY <2>1, <2>2, <2>3
<1> QED
  BY <1>1, <1>3, <1>4, <1>5, <1>6 DEF Inv

LEMMA ReaderPolls ==
  ASSUME Sizes, Inv, NEW r \in Readers, Polls(r) \/ PollFallsBack(r)
  PROVE  Inv'
<1> USE DEF Sizes
<1>1. Typed' /\ Typed /\ RingHolds /\ LinkHolds
  BY TypesOfReaders DEF Inv
<1>2. UNCHANGED <<life, count, ring, sub, wire, task, feed, viewers, queue>>
  BY DEF Polls, PollFallsBack, node, link, panel
<1>3. RingHolds' /\ LinkHolds'
  BY <1>1, <1>2 DEF RingHolds, LinkHolds
<1>4. ASSUME NEW v \in Viewers
      PROVE  ViewerHolds(v)'
  <2>1. shown'[v] = shown[v]
    BY ZenonT(40), <1>1 DEF Polls, PollFallsBack, Typed, TypeOK, Pages
  <2> QED
    BY <1>2, <2>1 DEF Inv, ViewerHolds
<1>5. ASSUME NEW q \in Readers \ {r}
      PROVE  ReaderHolds(q)'
  <2>1. shown'[q] = shown[q] /\ cursor'[q] = cursor[q] /\ sure'[q] = sure[q]
    BY <1>1, <1>5 DEF Polls, PollFallsBack, Typed, TypeOK, Pages
  <2> QED
    BY <1>2, <2>1 DEF Inv, ReaderHolds
<1>6. ReaderHolds(r)'
  <2>1. CASE PollFallsBack(r)
    <3>1. ~sure'[r]
      BY <1>1, <2>1 DEF PollFallsBack, Typed, TypeOK
    <3> QED
      BY <3>1 DEF ReaderHolds
  <2>2. CASE Polls(r)
    <3>0. /\ ring \in Seq(Line) /\ shown[r] \in Seq(Line) /\ count \in Nat /\ cursor[r] \in Nat
          /\ Len(ring) \in Nat
      BY <1>1, LenProperties DEF Typed, TypeOK, Pages, None
    <3>1. PICK fresh \in Seq(Line), reset \in BOOLEAN :
            /\ reset => fresh = ring
            /\ ~reset => /\ cursor[r] # None /\ cursor[r] <= count /\ count - cursor[r] <= Len(ring)
                         /\ fresh = Newest(ring, count - cursor[r])
            /\ shown' = [shown EXCEPT ![r] = IF reset THEN fresh ELSE shown[r] \o fresh]
            /\ sure' = [sure EXCEPT ![r] = sure[r] \/ reset]
            /\ cursor' = [cursor EXCEPT ![r] = count]
      BY <1>1, <2>2, PollIs
    <3>2. /\ shown'[r] = IF reset THEN fresh ELSE shown[r] \o fresh
          /\ sure'[r] = (sure[r] \/ reset) /\ cursor'[r] = count
      BY <1>1, <3>1 DEF Typed, TypeOK, Pages
    <3>3. CASE reset
      BY <1>1, <1>2, <3>1, <3>2, <3>3, RingIsWhole DEF ReaderHolds
    <3>4. CASE ~reset /\ ~sure[r]
      BY <3>2, <3>4 DEF ReaderHolds
    <3>5. CASE ~reset /\ sure[r]
      <4> DEFINE n == count - cursor[r]
      <4>1. /\ Whole(shown[r])
            /\ shown[r] # <<>> => shown[r][Len(shown[r])] = <<life, cursor[r]>>
        BY <3>1, <3>5 DEF Inv, ReaderHolds
      <4>2. n \in Nat /\ n <= Len(ring) /\ count - n = cursor[r] /\ fresh = Newest(ring, n)
        BY <3>0, <3>1, <3>5
      <4> HIDE DEF n
      <4>3. /\ Len(fresh) = n
            /\ \A i \in 1 .. n : fresh[i] = ring[Len(ring) - n + i]
        <5>1. /\ Len(fresh) = IF Len(ring) > n THEN n ELSE Len(ring)
              /\ \A i \in 1 .. Len(fresh) : fresh[i] = ring[Len(ring) - Len(fresh) + i]
          <6>1. LET t == Newest(ring, n)
                IN  /\ Len(t) = IF Len(ring) > n THEN n ELSE Len(ring)
                    /\ \A i \in 1 .. Len(t) : t[i] = ring[Len(ring) - Len(t) + i]
            BY ZenonT(30), <3>0, <4>2, NewestIs
          <6> QED
            BY <4>2, <6>1
        <5>2. Len(fresh) = n
          BY <3>0, <4>2, <5>1
        <5> QED
          BY <5>1, <5>2
      <4>4. Numbered(fresh, life, count)
        <5> SUFFICES ASSUME NEW i \in 1 .. Len(fresh)
                     PROVE  fresh[i] = <<life, count - Len(fresh) + i>>
          BY DEF Numbered
        <5> DEFINE j == Len(ring) - n + i
        <5>1. j \in 1 .. Len(ring) /\ count - Len(ring) + j = count - Len(fresh) + i
          BY <3>0, <4>2, <4>3
        <5>2. fresh[i] = ring[j]
          BY <4>3
        <5>3. ring[j] = <<life, count - Len(ring) + j>>
          BY <1>1, <5>1 DEF RingHolds, Numbered
        <5> QED
          BY <5>1, <5>2, <5>3
      <4>5. /\ Whole(fresh)
            /\ fresh # <<>> => /\ fresh[1] = <<life, cursor[r] + 1>>
                               /\ fresh[Len(fresh)] = <<life, count>>
        <5>1. /\ Whole(fresh)
              /\ fresh # <<>> => /\ fresh[1] = <<life, count - Len(fresh) + 1>>
                                 /\ fresh[Len(fresh)] = <<life, count>>
          BY SMTT(30), <3>0, <4>4, NumberedIsWhole
        <5> QED
          BY <4>2, <4>3, <5>1
      <4>6. Precedes(shown[r], fresh)
        BY <4>1, <4>5 DEF Precedes
      <4>7. /\ Whole(shown[r] \o fresh)
            /\ fresh # <<>> => EndsAs(shown[r] \o fresh, fresh)
            /\ fresh = <<>> => shown[r] \o fresh = shown[r]
        BY <3>0, <4>1, <4>5, <4>6, JoinedIsWhole
      <4>8. fresh = <<>> => cursor[r] = count
        BY <3>0, <4>2, <4>3, EmptySeq
      <4>9. shown'[r] = shown[r] \o fresh
        BY <3>2, <3>5
      <4>10. shown'[r] # <<>> => shown'[r][Len(shown'[r])] = <<life, count>>
        BY <4>1, <4>5, <4>7, <4>8, <4>9 DEF EndsAs
      <4> QED
        BY <1>2, <3>2, <4>7, <4>9, <4>10 DEF ReaderHolds
    <3> QED
      BY <3>3, <3>4, <3>5
  <2> QED
    BY <2>1, <2>2
<1> QED
  BY <1>1, <1>3, <1>4, <1>5, <1>6 DEF Inv

LEMMA RelayStep == Sizes /\ Inv /\ [Next]_vars => Inv'
<1> SUFFICES ASSUME Sizes, Inv, [Next]_vars PROVE Inv'
  OBVIOUS
<1>1. CASE UNCHANGED vars
  <2>1. Typed'
    BY <1>1, TypesStep DEF Inv
  <2> QED
    BY <1>1, <2>1 DEF Inv, RingHolds, LinkHolds, ViewerHolds, ReaderHolds,
                      vars, node, link, panel, polled, bounds
<1> QED
  BY <1>1, NodeFeeds, NodeSends, LinkEnds, PanelConnects, PanelTakes, ViewerMoves, ReaderPolls
  DEF Next, Moves

LEMMA RelayInit == Sizes /\ Init => Inv
<1> SUFFICES ASSUME Sizes, Init PROVE Inv
  OBVIOUS
<1>1. <<>> \in Seq(Line) /\ <<>> \in Seq(Frame) /\ Len(<<>>) = 0
  BY EmptySeq
<1>2. Typed
  <2>1. /\ sub \in [on : BOOLEAN, q : Seq(Line), over : BOOLEAN] /\ Len(sub.q) <= AgentQueue
        /\ feed \in [there : BOOLEAN, ready : BOOLEAN, lines : Seq(Line)]
    <3>1. AgentQueue >= 0
      BY DEF Sizes
    <3> QED
      BY <1>1, <3>1 DEF Init, NoSub, NoFeed
  <2>2. queue \in [Viewers -> Seq(Frame)] /\ \A v \in Viewers : Len(queue[v]) <= ViewerQueue
    BY <1>1 DEF Init, Sizes
  <2>3. /\ shown \in [Pages -> Seq(Line)] /\ seen \in [Readers -> Seq(Line)]
        /\ cursor \in [Readers -> 0 .. None] /\ sure \in [Readers -> BOOLEAN]
    BY <1>1 DEF Init, Sizes, None
  <2> QED
    BY <1>1, <2>1, <2>2, <2>3 DEF Init, Sizes, Typed, TypeOK
<1>3. RingHolds /\ LinkHolds
  <2>1. ring = <<>> /\ count = 0 /\ Len(ring) = 0 /\ RingHolds
    BY <1>1 DEF Init, RingHolds, Numbered
  <2>2. ~sub.on /\ wire = <<>> /\ task = "none" /\ feed.lines = <<>>
    BY DEF Init, NoSub, NoFeed
  <2>3. Whole(feed.lines)
    BY <1>1, <2>2 DEF Whole
  <2>4. Chain(feed.lines, wire)
    BY <2>2, EmptyChain
  <2> QED
    BY <2>1, <2>2, <2>3, <2>4 DEF LinkHolds
<1>4. ASSUME NEW v \in Viewers
      PROVE  ViewerHolds(v)
  <2>1. shown[v] = <<>> /\ queue[v] = <<>> /\ v \notin viewers
    BY DEF Init, Pages
  <2>2. Whole(shown[v])
    BY <1>1, <2>1 DEF Whole
  <2>3. Chain(shown[v], queue[v])
    BY <2>1, EmptyChain
  <2> QED
    BY <2>1, <2>2, <2>3 DEF ViewerHolds
<1>5. ASSUME NEW r \in Readers
      PROVE  ReaderHolds(r)
  <2>1. shown[r] = <<>>
    BY DEF Init, Pages
  <2>2. Whole(shown[r])
    BY <1>1, <2>1 DEF Whole
  <2> QED
    BY <2>1, <2>2 DEF ReaderHolds
<1> QED
  BY <1>2, <1>3, <1>4, <1>5 DEF Inv

\* What a page shows over the socket is one unbroken piece of the console of one life of the
\* agent (NoHole), through full queues on the node and in the panel, lost sockets, restarts of
\* the agent, and pages that come while the connection before is being closed, for any number
\* of pages and any lengths.
THEOREM PagesHaveNoHole ==
  ASSUME Sizes
  PROVE  Spec => []NoHole
<1>1. Inv => NoHole
  BY DEF Inv, ViewerHolds, NoHole
<1>2. Inv /\ [Next]_vars => Inv'
  BY RelayStep
<1>3. Init => Inv
  BY RelayInit
<1> QED
  BY <1>1, <1>2, <1>3, PTL DEF Spec

\* So is what a page shows that polls, from when it started over after a restart of the agent
\* or a poll that had to be diffed (PolledIsWhole).
THEOREM PollsHaveNoHole ==
  ASSUME Sizes
  PROVE  Spec => []PolledIsWhole
<1>1. Inv => PolledIsWhole
  BY DEF Inv, ReaderHolds, PolledIsWhole
<1>2. Inv /\ [Next]_vars => Inv'
  BY RelayStep
<1>3. Init => Inv
  BY RelayInit
<1> QED
  BY <1>1, <1>2, <1>3, PTL DEF Spec

\* The console's queues never hold more than their lengths, and every variable keeps its type.
THEOREM ConsoleTyped ==
  ASSUME Sizes
  PROVE  Spec => []TypeOK
<1>1. Inv => TypeOK
  BY DEF Inv, Typed
<1>2. Inv /\ [Next]_vars => Inv'
  BY RelayStep
<1>3. Init => Inv
  BY RelayInit
<1> QED
  BY <1>1, <1>2, <1>3, PTL DEF Spec

\* Console.feed, Feed._give, console_stream: the two together, as the run of the panel checks
\* them (PagesAreTrue).
THEOREM ConsolesAreTrue == ASSUME Sizes PROVE Spec => []PagesAreTrue
<1>1. NoHole /\ PolledIsWhole => PagesAreTrue
  BY DEF PagesAreTrue
<1> QED
  BY <1>1, PagesHaveNoHole, PollsHaveNoHole, PTL

=============================================================================
