------------------------------- MODULE History -------------------------------
(***************************************************************************)
(* The history of the servers (app/history.py): once a minute a loop       *)
(* writes one row for each server that answers, and now and then rows that *)
(* are old enough are rolled up, a bucket of minutes at a time, into one   *)
(* row.  Several processes run the loop, and each may fail or die between  *)
(* any two of its transactions.                                            *)
(*                                                                         *)
(* Of a reading the model keeps whether the server ran.                    *)
(***************************************************************************)
EXTENDS Integers, FiniteSets, FiniteSetsExt

CONSTANTS Servers, Loops,
          Running,      \* the minutes in which the servers run
          Rolled,       \* minutes of a bucket
          KeepRaw, KeepAll, CompactEvery, Batch,
          MaxTime,      \* bound: the last minute
          MaxTroubles   \* bound: calls that fail, servers that do not answer, loops that die

VARIABLES now,
          rows,         \* the table
          loop,         \* each process
          written,      \* every minute that was ever written, as it was then
          torn,         \* a roll-up was left between its two transactions
          troubles

vars == <<now, rows, loop, written, torn, troubles>>

Minutes == 0..MaxTime
Bucket(t) == t - (t % Rolled)
Key(row) == <<row.server, row.at, row.res>>
Reading(s, t, up) == [server |-> s, at |-> t, res |-> 1, samples |-> 1, up |-> up]
Asleep == [pc |-> "asleep", at |-> -1, rows |-> {}, edge |-> -1, compacted |-> -CompactEvery]

TypeOK ==
  /\ now \in Minutes /\ torn \in BOOLEAN /\ troubles \in 0..MaxTroubles
  /\ \A row \in rows \cup written :
       /\ row.server \in Servers /\ row.at \in Minutes /\ row.res \in {1, Rolled}
       /\ row.samples \in 1..Rolled /\ row.up \in 0..row.samples
  /\ \A p, q \in rows : Key(p) = Key(q) => p = q
  /\ \A p \in Loops : 
       loop[p].pc \in {"asleep", "gather", "insert", "read", "widen", "roll", "delete", "expire", "dead"}

Init ==
  /\ now = 0 /\ rows = {} /\ written = {} /\ torn = FALSE /\ troubles = 0
  /\ loop = [p \in Loops |-> Asleep]

Works(ok) == IF ok THEN UNCHANGED troubles ELSE troubles < MaxTroubles /\ troubles' = troubles + 1
\* A step of the loop of p; whatever fails, the next minute tries again.
Goes(p, ok, r) == loop' = [loop EXCEPT ![p] = IF ok THEN r ELSE [@ EXCEPT !.pc = "asleep", !.rows = {}]]

\* A recording takes less than KEEP_RAW (48 hours).
Tick ==
  /\ now < MaxTime /\ now' = now + 1
  /\ \A p \in Loops : loop[p].pc \in {"gather", "insert"} => now + 1 - loop[p].at < KeepRaw
  /\ UNCHANGED <<rows, loop, written, torn, troubles>>

\* run_forever: on the minute.
Wakes(p) ==
  /\ loop[p].pc = "asleep" /\ loop[p].at < now
  /\ loop' = [loop EXCEPT ![p] = [@ EXCEPT !.pc = "gather", !.at = now]]
  /\ UNCHANGED <<now, rows, written, torn, troubles>>

\* A server that cannot be reached, or of which there is only an old reading, is passed over.
Gathers(p, silent) ==
  /\ loop[p].pc = "gather"
  /\ Works(silent = {})
  /\ Goes(p, TRUE, [loop[p] EXCEPT !.pc = "insert",
       !.rows = {Reading(s, loop[p].at, IF loop[p].at \in Running THEN 1 ELSE 0) : s \in Servers \ silent}])
  /\ UNCHANGED <<now, rows, written, torn>>

\* What has a row already is left alone.
NewOf(some) == {row \in some : \A old \in rows : Key(old) # Key(row)}
DueToCompact(p) == now - loop[p].compacted >= CompactEvery
Inserts(p, ok) ==
  /\ loop[p].pc = "insert" /\ Works(ok)
  /\ IF ok THEN /\ rows' = rows \cup NewOf(loop[p].rows) /\ written' = written \cup NewOf(loop[p].rows)
           ELSE UNCHANGED <<rows, written>>
  /\ Goes(p, ok, IF DueToCompact(p) THEN [loop[p] EXCEPT !.pc = "read", !.rows = {}, !.compacted = now]
                                    ELSE [loop[p] EXCEPT !.pc = "asleep", !.rows = {}])
  /\ UNCHANGED <<now, torn>>

\* A batch may end in the middle of a bucket, which is then left for the next.
Whole(raw) ==
  IF Cardinality(raw) = Batch THEN {row \in raw : row.at < Bucket(Max({r.at : r \in raw}))} ELSE raw
\* The oldest rows, no more than a batch, of those that are due to be rolled up.
Due(p) == {row \in rows : row.res = 1 /\ row.at < Bucket(loop[p].compacted - KeepRaw)}
Batches(p) ==
  {raw \in kSubset(Min({Batch, Cardinality(Due(p))}), Due(p)) :
     \A row \in raw, other \in Due(p) \ raw : row.at <= other.at}

\* The edge is that of the batch, or none (-1) when the batch was the last.
ReadsRaw(p, ok) ==
  /\ loop[p].pc = "read" /\ Works(ok)
  /\ \E raw \in Batches(p) :
       Goes(p, ok,
            IF raw = {} THEN [loop[p] EXCEPT !.pc = "expire"]
            ELSE IF Whole(raw) = {}
            THEN [loop[p] EXCEPT !.pc = "widen", !.edge = Bucket(Max({r.at : r \in raw})) + Rolled]
            ELSE [loop[p] EXCEPT !.pc = "roll", !.rows = Whole(raw),
                    !.edge = IF Cardinality(raw) = Batch THEN Bucket(Max({r.at : r \in raw})) ELSE -1])
  /\ UNCHANGED <<now, rows, written, torn>>
\* One bucket holds more than a batch: it is taken whole.
Widens(p, ok) ==
  /\ loop[p].pc = "widen" /\ Works(ok)
  /\ Goes(p, ok, [loop[p] EXCEPT !.pc = "roll",
                                !.rows = {row \in rows : row.res = 1 /\ row.at < loop[p].edge}])
  /\ UNCHANGED <<now, rows, written, torn>>

\* _roll: one row for each server and bucket.
SumOf(some, value) == FoldSet(LAMBDA row, n : n + value[row], 0, some)
Roll(some) ==
  {LET of == {row \in some : row.server = k[1] /\ Bucket(row.at) = k[2]} IN
     [server |-> k[1], at |-> k[2], res |-> Rolled,
      samples |-> SumOf(of, [row \in of |-> row.samples]), up |-> SumOf(of, [row \in of |-> row.up])]
   : k \in {<<row.server, Bucket(row.at)>> : row \in some}}

RollsUp(p, ok) ==
  /\ loop[p].pc = "roll" /\ Works(ok)
  /\ rows' = IF ok THEN rows \cup NewOf(Roll(loop[p].rows)) ELSE rows
  /\ Goes(p, ok, [loop[p] EXCEPT !.pc = "delete"])
  /\ UNCHANGED <<now, written, torn>>
Deletes(p, ok) ==
  /\ loop[p].pc = "delete" /\ Works(ok)
  /\ rows' = IF ok THEN rows \ loop[p].rows ELSE rows
  /\ torn' = (torn \/ ~ok)
  /\ Goes(p, ok, [loop[p] EXCEPT !.rows = {}, !.pc = IF loop[p].edge = -1 THEN "expire" ELSE "read"])
  /\ UNCHANGED <<now, written>>
Expires(p, ok) ==
  /\ loop[p].pc = "expire" /\ Works(ok)
  /\ rows' = IF ok THEN {row \in rows : row.at >= loop[p].compacted - KeepAll} ELSE rows
  /\ Goes(p, ok, [loop[p] EXCEPT !.pc = "asleep"])
  /\ UNCHANGED <<now, written, torn>>

Dies(p) ==
  /\ loop[p].pc \notin {"asleep", "dead"} /\ Works(FALSE)
  /\ torn' = (torn \/ loop[p].pc = "delete")
  /\ loop' = [loop EXCEPT ![p] = [Asleep EXCEPT !.pc = "dead"]]
  /\ UNCHANGED <<now, rows, written>>
ComesBack(p) ==
  /\ loop[p].pc = "dead" /\ loop' = [loop EXCEPT ![p] = Asleep]
  /\ UNCHANGED <<now, rows, written, torn, troubles>>

Next ==
  \/ Tick
  \/ \E p \in Loops : Wakes(p) \/ Dies(p) \/ ComesBack(p)
  \/ \E p \in Loops, silent \in SUBSET Servers : Gathers(p, silent)
  \/ \E p \in Loops, ok \in BOOLEAN :
       \/ Inserts(p, ok) \/ ReadsRaw(p, ok) \/ Widens(p, ok) \/ RollsUp(p, ok) \/ Deletes(p, ok) \/ Expires(p, ok)

Spec == Init /\ [][Next]_vars

-----------------------------------------------------------------------------
(* Properties.                                                             *)

\* What was written of a server in the minutes of a bucket.
Of(some, s, b) == {row \in some : row.server = s /\ Bucket(row.at) = b}
Buckets == {b \in Minutes : Bucket(b) = b /\ b >= now - KeepAll}

\* "The roll-up only ever takes whole buckets, so it can run anywhere, any number of times": until
\* KEEP_ALL is over, each minute that was written is in the table, on its own or in a row that stands
\* for every minute of its bucket, whoever died between the two transactions of a roll-up.
MinutesAreKept ==
  \A s \in Servers, b \in Buckets :
    LET all == Of(written, s, b)
        rolled == {row \in Of(rows, s, b) : row.res = Rolled} IN
      IF rolled = {} THEN Of(rows, s, b) = all ELSE rolled = Roll(all)

\* A chart counts each minute once, unless a roll-up is, or was left, between its two transactions.
MinutesCountOnce ==
  ~torn /\ (\A p \in Loops : loop[p].pc # "delete") =>
    \A s \in Servers, b \in Buckets :
      SumOf(Of(rows, s, b), [row \in rows |-> row.samples]) = Cardinality(Of(written, s, b))
=============================================================================
