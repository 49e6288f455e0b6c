----------------------------- MODULE Downloads ------------------------------
(***************************************************************************)
(* Files a node fetches for installs (agent/downloads.py): a cache by hash *)
(* that all its servers share, trimmed to a limit, and fetches of the same *)
(* file that wait for each other.                                          *)
(*                                                                         *)
(* A fetch is one `one(item)` of a fetch_many(); a file is its hash.  Steps*)
(* on threads run beside everything else.                                  *)
(***************************************************************************)
EXTENDS Integers, FiniteSets, Sequences, SequencesExt

CONSTANTS
  Shas,        \* the files
  ByHand,      \* those that are fetched from nowhere (cache_only)
  Installs,    \* calls of fetch_many()
  Concurrency, \* fetches of one install at once
  Limit,       \* files the cache keeps
  Attempts,    \* ATTEMPTS
  MaxFails,    \* bound on the attempts that fail
  MaxOthers    \* bound on the copies that rot, and on those kept by hand

VARIABLES
  copy,     \* what the cache holds
  lru,      \* its files, the one used longest ago first
  users,    \* Cache.users
  lockNo,   \* which lock object Cache._locks has for a file; 0 for none
  fetch,    \* what each fetch does
  trim,     \* the files a prune() has decided to unlink
  landed,   \* what is in the server folders
  hits,     \* how often somebody else spoilt the copy a fetch goes by
  count

vars == <<copy, lru, users, lockNo, fetch, trim, landed, hits, count>>

Fetches == Installs \X Shas
Sha(p) == p[2]
Resting == [pc |-> "wait", round |-> 1, lock |-> 0, tries |-> 0, why |-> "none"]
Locks == 1 .. Cardinality(Fetches)
NewLock == CHOOSE n \in Locks : \A p \in Fetches : fetch[p].lock # n
Running == {"claim", "has", "get", "copy", "drop"}

TypeOK ==
  /\ copy \in [Shas -> {"none", "good", "rotten", "short"}]
  /\ lru \in Seq(Shas) /\ IsInjective(lru) /\ ToSet(lru) = {s \in Shas : copy[s] # "none"}
  /\ users \in [Shas -> 0 .. Cardinality(Installs)]
  /\ lockNo \in [Shas -> {0} \cup Locks]
  /\ \A p \in Fetches : fetch[p].pc \in Running \cup {"wait", "placed", "failed"} /\ fetch[p].tries \in 0 .. Attempts
  /\ trim \in [Installs -> SUBSET Shas]
  /\ landed \in [Fetches -> {"none", "good", "rotten", "short"}]

Init ==
  /\ copy = [s \in Shas |-> "none"] /\ lru = <<>>
  /\ users = [s \in Shas |-> 0] /\ lockNo = [s \in Shas |-> 0]
  /\ fetch = [p \in Fetches |-> Resting]
  /\ trim = [i \in Installs |-> {}]
  /\ landed = [p \in Fetches |-> "none"] /\ hits = [p \in Fetches |-> 0]
  /\ count = [fails |-> 0, others |-> 0, trimmed |-> {}]

Goes(p, pc) == fetch' = [fetch EXCEPT ![p].pc = pc]
Without(s) == SelectSeq(lru, LAMBDA x : x # s)
Active(s) == {p \in Fetches : Sha(p) = s /\ fetch[p].pc \in Running}

Spoilt(p) == IF hits[p] < 2 THEN hits[p] + 1 ELSE 2

\* Cache.drop(), and whoever else takes the copy away.
Unlinks(s, by) ==
  /\ copy' = [copy EXCEPT ![s] = "none"] /\ lru' = Without(s)
  /\ hits' = [p \in Fetches |-> IF copy[s] # "none" /\ p \in Active(s) \ by THEN Spoilt(p) ELSE hits[p]]
\* _place(): a checked file is moved to its name.
Places(s) == copy' = [copy EXCEPT ![s] = "good"] /\ lru' = Append(Without(s), s)
CacheSame == UNCHANGED <<copy, lru, hits>>

-----------------------------------------------------------------------------
(* Cache.claim().                                                          *)

\* fetch_many(): so many at once.  The lock of the file, made if nobody has it.
Claims(p) ==
  LET s == Sha(p)
  IN  /\ fetch[p].pc = "wait"
      /\ Cardinality({q \in Fetches : q[1] = p[1] /\ fetch[q].pc \in Running}) < Concurrency
      /\ lockNo' = [lockNo EXCEPT ![s] = IF @ = 0 THEN NewLock ELSE @]
      /\ users' = [users EXCEPT ![s] = @ + 1]
      /\ fetch' = [fetch EXCEPT ![p].pc = "claim", ![p].lock = lockNo'[s]]
      /\ UNCHANGED <<trim, landed, count>> /\ CacheSame

LockFree(n) == \A q \in Fetches : fetch[q].lock = n => fetch[q].pc \notin {"has", "get"}
Enters(p) ==
  /\ fetch[p].pc = "claim" /\ LockFree(fetch[p].lock)
  /\ Goes(p, "has")
  /\ UNCHANGED <<users, lockNo, trim, landed, count>> /\ CacheSame

\* The last one to leave takes the lock away.
Leaves(p, to, why) ==
  /\ users' = [users EXCEPT ![Sha(p)] = @ - 1]
  /\ lockNo' = [lockNo EXCEPT ![Sha(p)] = IF users[Sha(p)] = 1 THEN 0 ELSE @]
  /\ fetch' = [fetch EXCEPT ![p].pc = to, ![p].lock = 0, ![p].tries = 0, ![p].why = why]

-----------------------------------------------------------------------------
(* _fetch_one(): twice at most.                                            *)

\* Cache.has(): a copy of the right size, used just now.
FindsCopy(p) ==
  /\ fetch[p].pc = "has" /\ copy[Sha(p)] \in {"good", "rotten"}
  /\ lru' = Append(Without(Sha(p)), Sha(p))
  /\ Leaves(p, "copy", "none")
  /\ UNCHANGED <<copy, trim, landed, hits, count>>

\* None, or of another size, which goes.
FindsNone(p) ==
  LET s == Sha(p)
  IN  /\ fetch[p].pc = "has" /\ copy[s] \in {"none", "short"}
      /\ Unlinks(s, {p})
      /\ IF s \in ByHand THEN Leaves(p, "failed", "refused")
         ELSE Goes(p, "get") /\ UNCHANGED <<users, lockNo>>
      /\ UNCHANGED <<trim, landed, count>>

\* _get(): into a file beside, checked and then moved to its place.
Gets(p) ==
  /\ fetch[p].pc = "get" /\ Places(Sha(p))
  /\ Leaves(p, "copy", "none")
  /\ UNCHANGED <<trim, landed, hits, count>>

\* _download(): some answers are final, the others are tried again.
GetFails(p) ==
  /\ fetch[p].pc = "get"
  /\ count.fails < MaxFails /\ count' = [count EXCEPT !.fails = @ + 1]
  /\ \/ Leaves(p, "failed", "refused")
     \/ /\ fetch[p].tries + 1 = Attempts
        /\ Leaves(p, "failed", "tries")
     \/ /\ fetch[p].tries + 1 < Attempts
        /\ fetch' = [fetch EXCEPT ![p].tries = @ + 1] /\ UNCHANGED <<users, lockNo>>
  /\ UNCHANGED <<trim, landed>> /\ CacheSame

\* _copy_in(), without the claim: hashed on the way, and nothing lands if the
\* copy is damaged or gone by now.
Copies(p) ==
  LET s == Sha(p)
  IN  /\ fetch[p].pc = "copy"
      /\ IF copy[s] = "good" THEN fetch' = [fetch EXCEPT ![p] = [Resting EXCEPT !.pc = "placed"]] /\ landed' = [landed EXCEPT ![p] = copy[s]]
         ELSE Goes(p, "drop") /\ UNCHANGED landed
      /\ UNCHANGED <<users, lockNo, trim, count>> /\ CacheSame

\* A bug: it is fetched again, and again.
DropsForever(p) ==
  /\ fetch[p].pc = "drop"
  /\ UNCHANGED <<copy, lru, hits>>
  /\ fetch' = [fetch EXCEPT ![p].pc = "wait"]
  /\ UNCHANGED <<users, lockNo, trim, landed, count>>

\* The copy is dropped, whoever put it there, and the second round begins.
Drops(p) ==
  /\ fetch[p].pc = "drop"
  /\ Unlinks(Sha(p), {p})
  /\ fetch' = IF fetch[p].round = 1 THEN [fetch EXCEPT ![p].pc = "wait", ![p].round = 2]
              ELSE [fetch EXCEPT ![p].pc = "failed", ![p].why = "copies"]
  /\ UNCHANGED <<users, lockNo, trim, landed, count>>

-----------------------------------------------------------------------------
(* Cache.prune(), when all of an install's files are there or have failed. *)

Ended(i) == \A s \in Shas : fetch[<<i, s>>].pc \in {"placed", "failed"}

\* It looks at the files and who uses them on a thread.
PruneLooks(i) ==
  /\ Ended(i) /\ i \notin count.trimmed
  /\ trim' = [trim EXCEPT ![i] = {s \in ToSet(SubSeq(lru, 1, Len(lru) - Limit)) : users[s] = 0}]
  /\ count' = [count EXCEPT !.trimmed = @ \cup {i}]
  /\ UNCHANGED <<users, lockNo, fetch, landed>> /\ CacheSame

PruneUnlinks(i, s) ==
  /\ s \in trim[i] /\ trim' = [trim EXCEPT ![i] = @ \ {s}]
  /\ Unlinks(s, {})
  /\ UNCHANGED <<users, lockNo, fetch, landed, count>>

-----------------------------------------------------------------------------
(* Others.                                                                 *)

\* keep(): a file brought by hand.
KeepsByHand(s) ==
  /\ count.others < MaxOthers /\ count' = [count EXCEPT !.others = @ + 1]
  /\ LockFree(lockNo[s]) /\ Places(s)
  /\ UNCHANGED <<users, lockNo, fetch, trim, landed, hits>>

Rots(s, how) ==
  /\ copy[s] = "good" /\ copy' = [copy EXCEPT ![s] = how]
  /\ count.others < MaxOthers /\ count' = [count EXCEPT !.others = @ + 1]
  /\ hits' = [p \in Fetches |-> IF Sha(p) = s /\ fetch[p].pc \notin {"placed", "failed"} THEN Spoilt(p) ELSE hits[p]]
  /\ UNCHANGED <<lru, users, lockNo, fetch, trim, landed>>

FetchMoves(p) ==
  Claims(p) \/ Enters(p) \/ FindsCopy(p) \/ FindsNone(p) \/ Gets(p) \/ GetFails(p) \/ Copies(p) \/ Drops(p)

Next ==
  \/ \E p \in Fetches : FetchMoves(p)
  \/ \E i \in Installs : PruneLooks(i) \/ \E s \in Shas : PruneUnlinks(i, s)
  \/ \E s \in Shas : KeepsByHand(s) \/ \E how \in {"rotten", "short"} : Rots(s, how)

Spec == Init /\ [][Next]_vars

-----------------------------------------------------------------------------
(* Properties.                                                             *)

\* _copy_in(): whatever happens to the cache, a file in a server folder has the
\* hash it was asked for.
OnlyVerifiedLands == \A p \in Fetches : landed[p] \in {"none", "good"}

\* claim(): "one fetch downloads it while the others wait on its lock": no two
\* download the same file, though locks are made and thrown away all the time.
OneDownload ==
  \A p, q \in Fetches : p # q /\ Sha(p) = Sha(q) => {fetch[p].pc, fetch[q].pc} # {"get"}

\* _fetch_one(): "dropped, and fetched once more": a fetch gives up on copies
\* only after others have spoilt two of them under its hands.
GivesUpForCause == \A p \in Fetches : fetch[p].why = "copies" => hits[p] >= 2

\* fetch_many(): every file is in place or reported in the end.
EveryFetchEnds(p) == <>(fetch[p].pc \in {"placed", "failed"})
=============================================================================
