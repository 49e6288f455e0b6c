------------------------------ MODULE Accounts ------------------------------
(***************************************************************************)
(* The accounts of the panel (app/auth.py): transactions that change them, *)
(* and the promise that somebody can always get in as an administrator.    *)
(*                                                                         *)
(* Postgres is external: a statement sees what is committed when it begins,*)
(* FOR UPDATE waits for the rows it found one after the other and looks at *)
(* each again, and of transactions that wait in a circle one is undone.    *)
(***************************************************************************)
EXTENDS Integers, FiniteSets, FiniteSetsExt, FiniteSetTheorems, WellFoundedInduction, TLAPS

CONSTANTS
  Ids,        \* ids of accounts, numbers in the order they are locked in
  Procs,      \* requests that are handled at once
  Nobody,     \* no request
  MaxChanges  \* bound on the requests

VARIABLES
  users,   \* the committed rows
  lock,    \* which request holds a row
  tx,      \* what each request does
  changes, \* requests so far
  moved    \* who is an administrator changed while another change was made

vars == <<users, lock, tx, changes, moved>>

Absent == [role |-> "none", disabled |-> FALSE]
Row == [role : {"admin", "member"}, disabled : BOOLEAN] \cup {Absent}
Changes == {"create", "promote", "demote", "disable", "enable", "delete", "boot"}
Idle == [op |-> "none", pc |-> "idle", on |-> 0, want |-> {}, counted |-> {}]

TypeOK ==
  /\ users \in [Ids -> Row]
  /\ lock \in [Ids -> Procs \cup {Nobody}]
  /\ tx \in [Procs -> [op : Changes \cup {"none"}, pc : {"idle", "admins", "target", "guard", "boot"},
                       on : Ids \cup {0}, want : SUBSET Ids, counted : SUBSET Ids]]
  /\ changes \in 0 .. MaxChanges
  /\ moved \in BOOLEAN

Init ==
  /\ users = [u \in Ids |-> Absent]
  /\ lock = [u \in Ids |-> Nobody]
  /\ tx = [p \in Procs |-> Idle]
  /\ changes = 0
  /\ moved = FALSE

Present == {u \in Ids : users[u] # Absent}
Admins == {u \in Ids : users[u].role = "admin"}
Enabled == {u \in Admins : ~users[u].disabled}

Begins(p, op, u, step, want) ==
  /\ tx[p] = Idle /\ changes < MaxChanges
  /\ changes' = changes + 1
  /\ tx' = [tx EXCEPT ![p] = [op |-> op, pc |-> step, on |-> u, want |-> want, counted |-> {}]]
  /\ UNCHANGED <<users, lock, moved>>

\* The transaction is over, with what it wrote, and its locks with it.
Ends(p, after) ==
  /\ users' = after
  /\ lock' = [u \in Ids |-> IF lock[u] = p THEN Nobody ELSE lock[u]]
  /\ tx' = [tx EXCEPT ![p] = Idle]
  /\ moved' = (moved \/ /\ \E q \in Procs \ {p} : tx[q] # Idle
                        /\ \E u \in Ids : (after[u].role = "admin") # (u \in Admins))
  /\ UNCHANGED changes

-----------------------------------------------------------------------------
(* Making accounts.                                                        *)

\* bootstrap(): without any account the first start makes the administrator.
NeedsBootstrap(p) == Present = {} /\ Begins(p, "boot", Min(Ids), "boot", {})
Bootstraps(p) ==
  /\ tx[p].pc = "boot"
  /\ Ends(p, IF Min(Ids) \in Present THEN users
             ELSE [users EXCEPT ![Min(Ids)] = [role |-> "admin", disabled |-> FALSE]])

\* create_user(): a name that is taken is refused.
Creates(p, u, role) ==
  /\ Present # {} /\ u \notin Present /\ tx[p] = Idle /\ changes < MaxChanges
  /\ changes' = changes + 1
  /\ users' = [users EXCEPT ![u] = [role |-> role, disabled |-> FALSE]]
  /\ moved' = (moved \/ (role = "admin" /\ \E q \in Procs : tx[q] # Idle))
  /\ UNCHANGED <<lock, tx>>

-----------------------------------------------------------------------------
(* Changing them: update_user() and delete_user().                         *)

\* _lock_admins(): what could remove an administrator locks them all first.
Asks(p, op, u) ==
  /\ op \in {"promote", "demote", "disable", "enable", "delete"} /\ Present # {}
  /\ IF op = "enable" THEN Begins(p, op, u, "target", {})
     ELSE Begins(p, op, u, "admins", Admins)

Free(p, u) == lock[u] \in {Nobody, p}
Locks(p, u) == lock' = IF u \in Present THEN [lock EXCEPT ![u] = p] ELSE lock

\* FOR UPDATE, in the order of the ids; a row that went away is passed over.
LocksNext(p) ==
  /\ tx[p].pc \in {"admins", "guard"} /\ tx[p].want # {}
  /\ LET u == Min(tx[p].want)
     IN  /\ Free(p, u) /\ Locks(p, u)
         /\ tx' = [tx EXCEPT ![p].want = @ \ {u},
                             ![p].counted = IF u \in Enabled THEN @ \cup {u} ELSE @]
  /\ UNCHANGED <<users, changes, moved>>

AdminsLocked(p) ==
  /\ tx[p].pc = "admins" /\ tx[p].want = {}
  /\ tx' = [tx EXCEPT ![p].pc = "target"]
  /\ UNCHANGED <<users, lock, changes, moved>>

Removes(p) == tx[p].op \in {"demote", "disable", "delete"}

Changed(p) ==
  LET u == tx[p].on
  IN  [users EXCEPT ![u] =
         CASE tx[p].op = "promote" -> [@ EXCEPT !.role = "admin"]
           [] tx[p].op = "demote" -> [@ EXCEPT !.role = "member"]
           [] tx[p].op = "disable" -> [@ EXCEPT !.disabled = TRUE]
           [] tx[p].op = "enable" -> [@ EXCEPT !.disabled = FALSE]
           [] OTHER -> Absent]

\* The row itself.  An administrator that is to go is counted first.
LocksTarget(p) ==
  LET u == tx[p].on
  IN  /\ tx[p].pc = "target" /\ Free(p, u)
      /\ IF u \notin Present THEN Ends(p, users)
         ELSE IF Removes(p) /\ u \in Admins
         THEN /\ Locks(p, u)
              /\ tx' = [tx EXCEPT ![p].pc = "guard", ![p].want = Enabled, ![p].counted = {}]
              /\ UNCHANGED <<users, changes, moved>>
         ELSE Ends(p, Changed(p))

\* _guard_last_admin(): the only one who is left stays.
Guard(p) ==
  /\ tx[p].pc = "guard" /\ tx[p].want = {}
  /\ IF Cardinality(tx[p].counted) <= 1 /\ tx[p].on \in tx[p].counted
       THEN Ends(p, users) ELSE Ends(p, Changed(p))

\* Who waits for whom.
Awaits(p, q) ==
  /\ p # q
  /\ \/ tx[p].pc \in {"admins", "guard"} /\ tx[p].want # {} /\ lock[Min(tx[p].want)] = q
     \/ tx[p].pc = "target" /\ lock[tx[p].on] = q
\* Some wait in a circle: each of them for another, and another for each.
InCircle(p) ==
  \E circle \in SUBSET Procs :
    /\ p \in circle
    /\ \A q \in circle : (\E r \in circle : Awaits(q, r)) /\ (\E r \in circle : Awaits(r, q))

DeadlockUndone(p) == InCircle(p) /\ Ends(p, users)

Next ==
  \E p \in Procs :
    \/ NeedsBootstrap(p) \/ Bootstraps(p) \/ LocksNext(p) \/ AdminsLocked(p)
    \/ LocksTarget(p) \/ Guard(p) \/ DeadlockUndone(p)
    \/ \E u \in Ids : (\E op \in Changes : Asks(p, op, u)) \/ \E r \in {"admin", "member"} : Creates(p, u, r)

Spec == Init /\ [][Next]_vars

-----------------------------------------------------------------------------
(* Properties.                                                             *)

\* _guard_last_admin(): whatever administrators do to each other at the same
\* moment, one of them can still get in.
AlwaysAnAdmin == Present # {} => Enabled # {}

\* _lock_admins(): "Taking the whole set first, always in the same order, makes
\* them queue instead" of waiting for each other.  Only when the set itself
\* changes between two of them can they meet.
TheyQueue == ~moved => \A p \in Procs : ~InCircle(p)

\* The two together: administrators that take rights from each other keep one, and go on.
AccountsHold == AlwaysAnAdmin /\ TheyQueue
-----------------------------------------------------------------------------
(***************************************************************************)
(* Proofs.                                                                 *)
(*                                                                         *)
(* Administrators that demote, disable and delete each other at the same   *)
(* moment: one of them can always get in, and they wait for each other in  *)
(* line.  Assumed of the constants is what the table of users has: its ids *)
(* are numbers, and there are some.                                        *)
(***************************************************************************)
Sizes == /\ IsFiniteSet(Ids) /\ Ids \subseteq Nat /\ Ids # {}
         /\ MaxChanges \in Nat /\ Nobody \notin Procs

-----------------------------------------------------------------------------
(* Typing.                                                                 *)

Request == [op : Changes \cup {"none"}, pc : {"idle", "admins", "target", "guard", "boot"},
            on : Ids \cup {0}, want : SUBSET Ids, counted : SUBSET Ids]

\* The first id is one.
LEMMA FirstId == Sizes => Min(Ids) \in Ids
<1> SUFFICES ASSUME Sizes PROVE Min(Ids) \in Ids
  OBVIOUS
<1>1. PICK x \in Ids : \A y \in Ids : ~(<<y, x>> \in OpToRel(<, Nat))
  BY NatLessThanWellFounded, WFMin, Zenon DEF Sizes
<1>2. \A y \in Ids : ~(y < x)
  BY <1>1 DEF OpToRel, Sizes
<1>3. \A y \in Ids : x <= y
  BY <1>2 DEF Sizes
<1> QED
  BY <1>3 DEF Min

\* A request is over.
LEMMA EndTyped ==
  ASSUME TypeOK, NEW p \in Procs, NEW after \in [Ids -> Row], Ends(p, after)
  PROVE  TypeOK'
<1>1. Idle \in Request
  BY DEF Idle, Request
<1>2. tx' \in [Procs -> Request]
  BY <1>1 DEF TypeOK, Ends, Request
<1>3. moved' \in BOOLEAN
  BY DEF Ends
<1> QED
  BY <1>2, <1>3 DEF Ends, TypeOK, Request

\* What a change makes of the row it is about.
LEMMA ChangeTyped ==
  ASSUME TypeOK, NEW p \in Procs, tx[p].on \in Present
  PROVE  Changed(p) \in [Ids -> Row]
<1>1. /\ tx[p].on \in Ids /\ users[tx[p].on] \in Row \ {Absent} /\ Absent \in Row
  BY DEF TypeOK, Present, Row
<1>2. users[tx[p].on] \in [role : {"admin", "member"}, disabled : BOOLEAN]
  BY <1>1 DEF Row
<1> DEFINE u == tx[p].on
           row == users[u]
           new == CASE tx[p].op = "promote" -> [row EXCEPT !.role = "admin"]
                    [] tx[p].op = "demote" -> [row EXCEPT !.role = "member"]
                    [] tx[p].op = "disable" -> [row EXCEPT !.disabled = TRUE]
                    [] tx[p].op = "enable" -> [row EXCEPT !.disabled = FALSE]
                    [] OTHER -> Absent
<1>3. /\ [row EXCEPT !.role = "admin"] \in Row /\ [row EXCEPT !.role = "member"] \in Row
      /\ [row EXCEPT !.disabled = TRUE] \in Row /\ [row EXCEPT !.disabled = FALSE] \in Row
  BY <1>2 DEF Row
<1>4. new \in Row
  <2> HIDE DEF row
  <2> QED
    BY <1>1, <1>3
<1>5. Changed(p) = [users EXCEPT ![u] = new]
  BY DEF Changed
<1> HIDE DEF new
<1> QED
  BY <1>4, <1>5 DEF TypeOK

\* A request begins.
LEMMA BeginTyped ==
  ASSUME Sizes, TypeOK, NEW p \in Procs, NEW op \in Changes, NEW u \in Ids,
         NEW pc \in {"admins", "target", "boot"}, NEW want \in SUBSET Ids,
         Begins(p, op, u, pc, want)
  PROVE  TypeOK'
<1>1. [op |-> op, pc |-> pc, on |-> u, want |-> want, counted |-> {}] \in Request
  BY DEF Request
<1>2. tx' \in [Procs -> Request]
  BY <1>1 DEF TypeOK, Begins, Request
<1>3. changes' \in 0 .. MaxChanges
  BY DEF TypeOK, Begins, Sizes
<1> QED
  BY <1>2, <1>3 DEF Begins, TypeOK, Request

\* What a request has locked, and that it goes on.
LEMMA LockTyped ==
  ASSUME TypeOK, NEW p \in Procs, LocksNext(p) \/ AdminsLocked(p)
  PROVE  TypeOK'
<1>1. CASE LocksNext(p)
  <2> DEFINE u == Min(tx[p].want)
             more == IF u \in Enabled THEN tx[p].counted \cup {u} ELSE tx[p].counted
             r == [tx[p] EXCEPT !.want = @ \ {u}, !.counted = more]
  <2>1. tx[p] \in Request /\ more \in SUBSET Ids
    BY DEF TypeOK, Request, Enabled, Admins
  <2>2. r \in Request
    <3> HIDE DEF u, more
    <3> QED
      BY <2>1 DEF Request
  <2>3. tx' = [tx EXCEPT ![p] = r]
    BY <1>1 DEF LocksNext, TypeOK
  <2> HIDE DEF r
  <2>4. tx' \in [Procs -> Request]
    BY <2>2, <2>3 DEF TypeOK, Request
  <2>5. lock' \in [Ids -> Procs \cup {Nobody}]
    BY <1>1 DEF LocksNext, Locks, TypeOK
  <2> QED
    BY <1>1, <2>4, <2>5 DEF LocksNext, TypeOK, Request
<1>2. CASE AdminsLocked(p)
  BY <1>2 DEF AdminsLocked, TypeOK
<1> QED
  BY <1>1, <1>2

-----------------------------------------------------------------------------
(* Who is locked stays, and who is counted stays an administrator.          *)

Held == \A u \in Ids : lock[u] # Nobody => u \in Present

Busy ==
  \A p \in Procs :
    tx[p].pc \in {"admins", "target", "guard"} =>
      tx[p].on \in Ids /\ tx[p].op \in {"promote", "demote", "disable", "enable", "delete"}

\* Who is to go is locked, and so is everybody who was found in office.
Guarding(p) ==
  tx[p].pc = "guard" =>
    /\ Removes(p) /\ lock[tx[p].on] = p /\ tx[p].on \in Admins
    /\ \A v \in tx[p].counted : lock[v] = p /\ v \in Enabled
    /\ tx[p].on \in Enabled => tx[p].on \in tx[p].want \cup tx[p].counted

AccountsInv == TypeOK /\ Held /\ Busy /\ (\A p \in Procs : Guarding(p)) /\ AlwaysAnAdmin

\* A request that ends has changed nothing that another one holds, and has left
\* an administrator.
LEMMA EndKeeps ==
  ASSUME Sizes, AccountsInv, NEW p \in Procs, NEW after \in [Ids -> Row], Ends(p, after),
         \A v \in Ids : lock[v] \notin {Nobody, p} => after[v] = users[v],
         (\E v \in Ids : after[v] # Absent) =>
            \E v \in Ids : after[v].role = "admin" /\ ~after[v].disabled
  PROVE  AccountsInv'
<1>1. TypeOK'
  BY EndTyped DEF AccountsInv
<1>2. /\ users' = after
      /\ \A u \in Ids : lock'[u] = IF lock[u] = p THEN Nobody ELSE lock[u]
      /\ \A q \in Procs : tx'[q] = IF q = p THEN Idle ELSE tx[q]
  BY DEF Ends, AccountsInv, TypeOK
<1>3. Held'
  BY <1>2 DEF AccountsInv, Held, Present
<1>4. Busy'
  BY <1>2 DEF AccountsInv, Busy, Idle
<1>5. AlwaysAnAdmin'
  BY <1>2 DEF AlwaysAnAdmin, Present, Enabled, Admins
<1>6. ASSUME NEW q \in Procs PROVE Guarding(q)'
  <2>1. CASE q = p
    BY <1>2, <2>1 DEF Guarding, Idle
  <2>2. CASE q # p
    <3>1. tx'[q] = tx[q] /\ Guarding(q) /\ q # Nobody
      BY <1>2, <2>2 DEF AccountsInv, Sizes
    <3>2. tx[q].counted \subseteq Ids /\ (tx[q].pc = "guard" => tx[q].on \in Ids)
      BY DEF AccountsInv, TypeOK, Busy
    <3>3. \A v \in Ids : lock[v] = q => lock'[v] = q /\ users'[v] = users[v]
      BY <1>2, <2>2, <3>1
    <3> QED
      BY <3>1, <3>2, <3>3 DEF Guarding, Removes, Admins, Enabled
  <2> QED
    BY <2>1, <2>2
<1> QED
  BY <1>1, <1>3, <1>4, <1>5, <1>6 DEF AccountsInv

\* Nothing is written: a refusal, or a transaction that is undone.
LEMMA UndoneKeeps ==
  ASSUME Sizes, AccountsInv, NEW p \in Procs, Ends(p, users)
  PROVE  AccountsInv'
BY EndKeeps DEF AccountsInv, TypeOK, AlwaysAnAdmin, Present, Enabled, Admins

\* A change is written that may be: the row is this request's, and if it takes
\* an administrator away another one is locked and in office.
LEMMA ChangeKeeps ==
  ASSUME Sizes, AccountsInv, NEW p \in Procs, Ends(p, Changed(p)), tx[p].on \in Present,
         Free(p, tx[p].on), tx[p].pc \in {"target", "guard"},
         tx[p].on \in Enabled /\ Removes(p) => \E v \in Enabled : v # tx[p].on
  PROVE  AccountsInv'
<1> DEFINE u == tx[p].on
           after == Changed(p)
<1>1. TypeOK /\ AlwaysAnAdmin /\ u \in Ids /\ after \in [Ids -> Row]
  BY ChangeTyped DEF AccountsInv, Present
<1>2. \A v \in Ids : v # u => after[v] = users[v]
  BY <1>1 DEF Changed, TypeOK
<1>3. \A v \in Ids : lock[v] \notin {Nobody, p} => after[v] = users[v]
  BY <1>2 DEF Free
<1>4. u \in Enabled /\ ~Removes(p) => after[u].role = "admin" /\ ~after[u].disabled
  <2> SUFFICES ASSUME u \in Enabled, ~Removes(p) PROVE after[u].role = "admin" /\ ~after[u].disabled
    OBVIOUS
  <2>1. tx[p].op \in {"promote", "enable"}
    BY DEF AccountsInv, Busy, Removes
  <2>2. users[u] \in [role : {"admin", "member"}, disabled : BOOLEAN] /\ users[u].role = "admin"
        /\ ~users[u].disabled
    BY <1>1 DEF TypeOK, Row, Enabled, Admins, Absent
  <2>3. after[u] = IF tx[p].op = "promote" THEN [users[u] EXCEPT !.role = "admin"]
                   ELSE [users[u] EXCEPT !.disabled = FALSE]
    BY <1>1, <2>1 DEF Changed, TypeOK
  <2> QED
    BY <2>1, <2>2, <2>3
<1>5. PICK w \in Enabled : w # u \/ ~Removes(p)
  BY <1>1 DEF AlwaysAnAdmin
<1>6. w \in Ids /\ after[w].role = "admin" /\ ~after[w].disabled
  BY <1>2, <1>4, <1>5 DEF Enabled, Admins
<1>7. Ends(p, after)
  OBVIOUS
<1> HIDE DEF after
<1> QED
  BY <1>1, <1>3, <1>6, <1>7, EndKeeps

\* A request begins: nothing is locked by it yet.
LEMMA BeginKeeps ==
  ASSUME Sizes, AccountsInv, NEW p \in Procs, NEW op \in Changes, NEW u \in Ids,
         NEW pc \in {"admins", "target", "boot"}, NEW want \in SUBSET Ids,
         Begins(p, op, u, pc, want),
         pc # "boot" => op \in {"promote", "demote", "disable", "enable", "delete"}
  PROVE  AccountsInv'
<1>1. TypeOK'
  BY BeginTyped DEF AccountsInv
<1>2. UNCHANGED <<users, lock>>
  BY DEF Begins
<1> DEFINE r == [op |-> op, pc |-> pc, on |-> u, want |-> want, counted |-> {}]
<1>3. \A q \in Procs : tx'[q] = IF q = p THEN r ELSE tx[q]
  BY DEF Begins, AccountsInv, TypeOK
<1>4. Held' /\ Busy' /\ AlwaysAnAdmin'
  BY <1>2, <1>3 DEF AccountsInv, Held, Busy, AlwaysAnAdmin, Present, Enabled, Admins
<1>5. ASSUME NEW q \in Procs PROVE Guarding(q)'
  BY <1>2, <1>3 DEF AccountsInv, Guarding, Removes, Enabled, Admins
<1> QED
  BY <1>1, <1>4, <1>5 DEF AccountsInv

\* The first start, when there is nobody.
LEMMA BootKeeps ==
  ASSUME Sizes, AccountsInv, NEW p \in Procs, NeedsBootstrap(p) \/ Bootstraps(p)
  PROVE  AccountsInv'
<1>1. Min(Ids) \in Ids
  BY FirstId
<1>2. CASE NeedsBootstrap(p)
  BY <1>1, <1>2, BeginKeeps DEF NeedsBootstrap, Changes
<1>3. CASE Bootstraps(p)
  <2> DEFINE first == Min(Ids)
             after == [users EXCEPT ![first] = [role |-> "admin", disabled |-> FALSE]]
  <2>1. CASE first \in Present
    BY <1>3, <2>1, UndoneKeeps DEF Bootstraps
  <2>2. CASE first \notin Present
    <3>1. after \in [Ids -> Row] /\ after[first].role = "admin" /\ ~after[first].disabled
      BY <1>1 DEF AccountsInv, TypeOK, Row
    <3>2. \A v \in Ids : v # first => after[v] = users[v]
      BY <1>1 DEF AccountsInv, TypeOK
    <3>3. Ends(p, after)
      BY <1>3, <2>2 DEF Bootstraps
    <3>4. lock[first] = Nobody
      BY <1>1, <2>2 DEF AccountsInv, Held
    <3> HIDE DEF after, first
    <3> QED
      BY <1>1, <3>1, <3>2, <3>3, <3>4, EndKeeps DEF first
  <2> QED
    BY <2>1, <2>2
<1> QED
  BY <1>2, <1>3

\* A new account touches no other.
LEMMA CreateKeeps ==
  ASSUME Sizes, AccountsInv, NEW p \in Procs, NEW u \in Ids, NEW role \in {"admin", "member"},
         Creates(p, u, role)
  PROVE  AccountsInv'
<1>1. /\ u \notin Present /\ Present # {} /\ UNCHANGED <<lock, tx>>
      /\ users' = [users EXCEPT ![u] = [role |-> role, disabled |-> FALSE]]
  BY DEF Creates
<1>2. TypeOK'
  <2>1. [role |-> role, disabled |-> FALSE] \in Row
    BY DEF Row
  <2>2. moved' \in BOOLEAN /\ changes' \in 0 .. MaxChanges
    BY DEF Creates, AccountsInv, TypeOK, Sizes
  <2> QED
    BY <1>1, <2>1, <2>2 DEF AccountsInv, TypeOK
<1>3. \A v \in Ids : v # u => users'[v] = users[v]
  BY <1>1 DEF AccountsInv, TypeOK
<1>4. users'[u] # Absent /\ u \notin Admins
  BY <1>1 DEF AccountsInv, TypeOK, Absent, Present, Admins
<1>5. Held' /\ Busy'
  BY <1>1, <1>3, <1>4 DEF AccountsInv, Held, Busy, Present
<1>6. AlwaysAnAdmin'
  BY <1>1, <1>3, <1>4 DEF AccountsInv, AlwaysAnAdmin, Present, Enabled, Admins
<1>7. ASSUME NEW q \in Procs PROVE Guarding(q)'
  <2>1. Guarding(q) /\ tx'[q] = tx[q] /\ lock' = lock
    BY <1>1 DEF AccountsInv
  <2>2. \A v \in Admins : v \in Admins' /\ (v \in Enabled)' = (v \in Enabled)
    BY <1>3, <1>4 DEF Admins, Enabled
  <2> QED
    BY <1>3, <1>4, <2>1, <2>2 DEF Guarding, Removes, Enabled
<1> QED
  BY <1>2, <1>5, <1>6, <1>7 DEF AccountsInv

\* One more row is locked, and counted if it is in office now.
LEMMA LocksKeep ==
  ASSUME Sizes, AccountsInv, NEW p \in Procs, LocksNext(p) \/ AdminsLocked(p)
  PROVE  AccountsInv'
<1>1. TypeOK' /\ users' = users
  BY LockTyped DEF AccountsInv, LocksNext, AdminsLocked
<1>2. CASE LocksNext(p)
  <2>1. PICK u : /\ u = Min(tx[p].want) /\ Free(p, u) /\ Locks(p, u)
                 /\ tx' = [tx EXCEPT ![p].want = @ \ {u},
                             ![p].counted = IF u \in Enabled THEN @ \cup {u} ELSE @]
    BY <1>2 DEF LocksNext
  <2>2. /\ \A q \in Procs : q # p => tx'[q] = tx[q]
        /\ tx'[p].op = tx[p].op /\ tx'[p].pc = tx[p].pc /\ tx'[p].on = tx[p].on
        /\ tx'[p].want = tx[p].want \ {u}
        /\ tx'[p].counted = IF u \in Enabled THEN tx[p].counted \cup {u} ELSE tx[p].counted
    BY <2>1 DEF AccountsInv, TypeOK
  <2>3. /\ \A v \in Ids : lock'[v] = IF v = u /\ u \in Present THEN p ELSE lock[v]
        /\ u \in Present => lock[u] \in {Nobody, p}
    BY <2>1 DEF AccountsInv, TypeOK, Locks, Free
  <2>4. Held' /\ Busy' /\ AlwaysAnAdmin'
    BY <1>1, <2>2, <2>3 DEF AccountsInv, Held, Busy, AlwaysAnAdmin, Present, Enabled, Admins
  <2>5. ASSUME NEW q \in Procs PROVE Guarding(q)'
    <3>1. /\ Guarding(q) /\ q # Nobody /\ tx[q].counted \subseteq Ids
          /\ tx[q].pc = "guard" => tx[q].on \in Ids
      BY DEF AccountsInv, Sizes, TypeOK, Busy
    <3>2. Enabled' = Enabled /\ Admins' = Admins /\ Enabled \subseteq Present
      BY <1>1 DEF Enabled, Admins, Present, Absent
    <3>3. CASE q = p
      <4>1. Removes(p)' <=> Removes(p)
        BY <2>2 DEF Removes
      <4>2. \A v \in Ids : lock[v] = p => lock'[v] = p
        BY <2>3
      <4>3. u \in Enabled => lock'[u] = p
        BY <2>3, <3>2 DEF Enabled, Admins
      <4> QED
        BY <2>2, <3>1, <3>2, <3>3, <4>1, <4>2, <4>3 DEF Guarding
    <3>4. CASE q # p
      <4>1. \A v \in Ids : lock[v] = q => lock'[v] = q
        BY <2>3, <3>1, <3>4
      <4> QED
        BY <2>2, <3>1, <3>2, <3>4, <4>1 DEF Guarding, Removes
    <3> QED
      BY <3>3, <3>4
  <2> QED
    BY <1>1, <2>4, <2>5 DEF AccountsInv
<1>3. CASE AdminsLocked(p)
  <2>1. /\ lock' = lock
        /\ \A q \in Procs : q # p => tx'[q] = tx[q]
        /\ tx'[p].op = tx[p].op /\ tx'[p].on = tx[p].on /\ tx'[p].pc = "target"
        /\ tx[p].pc = "admins"
    BY <1>3 DEF AdminsLocked, AccountsInv, TypeOK
  <2>2. Held' /\ Busy' /\ AlwaysAnAdmin'
    BY <1>1, <2>1 DEF AccountsInv, Held, Busy, AlwaysAnAdmin, Present, Enabled, Admins
  <2>3. ASSUME NEW q \in Procs PROVE Guarding(q)'
    BY <1>1, <2>1 DEF AccountsInv, Guarding, Removes, Enabled, Admins
  <2> QED
    BY <1>1, <2>2, <2>3 DEF AccountsInv
<1> QED
  BY <1>2, <1>3

\* The row itself is locked, and who is to go is counted among the others.
LEMMA TargetKeeps ==
  ASSUME Sizes, AccountsInv, NEW p \in Procs, LocksTarget(p)
  PROVE  AccountsInv'
<1>1. /\ TypeOK /\ tx[p].pc = "target" /\ Free(p, tx[p].on) /\ tx[p].on \in Ids
  BY DEF LocksTarget, AccountsInv, Busy
<1>2. CASE tx[p].on \notin Present
  BY <1>2, UndoneKeeps DEF LocksTarget
<1>3. CASE tx[p].on \in Present /\ ~(Removes(p) /\ tx[p].on \in Admins)
  <2>1. Ends(p, Changed(p)) /\ ~(Removes(p) /\ tx[p].on \in Enabled)
    BY <1>3 DEF LocksTarget, Enabled
  <2> QED
    BY <1>1, <1>3, <2>1, ChangeKeeps
<1>4. CASE tx[p].on \in Present /\ Removes(p) /\ tx[p].on \in Admins
  <2>1. PICK u \in Ids : u = tx[p].on
    BY <1>1
  <2>2. /\ lock' = [lock EXCEPT ![u] = p] /\ users' = users /\ UNCHANGED <<changes, moved>>
        /\ tx' = [tx EXCEPT ![p].pc = "guard", ![p].want = Enabled, ![p].counted = {}]
    BY <1>4, <2>1 DEF LocksTarget, Locks
  <2>3. TypeOK'
    <3>1. Enabled \in SUBSET Ids
      BY DEF Enabled, Admins
    <3> DEFINE r == [tx[p] EXCEPT !.pc = "guard", !.want = Enabled, !.counted = {}]
    <3>2. tx[p] \in Request
      BY <1>1 DEF TypeOK, Request
    <3>3. r \in Request /\ tx' = [tx EXCEPT ![p] = r]
      BY <1>1, <2>2, <3>1, <3>2 DEF TypeOK, Request
    <3> HIDE DEF r
    <3>4. tx' \in [Procs -> Request]
      BY <1>1, <3>3 DEF TypeOK, Request
    <3> QED
      BY <1>1, <2>2, <3>4 DEF TypeOK, Request
  <2>4. /\ \A q \in Procs : q # p => tx'[q] = tx[q]
        /\ tx'[p].op = tx[p].op /\ tx'[p].on = u /\ tx'[p].pc = "guard"
        /\ tx'[p].want = Enabled /\ tx'[p].counted = {}
        /\ \A v \in Ids : lock'[v] = IF v = u THEN p ELSE lock[v]
    BY <1>1, <2>1, <2>2 DEF TypeOK
  <2>5. Held' /\ Busy' /\ AlwaysAnAdmin'
    BY ZenonT(40), <1>1, <1>4, <2>1, <2>2, <2>4 DEF AccountsInv, Held, Busy, AlwaysAnAdmin, Present, Enabled, Admins
  <2>6. Enabled' = Enabled /\ Admins' = Admins
    BY <2>2 DEF Enabled, Admins
  <2>7. ASSUME NEW q \in Procs PROVE Guarding(q)'
    <3>1. CASE q = p
      BY <1>4, <2>1, <2>4, <2>6, <3>1 DEF Guarding, Removes
    <3>2. CASE q # p
      <4>1. /\ Guarding(q) /\ q # Nobody /\ tx[q].counted \subseteq Ids
            /\ tx[q].pc = "guard" => tx[q].on \in Ids
        BY DEF AccountsInv, Sizes, TypeOK, Busy
      <4>2. \A v \in Ids : lock[v] = q => lock'[v] = q
        BY <1>1, <2>1, <2>4, <3>2, <4>1 DEF Free
      <4> QED
        BY <2>4, <2>6, <3>2, <4>1, <4>2 DEF Guarding, Removes
    <3> QED
      BY <3>1, <3>2
  <2> QED
    BY <2>3, <2>5, <2>7 DEF AccountsInv
<1> QED
  BY <1>2, <1>3, <1>4

\* Who is the only one counted stays; of two that are counted one stays.
LEMMA GuardKeeps ==
  ASSUME Sizes, AccountsInv, NEW p \in Procs, Guard(p)
  PROVE  AccountsInv'
<1> DEFINE u == tx[p].on
           counted == tx[p].counted
<1>1. /\ tx[p].pc = "guard" /\ tx[p].want = {} /\ Guarding(p) /\ counted \subseteq Ids /\ u \in Ids
  BY DEF Guard, AccountsInv, TypeOK, Busy
<1>2. CASE Cardinality(counted) <= 1 /\ u \in counted
  BY <1>2, UndoneKeeps DEF Guard
<1>3. CASE ~(Cardinality(counted) <= 1 /\ u \in counted)
  <2>1. Ends(p, Changed(p)) /\ u \in Present /\ Free(p, u)
    BY <1>1, <1>3 DEF Guard, Guarding, Free, Present, Admins, Absent
  <2>2. ASSUME u \in Enabled PROVE \E v \in Enabled : v # u
    <3>1. u \in counted
      BY <1>1, <2>2 DEF Guarding
    <3>2. IsFiniteSet(counted) /\ Cardinality(counted) \in Nat
      BY <1>1, FS_Subset, FS_CardinalityType DEF Sizes
    <3>3. counted # {u}
      BY <1>3, <3>1, <3>2, FS_Singleton
    <3>4. PICK v \in counted : v # u
      BY <3>1, <3>3
    <3> QED
      BY <1>1, <3>4 DEF Guarding
  <2> QED
    BY <1>1, <2>1, <2>2, ChangeKeeps
<1> QED
  BY <1>2, <1>3

LEMMA AccountsStep == Sizes /\ AccountsInv /\ [Next]_vars => AccountsInv'
<1> SUFFICES ASSUME Sizes, AccountsInv, [Next]_vars PROVE AccountsInv'
  OBVIOUS
<1>1. CASE UNCHANGED vars
  <2>1. UNCHANGED <<users, lock, tx, changes, moved>>
    BY <1>1 DEF vars
  <2>2. TypeOK' /\ Held' /\ Busy' /\ AlwaysAnAdmin'
    BY <2>1 DEF AccountsInv, TypeOK, Held, Busy, AlwaysAnAdmin, Present, Enabled, Admins
  <2>3. ASSUME NEW q \in Procs PROVE Guarding(q)'
    BY <2>1 DEF AccountsInv, Guarding, Removes, Enabled, Admins
  <2> QED
    BY <2>2, <2>3 DEF AccountsInv
<1>2. ASSUME NEW p \in Procs,
             \/ NeedsBootstrap(p) \/ Bootstraps(p) \/ LocksNext(p) \/ AdminsLocked(p)
             \/ LocksTarget(p) \/ Guard(p) \/ DeadlockUndone(p)
      PROVE  AccountsInv'
  <2>1. CASE NeedsBootstrap(p) \/ Bootstraps(p)
    BY <2>1, BootKeeps
  <2>2. CASE LocksNext(p) \/ AdminsLocked(p)
    BY <2>2, LocksKeep
  <2>3. CASE LocksTarget(p) \/ Guard(p)
    BY <2>3, TargetKeeps, GuardKeeps
  <2>4. CASE DeadlockUndone(p)
    BY <2>4, UndoneKeeps DEF DeadlockUndone
  <2> QED
    BY <1>2, <2>1, <2>2, <2>3, <2>4
<1>3. ASSUME NEW p \in Procs, NEW u \in Ids, NEW op \in Changes, Asks(p, op, u)
      PROVE  AccountsInv'
  <2>1. PICK want \in SUBSET Ids, pc \in {"admins", "target"} : Begins(p, op, u, pc, want)
    BY <1>3 DEF Asks, Admins
  <2> QED
    BY <1>3, <2>1, BeginKeeps DEF Asks
<1>4. ASSUME NEW p \in Procs, NEW u \in Ids, NEW role \in {"admin", "member"}, Creates(p, u, role)
      PROVE  AccountsInv'
  BY <1>4, CreateKeeps
<1> QED
  BY <1>1, <1>2, <1>3, <1>4 DEF Next

LEMMA AccountsBegin == Sizes /\ Init => AccountsInv
<1> SUFFICES ASSUME Sizes, Init PROVE AccountsInv
  OBVIOUS
<1>1. TypeOK
  <2>1. Absent \in Row /\ Idle \in Request
    BY DEF Row, Idle, Request
  <2>2. tx \in [Procs -> Request] /\ changes \in 0 .. MaxChanges
    BY <2>1 DEF Init, Sizes
  <2> QED
    BY <2>1, <2>2 DEF Init, TypeOK, Request
<1>2. Held /\ Busy /\ AlwaysAnAdmin
  BY DEF Init, Held, Busy, AlwaysAnAdmin, Present, Idle
<1>3. \A p \in Procs : Guarding(p)
  BY DEF Init, Guarding, Idle
<1> QED
  BY <1>1, <1>2, <1>3 DEF AccountsInv

\* While there are accounts somebody can get in as an administrator, whatever any
\* number of requests do to any number of accounts at the same moment
\* (_lock_admins and _guard_last_admin): who counts as left is locked until the
\* count has been acted on.
THEOREM AnAdminStays == ASSUME Sizes PROVE Spec => []AlwaysAnAdmin
<1>1. AccountsInv => AlwaysAnAdmin
  BY DEF AccountsInv
<1>2. Init => AccountsInv
  BY AccountsBegin
<1>3. AccountsInv /\ [Next]_vars => AccountsInv'
  BY AccountsStep
<1> QED
  BY <1>1, <1>2, <1>3, PTL DEF Spec

\* Every variable keeps its type.
THEOREM AccountsTyped == ASSUME Sizes PROVE Spec => []TypeOK
<1>1. AccountsInv => TypeOK
  BY DEF AccountsInv
<1>2. Init => AccountsInv
  BY AccountsBegin
<1>3. AccountsInv /\ [Next]_vars => AccountsInv'
  BY AccountsStep
<1> QED
  BY <1>1, <1>2, <1>3, PTL DEF Spec

-----------------------------------------------------------------------------
(* Who locks administrators waits only for somebody further on.            *)

\* The first of some ids.
LEMMA FirstOf ==
  ASSUME Sizes, NEW S \in SUBSET Ids, S # {}
  PROVE  Min(S) \in S /\ \A y \in S : Min(S) <= y
<1>1. PICK x \in S : \A y \in S : ~(<<y, x>> \in OpToRel(<, Nat))
  BY NatLessThanWellFounded, WFMin, Zenon DEF Sizes
<1>2. \A y \in S : ~(y < x)
  BY <1>1 DEF OpToRel, Sizes
<1>3. \A y \in S : x <= y
  BY <1>2 DEF Sizes
<1> QED
  BY <1>3 DEF Min

Locking == {"admins", "target", "guard"}

\* A request has locked its administrators from the first one on, all of them before it
\* goes for its row, and nothing if it cannot take an office away.
InOrder(p) ==
  /\ tx[p].pc \notin Locking \/ tx[p].op = "enable" => \A u \in Ids : lock[u] # p
  /\ tx[p].pc \in Locking /\ tx[p].op # "enable" =>
       /\ tx[p].want \subseteq Admins
       /\ \A u \in Admins : lock[u] = p \/ (tx[p].pc = "admins" /\ u \in tx[p].want)
  /\ tx[p].pc = "admins" =>
       /\ tx[p].op # "enable"
       /\ \A u \in Ids, w \in tx[p].want : lock[u] = p => u < w

Orderly == ~moved => /\ \A u \in Ids : lock[u] # Nobody => u \in Admins
                     /\ \A p \in Procs : InOrder(p)

\* Who is waited for, and waits, is on its way through the administrators.
LEMMA MiddleOfCircle ==
  ASSUME Sizes, AccountsInv, Orderly, ~moved, NEW p \in Procs,
         NEW a \in Procs, Awaits(a, p), NEW b \in Procs, Awaits(p, b)
  PROVE  tx[p].pc = "admins" /\ tx[p].want # {} /\ lock[Min(tx[p].want)] = b
<1>1. InOrder(p) /\ p # b /\ p # Nobody /\ b # Nobody /\ tx[p].want \subseteq Ids
  BY DEF Orderly, Awaits, Sizes, AccountsInv, TypeOK
<1>2. \E u \in Ids : lock[u] = p
  <2>1. CASE tx[a].pc \in {"admins", "guard"} /\ tx[a].want # {} /\ lock[Min(tx[a].want)] = p
    <3>1. tx[a].want \in SUBSET Ids
      BY DEF AccountsInv, TypeOK
    <3> QED
      BY <2>1, <3>1, FirstOf
  <2>2. CASE tx[a].pc = "target" /\ lock[tx[a].on] = p
    BY <2>2 DEF AccountsInv, Busy
  <2> QED
    BY <2>1, <2>2 DEF Awaits
<1>3. tx[p].pc \in Locking /\ tx[p].op # "enable"
  BY <1>1, <1>2 DEF InOrder
<1>4. CASE tx[p].pc \in {"admins", "guard"} /\ tx[p].want # {} /\ lock[Min(tx[p].want)] = b
  <2>1. Min(tx[p].want) \in Admins
    BY <1>1, <1>3, <1>4, FirstOf DEF InOrder
  <2> QED
    BY <1>1, <1>3, <1>4, <2>1 DEF InOrder
<1>5. CASE tx[p].pc = "target" /\ lock[tx[p].on] = b
  <2>1. tx[p].on \in Admins
    BY <1>1, <1>5 DEF Orderly, AccountsInv, Busy
  <2> QED
    BY <1>1, <1>3, <1>5, <2>1 DEF InOrder
<1> QED
  BY <1>4, <1>5 DEF Awaits

LEMMA OrderlyQueues ==
  ASSUME Sizes, AccountsInv, Orderly
  PROVE  TheyQueue
<1> SUFFICES ASSUME ~moved, NEW circle \in SUBSET Procs, circle # {},
                    \A q \in circle : /\ \E r \in circle : Awaits(q, r)
                                      /\ \E r \in circle : Awaits(r, q)
             PROVE  FALSE
  BY DEF TheyQueue, InCircle
<1> DEFINE next == [q \in circle |-> Min(tx[q].want)]
           all == {next[q] : q \in circle}
<1>1. \A q \in circle : /\ tx[q].pc = "admins" /\ tx[q].want # {} /\ tx[q].want \in SUBSET Ids
                        /\ next[q] \in tx[q].want
                        /\ \A r \in circle : Awaits(q, r) => lock[next[q]] = r
  <2> SUFFICES ASSUME NEW q \in circle
               PROVE  /\ tx[q].pc = "admins" /\ tx[q].want # {} /\ tx[q].want \in SUBSET Ids
                      /\ next[q] \in tx[q].want
                      /\ \A r \in circle : Awaits(q, r) => lock[next[q]] = r
    OBVIOUS
  <2>1. tx[q].pc = "admins" /\ tx[q].want # {}
        /\ \A r \in circle : Awaits(q, r) => lock[next[q]] = r
    BY MiddleOfCircle
  <2>2. tx[q].want \in SUBSET Ids
    BY DEF AccountsInv, TypeOK
  <2> QED
    BY <2>1, <2>2, FirstOf
<1>2. all \in SUBSET Ids /\ all # {} /\ \A q \in circle : next[q] \in Nat
  <2> HIDE DEF next
  <2>1. \A q \in circle : next[q] \in Ids
    BY <1>1
  <2> QED
    BY <2>1 DEF Sizes
<1>3. PICK q \in circle : \A r \in circle : next[q] <= next[r]
  <2> HIDE DEF next
  <2>1. Min(all) \in all /\ \A y \in all : Min(all) <= y
    BY <1>2, FirstOf
  <2>2. PICK q \in circle : next[q] = Min(all)
    BY <2>1
  <2>3. \A r \in circle : next[r] \in all
    OBVIOUS
  <2>4. \A r \in circle : next[q] <= next[r]
    BY <2>1, <2>2, <2>3
  <2> QED
    BY <2>4
<1>4. PICK a \in circle : Awaits(a, q)
  BY <1>3
<1>5. lock[next[a]] = q /\ next[a] \in Ids /\ next[q] \in tx[q].want /\ tx[q].pc = "admins"
      /\ next[q] \in Ids
  BY <1>1, <1>4
<1>6. next[a] < next[q]
  <2> HIDE DEF next
  <2> QED
    BY <1>5 DEF Orderly, InOrder
<1>7. next[q] <= next[a]
  BY <1>3
<1> HIDE DEF next
<1> QED
  BY <1>2, <1>6, <1>7

\* A request that ends, and changes who is an administrator only when it is alone.
LEMMA EndStaysOrderly ==
  ASSUME Sizes, AccountsInv, Orderly, NEW p \in Procs, NEW after \in [Ids -> Row], Ends(p, after)
  PROVE  Orderly'
<1> SUFFICES ASSUME ~moved' PROVE Orderly'
  BY DEF Orderly
<1>1. /\ users' = after
      /\ \A u \in Ids : lock'[u] = IF lock[u] = p THEN Nobody ELSE lock[u]
      /\ \A q \in Procs : tx'[q] = IF q = p THEN Idle ELSE tx[q]
  BY DEF Ends, AccountsInv, TypeOK
<1>2. /\ ~moved
      /\ \/ \A q \in Procs \ {p} : tx[q] = Idle
         \/ \A u \in Ids : (after[u].role = "admin") = (u \in Admins)
  BY DEF Ends
<1>3. /\ \A u \in Ids : lock[u] # Nobody => u \in Admins
      /\ \A q \in Procs : InOrder(q)
      /\ \A u \in Ids : lock[u] \in Procs \cup {Nobody}
  BY <1>2 DEF Orderly, AccountsInv, TypeOK
<1>4. CASE \A q \in Procs \ {p} : tx[q] = Idle
  <2>1. \A q \in Procs : tx'[q] = Idle /\ Idle.pc \notin Locking /\ Idle.pc # "admins"
    BY <1>1, <1>4 DEF Idle, Locking
  <2>2. \A u \in Ids : lock'[u] = Nobody
    <3>1. \A q \in Procs \ {p} : \A u \in Ids : lock[u] # q
      BY <1>3, <1>4, <2>1 DEF InOrder
    <3> QED
      BY <1>1, <1>3, <3>1
  <2>3. \A q \in Procs : InOrder(q)'
    BY <2>1, <2>2 DEF InOrder, Sizes
  <2> QED
    BY <2>2, <2>3 DEF Orderly
<1>5. CASE \A u \in Ids : (after[u].role = "admin") = (u \in Admins)
  <2>1. Admins' = Admins
    BY <1>1, <1>5 DEF Admins
  <2>2. \A u \in Ids : lock'[u] # Nobody => u \in Admins'
    BY <1>1, <1>3, <2>1
  <2>3. ASSUME NEW q \in Procs PROVE InOrder(q)'
    <3>1. InOrder(q) /\ q # Nobody
      BY <1>3 DEF Sizes
    <3>2. CASE q = p
      BY <1>1, <3>1, <3>2 DEF InOrder, Idle, Locking
    <3>3. CASE q # p
      <4>1. tx'[q] = tx[q] /\ \A u \in Ids : (lock'[u] = q) = (lock[u] = q)
        BY <1>1, <3>1, <3>3
      <4>2. Admins \subseteq Ids /\ tx[q].want \subseteq Ids
        BY DEF Admins, AccountsInv, TypeOK
      <4> QED
        BY <2>1, <3>1, <4>1, <4>2 DEF InOrder
    <3> QED
      BY <3>2, <3>3
  <2> QED
    BY <2>2, <2>3 DEF Orderly
<1> QED
  BY <1>2, <1>4, <1>5

\* Accounts, locks and marks are as they were, and only one request has moved on.
LEMMA OthersInOrder ==
  ASSUME Sizes, AccountsInv, Orderly, ~moved, NEW p \in Procs, users' = users,
         \A q \in Procs : q # p => tx'[q] = tx[q],
         \A u \in Ids : lock'[u] # lock[u] => lock[u] = Nobody /\ lock'[u] = p,
         \A u \in Ids : lock'[u] = p => u \in Admins,
         InOrder(p)'
  PROVE  Orderly'
<1>1. Admins' = Admins /\ Admins \subseteq Ids
  BY DEF Admins
<1>2. \A u \in Ids : lock'[u] # Nobody => u \in Admins'
  BY <1>1 DEF Orderly
<1>3. ASSUME NEW q \in Procs, q # p PROVE InOrder(q)'
  <2>1. InOrder(q) /\ tx'[q] = tx[q] /\ q # Nobody
    BY <1>3 DEF Orderly, Sizes
  <2>2. \A u \in Ids : (lock'[u] = q) = (lock[u] = q)
    BY <1>3, <2>1
  <2>3. tx[q].want \subseteq Ids
    BY DEF AccountsInv, TypeOK
  <2> QED
    BY <1>1, <2>1, <2>2, <2>3 DEF InOrder
<1> QED
  BY <1>2, <1>3 DEF Orderly

LEMMA BeginStaysOrderly ==
  ASSUME Sizes, AccountsInv, Orderly, NEW p \in Procs, NEW op, NEW u, NEW pc, NEW want,
         Begins(p, op, u, pc, want),
         \/ pc = "boot"
         \/ op = "enable" /\ pc = "target"
         \/ op # "enable" /\ pc = "admins" /\ want = Admins
  PROVE  Orderly'
<1> SUFFICES ASSUME ~moved PROVE Orderly'
  BY DEF Begins, Orderly
<1>1. /\ users' = users /\ lock' = lock /\ tx[p] = Idle
      /\ \A q \in Procs : q # p => tx'[q] = tx[q]
      /\ tx'[p] = [op |-> op, pc |-> pc, on |-> u, want |-> want, counted |-> {}]
  BY DEF Begins, AccountsInv, TypeOK
<1>2. \A v \in Ids : lock[v] # p
  BY <1>1 DEF Orderly, InOrder, Idle, Locking
<1>3. Admins' = Admins /\ Admins \subseteq Ids
  BY <1>1 DEF Admins
<1>4. InOrder(p)'
  BY <1>1, <1>2, <1>3 DEF InOrder, Locking
<1> QED
  BY <1>1, <1>2, <1>4, OthersInOrder

LEMMA CreateStaysOrderly ==
  ASSUME Sizes, AccountsInv, Orderly, NEW p \in Procs, NEW u \in Ids,
         NEW role \in {"admin", "member"}, Creates(p, u, role)
  PROVE  Orderly'
<1> SUFFICES ASSUME ~moved' PROVE Orderly'
  BY DEF Orderly
<1>1. /\ UNCHANGED <<lock, tx>> /\ ~moved /\ u \notin Admins
      /\ (role = "member" \/ \A q \in Procs : tx[q] = Idle)
  <2>1. UNCHANGED <<lock, tx>> /\ users[u] = Absent
    BY DEF Creates, Present
  <2>2. u \notin Admins
    BY <2>1 DEF Admins, Absent
  <2>3. ~moved /\ (role = "member" \/ \A q \in Procs : tx[q] = Idle)
    BY DEF Creates
  <2> QED
    BY <2>1, <2>2, <2>3
<1>2. /\ \A v \in Ids : v # u => users'[v] = users[v]
      /\ users'[u].role = role
  BY DEF Creates, AccountsInv, TypeOK
<1>3. Admins \subseteq Ids /\ Admins' \subseteq Ids
  BY DEF Admins
<1>4. CASE role = "member"
  <2>1. Admins' = Admins
    BY <1>1, <1>2, <1>4 DEF Admins
  <2>2. \A q \in Procs : InOrder(q)'
    BY <1>1, <2>1 DEF Orderly, InOrder
  <2> QED
    BY <1>1, <2>1, <2>2 DEF Orderly
<1>5. CASE \A q \in Procs : tx[q] = Idle
  <2>1. \A q \in Procs : \A v \in Ids : lock[v] # q
    BY <1>1, <1>5 DEF Orderly, InOrder, Idle, Locking
  <2>2. \A v \in Ids : lock'[v] = Nobody
    BY <1>1, <2>1 DEF AccountsInv, TypeOK
  <2>3. \A q \in Procs : InOrder(q)'
    BY <1>1, <1>5, <2>2 DEF InOrder, Idle, Locking, Sizes
  <2> QED
    BY <2>2, <2>3 DEF Orderly
<1> QED
  BY <1>1, <1>4, <1>5

LEMMA LocksStayOrderly ==
  ASSUME Sizes, AccountsInv, Orderly, NEW p \in Procs, LocksNext(p) \/ AdminsLocked(p)
  PROVE  Orderly'
<1> SUFFICES ASSUME ~moved PROVE Orderly'
  BY DEF LocksNext, AdminsLocked, Orderly
<1>1. /\ InOrder(p) /\ p # Nobody /\ tx[p].want \in SUBSET Ids /\ tx[p].pc \in Locking
      /\ users' = users
  BY DEF Orderly, Sizes, AccountsInv, TypeOK, LocksNext, AdminsLocked, Locking
<1>2. tx[p].op # "enable"
  BY <1>1 DEF InOrder, LocksNext, AdminsLocked, AccountsInv, Guarding, Removes
<1>3. Admins' = Admins /\ Admins \subseteq Ids /\ Admins \subseteq Present
  BY <1>1 DEF Admins, Present, Absent
<1>4. CASE LocksNext(p)
  <2>1. PICK u : /\ u = Min(tx[p].want) /\ Free(p, u) /\ Locks(p, u)
                 /\ tx' = [tx EXCEPT ![p].want = @ \ {u},
                             ![p].counted = IF u \in Enabled THEN @ \cup {u} ELSE @]
    BY <1>4 DEF LocksNext
  <2>2. u \in Admins /\ u \in tx[p].want /\ \A w \in tx[p].want : u <= w
    BY <1>1, <1>2, <1>4, <2>1, FirstOf DEF InOrder, LocksNext
  <2>3. /\ \A q \in Procs : q # p => tx'[q] = tx[q]
        /\ tx'[p].op = tx[p].op /\ tx'[p].pc = tx[p].pc
        /\ tx'[p].want = tx[p].want \ {u}
    BY <2>1 DEF AccountsInv, TypeOK
  <2>4. /\ \A v \in Ids : lock'[v] = IF v = u THEN p ELSE lock[v]
        /\ lock[u] \in {Nobody, p}
    BY <1>3, <2>1, <2>2 DEF AccountsInv, TypeOK, Locks, Free
  <2>5. InOrder(p)'
    <3>1. \A v \in Admins : lock'[v] = p \/ (tx'[p].pc = "admins" /\ v \in tx'[p].want)
      BY <1>1, <1>2, <1>3, <2>3, <2>4 DEF InOrder
    <3>2. tx'[p].want \subseteq Admins
      BY <1>1, <1>2, <2>3 DEF InOrder
    <3>3. ASSUME tx[p].pc = "admins", NEW v \in Ids, NEW w \in tx'[p].want, lock'[v] = p
          PROVE  v < w
      <4>1. w \in tx[p].want /\ w # u /\ u \in Nat /\ w \in Nat /\ u <= w
        BY <1>1, <2>2, <2>3, <3>3 DEF Sizes
      <4>2. CASE v = u
        BY <4>1, <4>2
      <4>3. CASE v # u
        BY <1>1, <2>4, <3>3, <4>1, <4>3 DEF InOrder
      <4> QED
        BY <4>2, <4>3
    <3> QED
      BY <1>1, <1>2, <1>3, <2>3, <3>1, <3>2, <3>3 DEF InOrder
  <2>6. \A v \in Ids : lock'[v] = p => v \in Admins
    BY <1>1, <2>2, <2>4 DEF Orderly
  <2> QED
    BY <1>1, <2>3, <2>4, <2>5, <2>6, OthersInOrder
<1>5. CASE AdminsLocked(p)
  <2>1. /\ lock' = lock /\ tx[p].pc = "admins" /\ tx[p].want = {}
        /\ \A q \in Procs : q # p => tx'[q] = tx[q]
        /\ tx'[p].op = tx[p].op /\ tx'[p].want = tx[p].want /\ tx'[p].pc = "target"
    BY <1>5 DEF AdminsLocked, AccountsInv, TypeOK
  <2>2. InOrder(p)'
    BY <1>1, <1>2, <1>3, <2>1 DEF InOrder, Locking
  <2>3. \A v \in Ids : lock'[v] = p => v \in Admins
    BY <1>1, <2>1 DEF Orderly
  <2> QED
    BY <1>1, <2>1, <2>2, <2>3, OthersInOrder
<1> QED
  BY <1>4, <1>5

LEMMA TargetStaysOrderly ==
  ASSUME Sizes, AccountsInv, Orderly, NEW p \in Procs, LocksTarget(p)
  PROVE  Orderly'
<1> DEFINE u == tx[p].on
<1>1. /\ tx[p].pc = "target" /\ u \in Ids /\ users \in [Ids -> Row]
  BY DEF LocksTarget, AccountsInv, Busy, TypeOK
<1>2. CASE u \notin Present
  BY <1>1, <1>2, EndStaysOrderly DEF LocksTarget
<1>3. CASE u \in Present /\ ~(Removes(p) /\ u \in Admins)
  <2>1. Ends(p, Changed(p)) /\ Changed(p) \in [Ids -> Row]
    BY <1>3, ChangeTyped DEF LocksTarget, AccountsInv
  <2> QED
    BY <2>1, EndStaysOrderly
<1>4. CASE u \in Present /\ Removes(p) /\ u \in Admins
  <2> SUFFICES ASSUME ~moved PROVE Orderly'
    BY <1>4 DEF LocksTarget, Orderly
  <2>1. /\ users' = users
        /\ \A q \in Procs : q # p => tx'[q] = tx[q]
        /\ tx'[p].op = tx[p].op /\ tx'[p].pc = "guard" /\ tx'[p].want = Enabled
        /\ \A v \in Ids : lock'[v] = IF v = u THEN p ELSE lock[v]
    BY <1>1, <1>4 DEF LocksTarget, Locks, AccountsInv, TypeOK
  <2>2. /\ InOrder(p) /\ tx[p].op # "enable" /\ p # Nobody
        /\ \A v \in Ids : lock[v] # Nobody => v \in Admins
    BY <1>4 DEF Orderly, Removes, Sizes
  <2>3. Admins' = Admins /\ Admins \subseteq Ids /\ Enabled \subseteq Admins
    BY <2>1 DEF Admins, Enabled
  <2>4. \A v \in Admins : lock[v] = p /\ lock'[v] = p
    BY <1>1, <2>1, <2>2, <2>3 DEF InOrder, Locking
  <2>5. InOrder(p)'
    BY <2>1, <2>2, <2>3, <2>4 DEF InOrder, Locking
  <2>6. \A v \in Ids : lock'[v] # lock[v] => lock[v] = Nobody /\ lock'[v] = p
    BY <1>4, <2>1, <2>4
  <2>7. \A v \in Ids : lock'[v] = p => v \in Admins
    BY <1>4, <2>1, <2>2
  <2> QED
    BY <2>1, <2>5, <2>6, <2>7, OthersInOrder
<1> QED
  BY <1>2, <1>3, <1>4

LEMMA OthersStayOrderly ==
  ASSUME Sizes, AccountsInv, Orderly, NEW p \in Procs,
         NeedsBootstrap(p) \/ Bootstraps(p) \/ Guard(p) \/ DeadlockUndone(p)
  PROVE  Orderly'
<1>1. users \in [Ids -> Row]
  BY DEF AccountsInv, TypeOK
<1>2. CASE NeedsBootstrap(p)
  BY <1>2, BeginStaysOrderly DEF NeedsBootstrap
<1>3. CASE Bootstraps(p)
  <2>1. [users EXCEPT ![Min(Ids)] = [role |-> "admin", disabled |-> FALSE]] \in [Ids -> Row]
    BY <1>1 DEF Row
  <2> QED
    BY <1>1, <1>3, <2>1, EndStaysOrderly DEF Bootstraps
<1>4. CASE Guard(p)
  <2>1. tx[p].on \in Present
    BY <1>4 DEF Guard, AccountsInv, Guarding, Admins, Present, Absent
  <2>2. Changed(p) \in [Ids -> Row]
    BY <2>1, ChangeTyped DEF AccountsInv
  <2> QED
    BY <1>1, <1>4, <2>2, EndStaysOrderly DEF Guard
<1>5. CASE DeadlockUndone(p)
  BY <1>1, <1>5, EndStaysOrderly DEF DeadlockUndone
<1> QED
  BY <1>2, <1>3, <1>4, <1>5

LEMMA OrderlyStep == Sizes /\ AccountsInv /\ Orderly /\ [Next]_vars => Orderly'
<1> SUFFICES ASSUME Sizes, AccountsInv, Orderly, [Next]_vars PROVE Orderly'
  OBVIOUS
<1>1. CASE UNCHANGED vars
  BY <1>1 DEF vars, Orderly, InOrder, Admins
<1>2. ASSUME NEW p \in Procs,
             \/ NeedsBootstrap(p) \/ Bootstraps(p) \/ LocksNext(p) \/ AdminsLocked(p)
             \/ LocksTarget(p) \/ Guard(p) \/ DeadlockUndone(p)
      PROVE  Orderly'
  BY <1>2, LocksStayOrderly, TargetStaysOrderly, OthersStayOrderly
<1>3. ASSUME NEW p \in Procs, NEW u \in Ids, NEW op \in Changes, Asks(p, op, u)
      PROVE  Orderly'
  BY <1>3, BeginStaysOrderly DEF Asks
<1>4. ASSUME NEW p \in Procs, NEW u \in Ids, NEW role \in {"admin", "member"}, Creates(p, u, role)
      PROVE  Orderly'
  BY <1>4, CreateStaysOrderly
<1> QED
  BY <1>1, <1>2, <1>3, <1>4 DEF Next

\* Requests that take administrators away at the same moment queue, and are never in each
\* other's way (_lock_admins: "always in the same order"), however many there are, unless who
\* is an administrator changed between two that are at work.
THEOREM NobodyIsUndone == ASSUME Sizes PROVE Spec => []TheyQueue
<1>1. AccountsInv /\ Orderly => TheyQueue
  BY OrderlyQueues
<1>2. Init => AccountsInv /\ Orderly
  <2>1. Init => Orderly
    BY DEF Init, Orderly, InOrder, Idle, Locking, Sizes
  <2> QED
    BY <2>1, AccountsBegin
<1>3. AccountsInv /\ Orderly /\ [Next]_vars => (AccountsInv /\ Orderly)'
  BY AccountsStep, OrderlyStep
<1> QED
  BY <1>1, <1>2, <1>3, PTL DEF Spec

\* _lock_admins, _guard_last_admin: the two together, as the run of the panel checks them.
THEOREM AdminsStayAndQueue == ASSUME Sizes PROVE Spec => []AccountsHold
<1>1. AlwaysAnAdmin /\ TheyQueue => AccountsHold
  BY DEF AccountsHold
<1> QED
  BY <1>1, AnAdminStays, NobodyIsUndone, PTL
=============================================================================
