-------------------------------- MODULE Heap --------------------------------
(***************************************************************************)
(* The heap of a server and the container around it (app/heap.py,          *)
(* app/specs.py, optimizer.apply and set_command_memory, perf.apply,       *)
(* repair._fit_memory, the set-ram fix of app/main.py).                    *)
(*                                                                         *)
(* The heap lives in user_jvm_args.txt or in the startup command; the size *)
(* of the container and who chose the heap live in the record the agent    *)
(* keeps.  Nothing locks them: every request reads and writes them between *)
(* awaits.  Sizes are in MB.                                               *)
(***************************************************************************)
EXTENDS Integers

CONSTANTS
  Requests,    \* requests and repairs that are handled at once
  Worlds,      \* pairs of the loader in the manifest and whether the startup
               \* command names user_jvm_args.txt
  Typed,       \* heaps that are asked for
  ModCounts,   \* how many jars mods/ may hold
  Total, Free, \* the memory of the machine, and what may be free of it
  MaxChanges,  \* bound on requests
  MaxTroubles  \* bound on calls to the agent that fail, and changes of mods/

VARIABLES
  world,     \* one of Worlds
  mods,      \* jars in mods/
  file,      \* -Xmx of user_jvm_args.txt, 0 without one
  command,   \* -Xmx of the startup command, 0 without one
  record,    \* memory_mb, and what limits says of the heap
  request,   \* what each request does
  wanted,    \* the last heap that was set
  sized,     \* the jars that were counted for the container
  excused,   \* two were at work at once, one failed or only the file was written,
             \* since the heap was last set as a whole
  changes, troubles

vars == <<world, mods, file, command, record, request, wanted, sized, excused, changes, troubles>>

-----------------------------------------------------------------------------
(* Sizes.                                                                  *)

Least(a, b) == IF a <= b THEN a ELSE b
Most(a, b) == IF a >= b THEN a ELSE b

OverheadMin == 768
ByMods(k) == Least(3072, OverheadMin + (5 * k) \div 2)

\* container_overhead_mb(), container_memory_mb()
Overhead(h, k) == Most(OverheadMin, Most(h \div 5, ByMods(k)))
Container(h, k) == h + Overhead(h, k)

\* heap_for_container_mb(): the largest heap that fits, rounded down.
HeapFor(m, k) == Most(512, (Least(m - ByMods(k), (5 * m) \div 6) \div 256) * 256)

GrowMin == 1024
KeepFree == 768

\* grow_for_oom(): the next limit around heap h, or 0 when there is no more to give.
Grown(h, limit, k, free) ==
  LET over  == Most(0, limit - h)
      next  == Least(Total, Most(h + Most((5 * over) \div 4, over + GrowMin), Container(h, k)))
      room  == free - KeepFree
  IN  IF next <= limit THEN 0
      ELSE IF free = 0 \/ room = 0 \/ next <= room THEN next
      ELSE IF room < limit + GrowMin \div 2 THEN 0 ELSE room

-----------------------------------------------------------------------------
Idle == [op |-> "none", pc |-> "idle", heap |-> 0, by |-> TRUE, count |-> 0,
         read |-> [mem |-> 0, heap |-> 0, by |-> FALSE], limit |-> 0]

Sizes == 0 .. 2 * Total
Record == [mem : Sizes, heap : Sizes, by : BOOLEAN]
TypeOK ==
  /\ world \in Worlds /\ mods \in ModCounts
  /\ file \in Sizes /\ command \in Sizes
  /\ record \in Record
  /\ request \in [Requests -> [op : {"none", "tune", "perf", "repair"},
                               pc : {"idle", "put", "keep", "count", "limits", "size", "analyse", "grow", "grew"},
                               heap : Sizes, by : BOOLEAN, count : ModCounts, read : Record, limit : Sizes]]
  /\ wanted \in Sizes /\ sized \in ModCounts /\ excused \in BOOLEAN
  /\ changes \in 0 .. MaxChanges /\ troubles \in 0 .. MaxTroubles

ReadsFile == world[2]
\* The -Xmx java starts with.
InForce == IF ReadsFile THEN file ELSE command

\* A server as provision.create_empty() leaves it.
Init ==
  /\ world \in Worlds
  /\ \E h \in Typed, by \in BOOLEAN :
       /\ file = IF ReadsFile THEN h ELSE 0
       /\ command = IF ReadsFile THEN 0 ELSE h
       /\ record = [mem |-> Container(h, 0), heap |-> h, by |-> by]
       /\ wanted = h /\ sized = 0
  /\ mods = 0
  /\ request = [r \in Requests |-> Idle]
  /\ excused = FALSE
  /\ changes = 0 /\ troubles = 0

Alone == \A r \in Requests : request[r].op = "none"

Begins(r, op, step, h, by) ==
  /\ request[r].op = "none" /\ changes < MaxChanges
  /\ request' = [request EXCEPT ![r] = [Idle EXCEPT !.op = op, !.pc = step, !.heap = h, !.by = by]]
  /\ excused' = ~Alone
  /\ changes' = changes + 1
  /\ UNCHANGED <<world, mods, file, command, record, wanted, sized, troubles>>

At(r, step) == request[r].pc = step
Goes(r, step) == request' = [request EXCEPT ![r].pc = step]

\* heap.check(): the only refusals.
Allowed(h) == h >= 512 /\ h <= Total

Tunes(r, h) == Allowed(h) /\ Begins(r, "tune", "put", h, TRUE)
Perfs(r, h) == Allowed(h) /\ Begins(r, "perf", "put", h, TRUE)

Puts(r, inFile) ==
  /\ At(r, "put")
  /\ IF inFile THEN file' = request[r].heap /\ UNCHANGED command
     ELSE command' = request[r].heap /\ UNCHANGED file
  /\ Goes(r, "count")
  /\ UNCHANGED <<world, mods, record, wanted, sized, excused, changes, troubles>>

\* optimizer.apply() goes by the loader of the manifest,
TunePuts(r) == request[r].op = "tune" /\ Puts(r, world[1] = "forge")

\* perf.apply() by what the command names: there is one -Xmx afterwards.
PerfPuts(r) == request[r].op # "tune" /\ Puts(r, ReadsFile)

-----------------------------------------------------------------------------
(* resize(): the container follows the heap.                               *)

CountsMods(r) ==
  /\ At(r, "count")
  /\ request' = [request EXCEPT ![r].pc = "limits", ![r].count = mods]
  /\ UNCHANGED <<world, mods, file, command, record, wanted, sized, excused, changes, troubles>>

ReadsLimits(r) ==
  /\ At(r, "limits")
  /\ request' = [request EXCEPT ![r].pc = "size", ![r].read = record]
  /\ UNCHANGED <<world, mods, file, command, record, wanted, sized, excused, changes, troubles>>

SizesContainer(r) ==
  LET h == request[r].heap
  IN  /\ At(r, "size")
      /\ record' = [mem |-> Container(h, request[r].count), heap |-> h, by |-> request[r].by]
      /\ wanted' = h /\ sized' = request[r].count
      /\ request' = [request EXCEPT ![r] = Idle]
      /\ UNCHANGED <<world, mods, file, command, excused, changes, troubles>>

-----------------------------------------------------------------------------
(* _fit_memory(): a server that the kernel killed for its memory.          *)

Ends(r) == request' = [request EXCEPT ![r] = Idle]

\* The record is read, and the jars were counted.
Repairs(r) ==
  /\ request[r].op = "none" /\ changes < MaxChanges
  /\ request' = [request EXCEPT ![r] = [Idle EXCEPT !.op = "repair", !.pc = "analyse", !.by = FALSE,
                                       !.read = record, !.limit = record.mem, !.count = mods]]
  /\ excused' = (excused \/ ~Alone) /\ changes' = changes + 1
  /\ UNCHANGED <<world, mods, file, command, record, wanted, sized, troubles>>

\* The arguments are read: without a heap of its own there is nothing to do.
Analyses(r) ==
  /\ At(r, "analyse")
  /\ IF InForce = 0 THEN Ends(r)
     ELSE request' = [request EXCEPT ![r].pc = "grow", ![r].heap = InForce]
  /\ UNCHANGED <<world, mods, file, command, record, wanted, sized, excused, changes, troubles>>

\* grow_for_oom() reads the record once more; who chose the heap stays as read before.
Looks(r) ==
  /\ At(r, "grow")
  /\ request' = [request EXCEPT ![r].pc = "grew", ![r].by = request[r].read.by, ![r].read = record]
  /\ UNCHANGED <<world, mods, file, command, record, wanted, sized, excused, changes, troubles>>

\* limits are written back as they were read, with the new size.
Grows(r) ==
  /\ At(r, "grew")
  /\ \E free \in Free :
       LET grown == Grown(request[r].heap, request[r].read.mem, request[r].count, free)
       IN  grown # 0 /\ record' = [request[r].read EXCEPT !.mem = grown]
  /\ Ends(r)
  /\ UNCHANGED <<world, mods, file, command, wanted, sized, excused, changes, troubles>>

\* There is no more to give: a heap that no person set comes down to fit.
Fits(r) ==
  /\ At(r, "grew")
  /\ \E free \in Free : Grown(request[r].heap, request[r].read.mem, request[r].count, free) = 0
  /\ LET q == request[r]
         fit == HeapFor(q.limit, q.count)
     IN  IF q.by \/ fit >= q.heap THEN Ends(r)
         ELSE request' = [request EXCEPT ![r].pc = "put", ![r].heap = fit, ![r].by = FALSE]
  /\ UNCHANGED <<world, mods, file, command, record, wanted, sized, excused, changes, troubles>>

-----------------------------------------------------------------------------
\* fix_ram(): only the file.
FixesRam(h) ==
  /\ changes < MaxChanges
  /\ file' = h /\ excused' = TRUE /\ changes' = changes + 1
  /\ UNCHANGED <<world, mods, command, record, request, wanted, sized, troubles>>

\* A call to the agent fails: what was written stays, the rest is not done.
Fails(r) ==
  /\ request[r].op # "none" /\ troubles < MaxTroubles
  /\ Ends(r) /\ troubles' = troubles + 1
  /\ excused' = TRUE
  /\ UNCHANGED <<world, mods, file, command, record, wanted, sized, changes>>

ModsChange ==
  /\ troubles < MaxTroubles
  /\ mods' \in ModCounts \ {mods}
  /\ troubles' = troubles + 1
  /\ UNCHANGED <<world, file, command, record, request, wanted, sized, excused, changes>>

Next ==
  \/ ModsChange
  \/ \E h \in Typed : FixesRam(h)
  \/ \E r \in Requests :
       \/ \E h \in Typed : Tunes(r, h) \/ Perfs(r, h)
       \/ TunePuts(r) \/ PerfPuts(r) \/ CountsMods(r) \/ ReadsLimits(r) \/ SizesContainer(r)
       \/ Repairs(r) \/ Analyses(r) \/ Looks(r) \/ Grows(r) \/ Fits(r)
       \/ Fails(r)

Spec == Init /\ [][Next]_vars

-----------------------------------------------------------------------------
(* Properties.                                                             *)

\* heap.py: "the container follows it".  When nothing is under way the container
\* has room for the heap in force and for what java needs around it.
ContainerFollows ==
  Alone /\ ~excused => record.mem >= Container(InForce, sized) /\ record.heap = InForce

\* heap.py: "The heap a person types is the heap the server gets".
HeapIsAsTyped == Alone /\ ~excused => InForce = wanted

\* heap.py: "repair may lower a heap BlessForge picked itself, never one a person set",
\* even if the person set it while the repair was looking, unless both wrote at once.
PersonsHeapStays ==
  \A r \in Requests : request[r].op = "repair" /\ At(r, "put") /\ ~excused => ~record.by

\* repair.py: into free memory, "never past it".  The lower heap, with all that java needs
\* around it, is within the limit the server was killed at, but for the smallest heap.
RepairTakesNoMore ==
  \A r \in Requests :
    request[r].op = "repair" /\ At(r, "put") /\ ~excused /\ request[r].heap # 512
    => Container(request[r].heap, request[r].count) <= record.mem
=============================================================================
