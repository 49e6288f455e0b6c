------------------------------ MODULE BootTest ------------------------------
(***************************************************************************)
(* One test boot, app/smoketest.py: start the server, watch its log file   *)
(* and its status every few seconds, decide whether it came up, and stop   *)
(* it again.  The log of the previous boot is still in the file until the  *)
(* starting server rotates it, and a node that does not answer in time is  *)
(* answered for with its last reading, which may be older than the boot.   *)
(*                                                                         *)
(* Lines are "done", "fatal" and "more"; a log is the set of lines in it.  *)
(***************************************************************************)
EXTENDS Naturals

CONSTANTS MaxTroubles   \* bound: reads and calls that fail

VARIABLES oldLog, newLog, rotated,  \* the previous boot's lines, this one's, which is in the file
          proc,                     \* the server
          quiet,                    \* polls without a new line: 0, 1, or 2 for too many
          seen,                     \* lines there were at the last poll
          reading,                  \* the node's last answer: the server as it was then
          phase, base, fatal, outcome, troubles
logs == <<oldLog, newLog, rotated>>
vars == <<logs, proc, quiet, seen, reading, phase, base, fatal, outcome, troubles>>

Procs == {"down", "queued", "starting", "up", "exited"}
Lines == {"done", "fatal", "more"}
TypeOK ==
  /\ {oldLog, newLog, seen} \subseteq SUBSET Lines /\ {rotated, fatal} \subseteq BOOLEAN
  /\ {proc, reading} \subseteq Procs /\ quiet \in 0..2
  /\ phase \in {"begin", "read", "watch", "stop", "over"}
  /\ base \in {"old", "none"}          \* how much of the file is not this boot's
  /\ outcome \in {"none", "ready", "failed", "timeout"} /\ troubles \in 0..MaxTroubles

Init ==
  /\ oldLog \in SUBSET Lines /\ newLog = {} /\ rotated = FALSE
  /\ proc \in {"down", "exited"} /\ reading = proc
  /\ quiet = 0 /\ seen = {} /\ phase = "begin" /\ base = "none"
  /\ fatal = FALSE /\ outcome = "none" /\ troubles = 0

Trouble == troubles < MaxTroubles /\ troubles' = troubles + 1

\* What the server does by itself, once started: it may wait for a slot, log, come up,
\* survive a line that looks fatal, fall silent, or exit.
ServerMoves ==
  /\ phase \in {"watch", "stop"}
  /\ \/ proc = "queued" /\ proc' = "starting" /\ UNCHANGED <<newLog, rotated>>
     \/ proc = "starting" /\ rotated' = TRUE /\ UNCHANGED proc
        /\ \E l \in {"more", "fatal"} : newLog' = newLog \cup {l}
     \/ proc = "starting" /\ rotated /\ proc' = "up" /\ newLog' = newLog \cup {"done"}
        /\ UNCHANGED rotated
     \/ proc \in {"starting", "up"} /\ proc' = "exited" /\ UNCHANGED <<newLog, rotated>>
  /\ UNCHANGED <<oldLog, quiet, seen, reading, phase, base, fatal, outcome, troubles>>

\* Where this boot's lines begin: after all that is in the file now.
ReadsOld ==
  /\ phase = "begin" /\ phase' = "read"
  /\ \/ base' = "old" /\ UNCHANGED troubles
     \/ Trouble /\ base' = "none"
  /\ UNCHANGED <<logs, proc, quiet, seen, reading, fatal, outcome>>
Starts ==
  /\ phase = "read" /\ phase' = "watch"
  /\ proc' \in {"queued", "starting"}
  /\ UNCHANGED <<logs, quiet, seen, reading, base, fatal, outcome, troubles>>

(***************************************************************************)
(* One poll: the file, then the status.                                    *)
(***************************************************************************)
InFile == IF rotated THEN newLog ELSE oldLog
Ours == IF rotated \/ base = "none" THEN InFile ELSE {}

Exited(p) == p \notin {"queued", "starting", "up"}
\* A fresh answer, no answer, or an old one: only a fresh one says anything.
SaysExitedStale == {Exited(proc), FALSE, Exited(reading)}
SaysExited == IF troubles < MaxTroubles THEN {Exited(proc), FALSE} ELSE {Exited(proc)}

\* Too long without a line; less is needed after a line that looked fatal.
Hung == quiet' = 2 \/ (fatal /\ quiet' = 1)
Quiet == IF InFile = seen /\ InFile # {} THEN (IF quiet < 2 THEN quiet + 1 ELSE 2) ELSE 0
Ends(o) == phase' = "stop" /\ outcome' = o
Polls ==
  /\ phase = "watch"
  /\ seen' = InFile /\ quiet' = Quiet /\ fatal' = (fatal \/ "fatal" \in Ours)
  /\ \/ "done" \in Ours /\ Ends("ready") /\ UNCHANGED <<reading, troubles>>
     \/ /\ "done" \notin Ours
        /\ \E gone \in SaysExited :
             /\ IF gone = Exited(proc) THEN reading' = proc /\ UNCHANGED troubles
                ELSE troubles' = troubles + 1 /\ UNCHANGED reading
             /\ IF gone \/ Hung THEN Ends("failed") ELSE UNCHANGED <<phase, outcome>>
  /\ UNCHANGED <<logs, proc, base>>
UnreadPoll ==       \* the log cannot be read: the poll is skipped
  /\ phase = "watch" /\ Trouble
  /\ UNCHANGED <<logs, proc, quiet, seen, reading, phase, base, fatal, outcome>>
TimesOut ==
  /\ phase = "watch" /\ Ends("timeout")
  /\ UNCHANGED <<logs, proc, quiet, seen, reading, base, fatal, troubles>>
Stops ==            \* whatever happened above
  /\ phase = "stop" /\ phase' = "over"
  /\ \/ proc' = (IF proc = "exited" THEN "exited" ELSE "down") /\ UNCHANGED troubles
     \/ Trouble /\ UNCHANGED proc
  /\ UNCHANGED <<logs, quiet, seen, reading, base, fatal, outcome>>

Watches == ReadsOld \/ Starts \/ Polls \/ UnreadPoll \/ TimesOut \/ Stops
Next == ServerMoves \/ Watches
Spec == Init /\ [][Next]_vars

(***************************************************************************)
(* Properties.                                                             *)
(***************************************************************************)
\* A boot is called up only if this boot got there, however much of the previous one
\* is still in the file - unless the file could not be read before the start.
ReadyIsThisBoot == outcome = "ready" => "done" \in newLog \/ base = "none"

\* A boot is called failed only when the server has exited or has stopped logging: a
\* line that looks fatal, a slot it waits for or an old answer is not enough.
FailedForCause ==
  [][outcome = "none" /\ outcome' = "failed" => Exited(proc) \/ quiet' > 0]_vars
=============================================================================
