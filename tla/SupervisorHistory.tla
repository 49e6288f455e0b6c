-------------------------- MODULE SupervisorHistory -------------------------
(***************************************************************************)
(* The Supervisor with a memory of why each server is down, to state what  *)
(* a request to stop, or a crash loop, promises about later starts.        *)
(***************************************************************************)
EXTENDS Supervisor

VARIABLE verdict   \* why the server should stay down, if it should

hvars == <<vars, verdict>>

\* "halted": a stop of a running server was answered; "cancelled": a stop of
\* one that was not running; "loop": it was declared a crash loop.
Verdicts == {"none", "halted", "cancelled", "loop"}

HInit == Init /\ verdict = [s \in Servers |-> "none"]

\* What ends with the server running, if it goes well: a restore starts a server
\* again that it found running.
Starts == {"start", "restart", "restore"}

\* Somebody asks for s to run.
Asked(s) ==
  \E t \in Tasks : IsIdle(t) /\ task'[t].srv = s /\ task'[t].kind \in Starts

\* Such a request waits behind the one being answered.
StartWaits(s) ==
  \E i \in DOMAIN lockq'[s] : task'[lockq'[s][i]].kind \in Starts

\* A stop that was at one of these points is over, and not because the agent is.
Stopped(s, pcs) ==
  /\ serving'
  /\ \E t \in Tasks : /\ task[t].kind = "stop" /\ task[t].srv = s /\ task[t].pc \in pcs
                      /\ task'[t] = Idle

Looped(s) == /\ running[s] /\ ~running'[s] /\ state'[s] = "crashed"
             /\ crashes[s] + 1 >= CrashLoopCount

\* What a step decides about s.
Ruling(s) ==
  IF Looped(s) THEN "loop"
  ELSE IF Stopped(s, {"stopping", "stopwait"}) THEN "halted"
  ELSE IF Stopped(s, {"lock", "enter"}) THEN "cancelled"
  ELSE "none"

HNext ==
  /\ Next
  /\ verdict' = [s \in Servers |->
       IF Asked(s) \/ (Ruling(s) # "none" /\ StartWaits(s)) THEN "none"
       ELSE IF Ruling(s) # "none" THEN Ruling(s)
       ELSE verdict[s]]

HSpec == HInit /\ [][HNext]_hvars

Launches(s) == \E t \in Tasks : /\ At(t, s, "ports")
                                /\ task'[t].pc = "create"

-----------------------------------------------------------------------------

\* A server somebody stopped while it ran is not started again until somebody
\* asks for it: no crash timer and no queued start left over from before
\* brings it back (module docstring, lines 4-5: start/stop/kill do what they
\* say).
HaltedStaysDown == [][\A s \in Servers : Launches(s) => verdict[s] # "halted"]_hvars

\* "stopping a queued server takes it out of the queue; it never starts"
\* (dev/tools/test_agent_node.py:1106).
CancelledStaysDown == [][\A s \in Servers : Launches(s) => verdict[s] # "cancelled"]_hvars

\* Three crashes in ten minutes: "the server is left stopped" (docstring,
\* lines 13-16) and "will not be restarted until someone starts it" (_exited).
CrashLoopStays == [][\A s \in Servers : Launches(s) => verdict[s] # "loop"]_hvars
=============================================================================
