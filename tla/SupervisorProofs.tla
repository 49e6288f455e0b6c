-------------------------- MODULE SupervisorProofs --------------------------
(***************************************************************************)
(* Proofs about the Supervisor.                                            *)
(***************************************************************************)
EXTENDS SupervisorHistory, FunctionTheorems, FiniteSetTheorems, SequenceTheorems, TLAPS

-----------------------------------------------------------------------------
(* Typing: first what the helpers of the actions do, then the actions.     *)

\* Taking an element out of a sequence leaves a sequence.
LEMMA RemoveAtType ==
  ASSUME NEW S, NEW q \in Seq(S), NEW i \in 1 .. Len(q)
  PROVE  RemoveAt(q, i) \in Seq(S)
<1>1. Len(q) \in Nat /\ \A j \in 1 .. Len(q) : q[j] \in S
  BY LenProperties, ElementOfSeq
<1>2. SubSeq(q, 1, i - 1) \in Seq(S)
  BY <1>1, SubSeqProperties
<1>3. SubSeq(q, i + 1, Len(q)) \in Seq(S)
  BY <1>1, SubSeqProperties
<1> QED
  BY <1>2, <1>3, ConcatProperties DEF RemoveAt

\* An idle task is one.
LEMMA IdleType == Idle \in Activations
BY DEF Idle, Activations, TaskKinds, PCs

LEMMA PcType ==
  ASSUME NEW f \in [Tasks -> Activations], NEW t \in Tasks, NEW p \in PCs
  PROVE  [f EXCEPT ![t].pc = p] \in [Tasks -> Activations]
BY DEF Activations

\* What the task of a step becomes is an activation.
LEMMA TaskType ==
  ASSUME TypeOK, NEW t \in Tasks
  PROVE  /\ \A r \in Activations : [task EXCEPT ![t] = r] \in [Tasks -> Activations]
         /\ \A p \in PCs : [task EXCEPT ![t].pc = p] \in [Tasks -> Activations]
         /\ Idle \in Activations
         /\ \A p \in PCs, b \in BOOLEAN :
              [task EXCEPT ![t].pc = p, ![t].again = b] \in [Tasks -> Activations]
         /\ \A k \in TaskKinds, s \in Servers, p \in PCs :
              [kind |-> k, srv |-> s, pc |-> p, again |-> FALSE] \in Activations
<1> USE DEF TypeOK, Activations
<1>1. \A r \in Activations : [task EXCEPT ![t] = r] \in [Tasks -> Activations]
  OBVIOUS
<1>2. \A p \in PCs : [task EXCEPT ![t].pc = p] \in [Tasks -> Activations]
  OBVIOUS
<1>3. Idle \in Activations
  BY IdleType
<1>4. \A p \in PCs, b \in BOOLEAN :
        [task EXCEPT ![t].pc = p, ![t].again = b] \in [Tasks -> Activations]
  BY ZenonT(40)
<1> QED
  BY <1>1, <1>2, <1>3, <1>4

\* The helpers that end or suspend a task keep the types of what they change.
LEMMA FlowType ==
  ASSUME TypeOK, NEW t \in Tasks, NEW s \in Servers
  PROVE  /\ Ends(t) => task' \in [Tasks -> Activations]
         /\ \A p \in PCs : Goto(t, p) => task' \in [Tasks -> Activations]
         /\ Leaves(t, s) => /\ task' \in [Tasks -> Activations]
                            /\ lock' \in [Servers -> Tasks \cup {NoTask}]
         /\ \A p \in PCs :
              Suspends(t, s, p) => /\ task' \in [Tasks -> Activations]
                                   /\ lock' \in [Servers -> Tasks \cup {NoTask}]
         /\ BeginsStart(t, s) => /\ task' \in [Tasks -> Activations]
                                 /\ lock' \in [Servers -> Tasks \cup {NoTask}]
         /\ AfterStop(t, s) => /\ task' \in [Tasks -> Activations]
                               /\ lock' \in [Servers -> Tasks \cup {NoTask}]
         /\ Granted(t, s) => lockq' \in [Servers -> Seq(Tasks)]
         /\ \A k \in TaskKinds : ComesToLock(t, k, s) =>
              /\ task' \in [Tasks -> Activations]
              /\ lock' \in [Servers -> Tasks \cup {NoTask}]
              /\ lockq' \in [Servers -> Seq(Tasks)]
<1>1. Ends(t) => task' \in [Tasks -> Activations]
  BY TaskType DEF Ends
<1>2. \A p \in PCs : Goto(t, p) => task' \in [Tasks -> Activations]
  BY TaskType DEF Goto
<1>3. Leaves(t, s) => /\ task' \in [Tasks -> Activations]
                      /\ lock' \in [Servers -> Tasks \cup {NoTask}]
  BY <1>1 DEF Leaves, TypeOK
<1>4. \A p \in PCs :
        Suspends(t, s, p) => /\ task' \in [Tasks -> Activations]
                             /\ lock' \in [Servers -> Tasks \cup {NoTask}]
  BY <1>2 DEF Suspends, TypeOK
<1>5. BeginsStart(t, s) => /\ task' \in [Tasks -> Activations]
                           /\ lock' \in [Servers -> Tasks \cup {NoTask}]
  BY <1>3, <1>4 DEF BeginsStart, PCs
<1>6. AfterStop(t, s) => /\ task' \in [Tasks -> Activations]
                         /\ lock' \in [Servers -> Tasks \cup {NoTask}]
  BY <1>3, <1>4, <1>5 DEF AfterStop, PCs
<1>7. Granted(t, s) => lockq' \in [Servers -> Seq(Tasks)]
  <2>1. CASE UNCHANGED lockq
    BY <2>1 DEF TypeOK
  <2>2. CASE lockq[s] # <<>> /\ lockq' = [lockq EXCEPT ![s] = Tail(@)]
    BY <2>2, HeadTailProperties DEF TypeOK
  <2> QED
    BY <2>1, <2>2 DEF Granted
<1>8. \A k \in TaskKinds : ComesToLock(t, k, s) =>
        /\ task' \in [Tasks -> Activations]
        /\ lock' \in [Servers -> Tasks \cup {NoTask}]
        /\ lockq' \in [Servers -> Seq(Tasks)]
  <2> SUFFICES ASSUME NEW k \in TaskKinds, ComesToLock(t, k, s)
               PROVE  /\ task' \in [Tasks -> Activations]
                      /\ lock' \in [Servers -> Tasks \cup {NoTask}]
                      /\ lockq' \in [Servers -> Seq(Tasks)]
    OBVIOUS
  <2> DEFINE free == lock[s] = NoTask /\ lockq[s] = <<>>
             p == IF free THEN "enter" ELSE "lock"
  <2>1. p \in PCs
    BY DEF PCs
  <2>2. task' = [task EXCEPT ![t] = [kind |-> k, srv |-> s, again |-> FALSE, pc |-> p]]
    BY DEF ComesToLock
  <2>3. task' \in [Tasks -> Activations]
    BY <2>1, <2>2, TaskType
  <2>4. lock' \in [Servers -> Tasks \cup {NoTask}]
    BY DEF ComesToLock, TypeOK
  <2>5. Append(lockq[s], t) \in Seq(Tasks)
    BY AppendProperties DEF TypeOK
  <2>6. lockq' \in [Servers -> Seq(Tasks)]
    BY <2>5 DEF ComesToLock, TypeOK
  <2> QED
    BY <2>3, <2>4, <2>6
<1> QED
  BY <1>1, <1>2, <1>3, <1>4, <1>5, <1>6, <1>7, <1>8

\* The helpers of the boot slots keep the types of what they change.
LEMMA SlotType ==
  ASSUME TypeOK, NEW t \in Tasks, NEW s \in Servers
  PROVE  /\ ReleasesSlot(t) \/ (TakesSlot(t) /\ ~Locked) \/ UNCHANGED slotVars
              => /\ bootSlots' \in Nat
                 /\ bootWaiters' \in Seq(Tasks)
                 /\ bootHeld' \in SUBSET Tasks
         /\ CancelsQueued(s) => /\ queued' \in [Servers -> Tasks \cup {NoTask}]
                                /\ bootSlots' \in Nat
                                /\ bootWaiters' \in Seq(Tasks)
                                /\ bootHeld' \in SUBSET Tasks
<1>1. ASSUME NEW u, ReleasesSlot(u)
      PROVE  /\ bootSlots' \in Nat
             /\ bootWaiters' \in Seq(Tasks)
             /\ bootHeld' \in SUBSET Tasks
  <2>1. CASE bootWaiters = <<>>
    BY <1>1, <2>1 DEF ReleasesSlot, TypeOK
  <2>2. CASE bootWaiters # <<>>
    <3>1. Head(bootWaiters) \in Tasks /\ Tail(bootWaiters) \in Seq(Tasks)
      BY <2>2, HeadTailProperties DEF TypeOK
    <3> QED
      BY <1>1, <2>2, <3>1 DEF ReleasesSlot, TypeOK
  <2> QED
    BY <2>1, <2>2
<1>2. TakesSlot(t) /\ ~Locked
        => /\ bootSlots' \in Nat
           /\ bootWaiters' \in Seq(Tasks)
           /\ bootHeld' \in SUBSET Tasks
  BY DEF TakesSlot, Locked, TypeOK
<1>3. UNCHANGED slotVars
        => /\ bootSlots' \in Nat
           /\ bootWaiters' \in Seq(Tasks)
           /\ bootHeld' \in SUBSET Tasks
  BY DEF slotVars, TypeOK
<1>4. ASSUME CancelsQueued(s)
      PROVE  /\ queued' \in [Servers -> Tasks \cup {NoTask}]
             /\ bootSlots' \in Nat
             /\ bootWaiters' \in Seq(Tasks)
             /\ bootHeld' \in SUBSET Tasks
  <2>1. queued' \in [Servers -> Tasks \cup {NoTask}]
    BY <1>4 DEF CancelsQueued, TypeOK
  <2>2. CASE ReleasesSlot(queued[s])
    BY <1>1, <2>1, <2>2
  <2>3. CASE /\ \E i \in DOMAIN bootWaiters : bootWaiters' = RemoveAt(bootWaiters, i)
             /\ UNCHANGED <<bootSlots, bootHeld>>
    <3>1. DOMAIN bootWaiters = 1 .. Len(bootWaiters)
      BY LenProperties DEF TypeOK
    <3>2. bootWaiters' \in Seq(Tasks)
      BY <2>3, <3>1, RemoveAtType DEF TypeOK
    <3> QED
      BY <2>1, <2>3, <3>2 DEF TypeOK
  <2> QED
    BY <1>4, <2>2, <2>3 DEF CancelsQueued
<1> QED
  BY <1>1, <1>2, <1>3, <1>4

\* A step of a task keeps the types.
LEMMA TaskStepType ==
  ASSUME TypeOK, NEW t \in Tasks, NEW s \in Servers, TaskStep(t, s)
  PROVE  TypeOK'
<1> USE DEF TypeOK, PCs, TaskKinds, States
<1>1. CASE GrantStart(t, s)
  BY <1>1, FlowType, SlotType DEF GrantStart, slotVars, crashVars, agentVars
<1>2. CASE GrantLater(t, s)
  BY <1>2, FlowType, SlotType DEF GrantLater, slotVars, crashVars, agentVars
<1>3. CASE GrantQueued(t, s)
  BY <1>3, FlowType, SlotType DEF GrantQueued, crashVars, agentVars
<1>4. CASE GrantStopQueued(t, s)
  <2>1. /\ queued' \in [Servers -> Tasks \cup {NoTask}]
        /\ bootSlots' \in Nat
        /\ bootWaiters' \in Seq(Tasks)
        /\ bootHeld' \in SUBSET Tasks
    BY <1>4, SlotType DEF GrantStopQueued
  <2>2. queued[s] \in Tasks
    BY <1>4 DEF GrantStopQueued
  <2>3. task' \in [Tasks -> Activations]
    <3>1. [task EXCEPT ![queued[s]] = Idle] \in [Tasks -> Activations]
      BY <2>2, TaskType
    <3>2. [task EXCEPT ![queued[s]] = Idle, ![t].pc = "check"] \in [Tasks -> Activations]
      BY <3>1, PcType
    <3>3. [task EXCEPT ![queued[s]] = Idle, ![t] = Idle] \in [Tasks -> Activations]
      BY <3>1, TaskType
    <3> QED
      BY <1>4, <3>2, <3>3 DEF GrantStopQueued
  <2>4. lock' \in [Servers -> Tasks \cup {NoTask}] /\ state' \in [Servers -> States]
    BY <1>4 DEF GrantStopQueued
  <2>5. lockq' \in [Servers -> Seq(Tasks)]
    BY <1>4, FlowType DEF GrantStopQueued
  <2> QED
    BY <1>4, <2>1, <2>3, <2>4, <2>5 DEF GrantStopQueued, crashVars, agentVars
<1>5. CASE GrantStopIdle(t, s)
  BY <1>5, FlowType, SlotType DEF GrantStopIdle, slotVars, crashVars, agentVars
<1>6. CASE GrantStopRunning(t, s)
  <2>1. task' \in [Tasks -> Activations]
    <3>1. PICK b \in BOOLEAN :
            task' = [task EXCEPT ![t].pc = "stopping", ![t].again = b]
      BY <1>6 DEF GrantStopRunning
    <3> QED
      BY <3>1, TaskType
  <2>2. lockq' \in [Servers -> Seq(Tasks)]
    BY <1>6, FlowType DEF GrantStopRunning
  <2> QED
    BY <1>6, <2>1, <2>2 DEF GrantStopRunning, slotVars, crashVars, agentVars
<1>7. CASE GrantKill(t, s)
  BY <1>7, FlowType, SlotType DEF GrantKill, slotVars, crashVars, agentVars
<1>8. CASE GrantRestore(t, s)
  BY <1>8, FlowType, SlotType DEF GrantRestore, slotVars, crashVars, agentVars
<1>9. CASE CheckRefused(t, s)
  BY <1>9, FlowType, SlotType DEF CheckRefused, crashVars, agentVars
<1>10. CASE CheckLaunches(t, s)
  BY <1>10, FlowType, SlotType DEF CheckLaunches, crashVars, agentVars
<1>11. CASE CheckQueues(t, s)
  <2>1. task' \in [Tasks -> Activations]
    BY <1>11, TaskType DEF CheckQueues
  <2>2. bootWaiters' \in Seq(Tasks)
    BY <1>11, AppendProperties DEF CheckQueues
  <2> QED
    BY <1>11, <2>1, <2>2 DEF CheckQueues, crashVars, agentVars
<1>12. CASE SlotRun(t, s)
  <2>1. /\ task' \in [Tasks -> Activations]
        /\ lock' \in [Servers -> Tasks \cup {NoTask}]
        /\ lockq' \in [Servers -> Seq(Tasks)]
    BY <1>12, FlowType DEF SlotRun
  <2>2. bootWaiters # <<>> => /\ Head(bootWaiters) \in Tasks
                             /\ Tail(bootWaiters) \in Seq(Tasks)
    BY HeadTailProperties
  <2>3. /\ bootSlots' \in Nat
        /\ bootWaiters' \in Seq(Tasks)
        /\ bootHeld' \in SUBSET Tasks
    <3>1. CASE bootSlots > 0 /\ bootWaiters # <<>>
      <4>1. /\ bootSlots' = bootSlots - 1
            /\ bootHeld' = bootHeld \cup {Head(bootWaiters)}
            /\ bootWaiters' = Tail(bootWaiters)
        BY <1>12, <3>1 DEF SlotRun
      <4>2. bootSlots - 1 \in Nat
        BY <3>1
      <4> QED
        BY <2>2, <3>1, <4>1, <4>2
    <3>2. CASE ~(bootSlots > 0 /\ bootWaiters # <<>>)
      BY <1>12, <3>2 DEF SlotRun, slotVars
    <3> QED
      BY <3>1, <3>2
  <2>4. queued' \in [Servers -> Tasks \cup {NoTask}]
    BY <1>12 DEF SlotRun
  <2> QED
    BY <1>12, <2>1, <2>3, <2>4 DEF SlotRun, crashVars, agentVars
<1>13. CASE Launch(t, s)
  BY <1>13, FlowType, SlotType DEF Launch, slotVars, crashVars, agentVars
<1>14. CASE Create(t, s)
  BY <1>14, FlowType, SlotType DEF Create, slotVars, crashVars, agentVars
<1>15. CASE CreateFails(t, s)
  BY <1>15, FlowType, SlotType DEF CreateFails, crashVars, agentVars
<1>16. CASE CreateTaken(t, s)
  BY <1>16, FlowType, SlotType DEF CreateTaken, slotVars, crashVars, agentVars
<1>17. CASE Attached(t, s)
  BY <1>17, TaskType, SlotType DEF Attached, slotVars, crashVars, agentVars
<1>18. CASE HoldEnds(t, s)
  BY <1>18, FlowType, SlotType DEF HoldEnds, crashVars, agentVars
<1>19. CASE StopSeen(t, s)
  BY <1>19, FlowType, SlotType DEF StopSeen, slotVars, crashVars, agentVars
<1>20. CASE StopTimesOut(t, s)
  BY <1>20, FlowType, SlotType DEF StopTimesOut, slotVars, crashVars, agentVars
<1>21. CASE StopKills(t, s)
  BY <1>21, FlowType, SlotType DEF StopKills, slotVars, crashVars, agentVars
<1>22. CASE StopFails(t, s)
  BY <1>22, FlowType, SlotType DEF StopFails, slotVars, crashVars, agentVars
<1>23. CASE Killed(t, s)
  BY <1>23, FlowType, SlotType DEF Killed, slotVars, crashVars, agentVars
<1>24. CASE RestoreEnds(t, s)
  BY <1>24, FlowType, SlotType DEF RestoreEnds, slotVars, crashVars, agentVars
<1>25. CASE InstallBegins(t, s)
  BY <1>25, FlowType, SlotType DEF InstallBegins, slotVars, crashVars, agentVars
<1>26. CASE InstallEnds(t, s)
  BY <1>26, FlowType, SlotType DEF InstallEnds, slotVars, crashVars, agentVars
<1>27. CASE DeleteKilled(t, s)
  BY <1>27, FlowType, SlotType DEF DeleteKilled, slotVars, crashVars, agentVars
<1>28. CASE DeleteDone(t, s)
  BY <1>28, FlowType, SlotType DEF DeleteDone, slotVars, crashVars
<1>29. CASE DeleteFails(t, s)
  BY <1>29, FlowType, SlotType DEF DeleteFails, slotVars, crashVars, agentVars
<1>30. CASE Adopted(t, s)
  <2>1. task' \in [Tasks -> Activations]
    <3>1. [kind |-> "hold", srv |-> s, pc |-> "hold", again |-> FALSE] \in Activations
      BY TaskType
    <3>2. Ends(t) => task' \in [Tasks -> Activations]
      BY FlowType
    <3>3. \/ Ends(t)
          \/ task' = [task EXCEPT ![t] = [kind |-> "hold", srv |-> s, pc |-> "hold",
                                          again |-> FALSE]]
      BY <1>30 DEF Adopted
    <3>4. \A r \in Activations : [task EXCEPT ![t] = r] \in [Tasks -> Activations]
      BY TaskType
    <3> QED
      BY <3>1, <3>2, <3>3, <3>4
  <2>2. /\ bootSlots' \in Nat
        /\ bootWaiters' \in Seq(Tasks)
        /\ bootHeld' \in SUBSET Tasks
    BY <1>30, SlotType DEF Adopted
  <2>3. lock' \in [Servers -> Tasks \cup {NoTask}] /\ state' \in [Servers -> States]
    BY <1>30 DEF Adopted
  <2>4. running' \in [Servers -> BOOLEAN] /\ toAdopt' \in SUBSET Servers
    BY <1>30 DEF Adopted
  <2> QED
    BY <1>30, <2>1, <2>2, <2>3, <2>4 DEF Adopted, crashVars
<1>31. CASE AdoptFails(t, s)
  BY <1>31, FlowType, SlotType DEF AdoptFails, slotVars, crashVars
<1> QED
  BY <1>1, <1>2, <1>3, <1>4, <1>5, <1>6, <1>7, <1>8, <1>9, <1>10, <1>11,
     <1>12, <1>13, <1>14, <1>15, <1>16, <1>17, <1>18, <1>19, <1>20, <1>21,
     <1>22, <1>23, <1>24, <1>25, <1>26, <1>27, <1>28, <1>29, <1>30, <1>31
  DEF TaskStep, GrantStep, AwaitStep

\* Something new for the agent to do, a server's own step or a step of the
\* agent keeps the types.
LEMMA OtherStepType ==
  ASSUME TypeOK,
         \/ \E t \in Tasks, s \in Servers : ArrivalStep(t, s)
         \/ \E s \in Servers : ServerStep(s)
         \/ AgentStep
  PROVE  TypeOK'
<1> USE SpecsAssumption, BoundsAssumption DEF TypeOK, PCs, TaskKinds, Kinds, States
<1>1. ASSUME NEW t \in Tasks, NEW s \in Servers, TimerFires(t, s)
      PROVE  TypeOK'
  BY SMTT(30), <1>1, FlowType, SlotType DEF TimerFires, slotVars, agentVars
<1>2. ASSUME NEW t \in Tasks, NEW s \in Servers, InstallRequest(t, s)
      PROVE  TypeOK'
  BY <1>2, TaskType, SlotType DEF InstallRequest, slotVars, crashVars, agentVars
<1>3. ASSUME NEW t \in Tasks, NEW s \in Servers, DeleteRequest(t, s)
      PROVE  TypeOK'
  <2> DEFINE next == [kind |-> "delete", srv |-> s, again |-> FALSE,
                      pc |-> IF running[s] THEN "delkill" ELSE "delremove"]
  <2>1. next \in Activations
    BY TaskType
  <2>2. task' \in [Tasks -> Activations]
    <3>1. CASE queued[s] # NoTask
      <4>1. [task EXCEPT ![queued[s]] = Idle] \in [Tasks -> Activations]
        BY <3>1, TaskType
      <4>2. [task EXCEPT ![queued[s]] = Idle, ![t] = next] \in [Tasks -> Activations]
        BY <2>1, <4>1
      <4> QED
        BY <1>3, <3>1, <4>2 DEF DeleteRequest
    <3>2. CASE queued[s] = NoTask
      <4>1. task' = [task EXCEPT ![t] = next]
        BY <1>3, <3>2 DEF DeleteRequest
      <4> QED
        BY <2>1, <4>1, TaskType
    <3> QED
      BY <3>1, <3>2
  <2>3. /\ queued' \in [Servers -> Tasks \cup {NoTask}]
        /\ bootSlots' \in Nat
        /\ bootWaiters' \in Seq(Tasks)
        /\ bootHeld' \in SUBSET Tasks
    BY <1>3, SlotType DEF DeleteRequest
  <2>4. stopping' \in [Servers -> BOOLEAN]
    BY <1>3 DEF DeleteRequest
  <2> QED
    BY <1>3, <2>2, <2>3, <2>4 DEF DeleteRequest, crashVars, agentVars
<1>4. ASSUME NEW t \in Tasks, NEW s \in Servers, NEW k \in Requests, Request(t, k, s)
      PROVE  TypeOK'
  BY <1>4, FlowType, SlotType DEF Request, slotVars, crashVars, agentVars
<1>5. ASSUME NEW s \in Servers, ProcessDies(s)
      PROVE  TypeOK'
  BY <1>5, SlotType DEF ProcessDies, requestVars, slotVars, crashVars, agentVars
<1>6. ASSUME NEW s \in Servers, BootDone(s)
      PROVE  TypeOK'
  BY <1>6, SlotType DEF BootDone, requestVars, slotVars, crashVars, agentVars
<1>7. ASSUME NEW s \in Servers, ExitedClean(s)
      PROVE  TypeOK'
  BY <1>7, SlotType DEF ExitedClean, requestVars, slotVars, crashVars, agentVars
<1>8. ASSUME NEW s \in Servers, ExitedCrash(s)
      PROVE  TypeOK'
  BY SMTT(30), <1>8, SlotType DEF ExitedCrash, requestVars, slotVars, agentVars
<1>9. ASSUME NEW s \in Servers, CrashForgotten(s)
      PROVE  TypeOK'
  BY <1>9, SlotType DEF CrashForgotten, requestVars, slotVars, agentVars
<1>10. CASE AgentStops
  <2>1. lockq' \in [Servers -> Seq(Tasks)] /\ bootWaiters' \in Seq(Tasks)
    BY <1>10, EmptySeq DEF AgentStops
  <2>2. task' \in [Tasks -> Activations]
    BY <1>10, IdleType DEF AgentStops
  <2>3. crashes' \in [Servers -> 0 .. CrashLoopCount] /\ timers' \in [Servers -> Nat]
    BY <1>10 DEF AgentStops
  <2>4. state' \in [Servers -> States] /\ toAdopt' \in SUBSET Servers
    BY <1>10 DEF AgentStops
  <2> QED
    BY <1>10, <2>1, <2>2, <2>3, <2>4 DEF AgentStops
<1>11. CASE AdoptTimesOut
  BY <1>11, IdleType DEF AdoptTimesOut, crashVars, slotVars
<1>12. CASE AgentServes
  BY <1>12, SlotType DEF AgentServes, requestVars, slotVars, crashVars
<1>13. ASSUME NEW t \in Tasks, NEW s \in Servers, AdoptBegins(t, s)
      PROVE  TypeOK'
  BY <1>13, TaskType, SlotType DEF AdoptBegins, slotVars, crashVars, agentVars
<1> QED
  BY <1>1, <1>2, <1>3, <1>4, <1>5, <1>6, <1>7, <1>8, <1>9, <1>10, <1>11,
     <1>12, <1>13
  DEF ArrivalStep, ServerStep, AgentStep

\* Every variable of the Supervisor keeps its type (TypeOK), for any number
\* of servers, of tasks and of boot slots, and whatever fails.
THEOREM TypeCorrect == Spec => []TypeOK
<1>1. Init => TypeOK
  BY BoundsAssumption, EmptySeq, IdleType
  DEF Init, TypeOK, States
<1>2. TypeOK /\ [Next]_vars => TypeOK'
  <2> SUFFICES ASSUME TypeOK, [Next]_vars
               PROVE  TypeOK'
    OBVIOUS
  <2>1. CASE \E t \in Tasks, s \in Servers : TaskStep(t, s)
    BY <2>1, TaskStepType
  <2>2. CASE \/ \E t \in Tasks, s \in Servers : ArrivalStep(t, s)
             \/ \E s \in Servers : ServerStep(s)
             \/ AgentStep
    BY <2>2, OtherStepType
  <2>3. CASE UNCHANGED vars
    BY <2>3 DEF TypeOK, vars, requestVars, slotVars, crashVars, agentVars
  <2> QED
    BY <2>1, <2>2, <2>3 DEF Next
<1> QED
  BY <1>1, <1>2, PTL DEF Spec

-----------------------------------------------------------------------------
(* The boot semaphore.  BootSlotsConserved is not inductive: a step also   *)
(* relies on where the waiters of the semaphore are, on whom the queue     *)
(* names, and on which tasks can be at a point that owns a slot.           *)

Waits(t) == \E i \in DOMAIN bootWaiters : bootWaiters[i] = t

\* Nobody waits for a slot twice.
WaitersDistinct ==
  \A i, j \in DOMAIN bootWaiters : bootWaiters[i] = bootWaiters[j] => i = j

\* A waiter is at boot_slots.acquire(), and has not got a slot.
WaitersWait == \A t \in Tasks : Waits(t) => task[t].pc = "slot" /\ t \notin bootHeld

\* The queue names tasks that are at boot_slots.acquire(), for that server.
QueuedWait == \A s \in Servers : queued[s] # NoTask => At(queued[s], s, "slot")

\* The points of _start_queued, and of adopt_running.
StartqPCs == {"slot", "lock", "enter", "check", "ports", "create", "attached", "recheck"}

Placed(t) == /\ task[t].kind = "startq" => task[t].pc \in StartqPCs
             /\ task[t].kind = "adopt" => task[t].pc = "adopting"

SlotsInv ==
  /\ BootSlotsConserved
  /\ WaitersDistinct
  /\ WaitersWait
  /\ QueuedWait
  /\ \A t \in Tasks : Placed(t)

\* Every task but t is where it was.
Others(t) == \A u \in Tasks \ {t} : task'[u] = task[u]

\* Taking one element out of a sequence shifts the later ones down.
LEMMA RemoveAtElements ==
  ASSUME NEW S, NEW q \in Seq(S), NEW i \in 1 .. Len(q)
  PROVE  /\ Len(RemoveAt(q, i)) = Len(q) - 1
         /\ \A j \in 1 .. Len(q) - 1 : RemoveAt(q, i)[j] = IF j < i THEN q[j] ELSE q[j + 1]
<1>1. Len(q) \in Nat /\ \A j \in 1 .. Len(q) : q[j] \in S
  BY LenProperties, ElementOfSeq
<1>2. /\ SubSeq(q, 1, i - 1) \in Seq(S)
      /\ Len(SubSeq(q, 1, i - 1)) = i - 1
      /\ \A j \in 1 .. i - 1 : SubSeq(q, 1, i - 1)[j] = q[j]
  BY <1>1, SubSeqProperties
<1>3. /\ SubSeq(q, i + 1, Len(q)) \in Seq(S)
      /\ Len(SubSeq(q, i + 1, Len(q))) = Len(q) - i
      /\ \A j \in 1 .. Len(q) - i : SubSeq(q, i + 1, Len(q))[j] = q[i + j]
  <2>1. \A j \in (i + 1) .. Len(q) : q[j] \in S
    BY <1>1
  <2>2. /\ SubSeq(q, i + 1, Len(q)) \in Seq(S)
        /\ Len(SubSeq(q, i + 1, Len(q)))
             = IF i + 1 <= Len(q) THEN Len(q) - (i + 1) + 1 ELSE 0
        /\ \A j \in 1 .. Len(q) - (i + 1) + 1 :
             SubSeq(q, i + 1, Len(q))[j] = q[(i + 1) + j - 1]
    BY <1>1, <2>1, SubSeqProperties
  <2> QED
    BY <1>1, <2>2
<1>4. /\ Len(RemoveAt(q, i)) = (i - 1) + (Len(q) - i)
      /\ \A j \in 1 .. (i - 1) + (Len(q) - i) :
           RemoveAt(q, i)[j] = IF j <= i - 1 THEN SubSeq(q, 1, i - 1)[j]
                                             ELSE SubSeq(q, i + 1, Len(q))[j - (i - 1)]
  <2> DEFINE front == SubSeq(q, 1, i - 1)
             back == SubSeq(q, i + 1, Len(q))
  <2>1. /\ Len(front \o back) = Len(front) + Len(back)
        /\ \A j \in 1 .. Len(front) + Len(back) :
             (front \o back)[j] = IF j <= Len(front) THEN front[j] ELSE back[j - Len(front)]
    BY <1>2, <1>3, ConcatProperties
  <2>2. RemoveAt(q, i) = front \o back
    BY DEF RemoveAt
  <2>3. Len(front) = i - 1 /\ Len(back) = Len(q) - i
    BY <1>2, <1>3
  <2> HIDE DEF front, back
  <2>4. /\ Len(RemoveAt(q, i)) = (i - 1) + (Len(q) - i)
        /\ \A j \in 1 .. (i - 1) + (Len(q) - i) :
             RemoveAt(q, i)[j] = IF j <= i - 1 THEN front[j] ELSE back[j - (i - 1)]
    BY <2>1, <2>2, <2>3
  <2> QED
    BY <2>4 DEF front, back
<1>5. (i - 1) + (Len(q) - i) = Len(q) - 1
  BY <1>1
<1>6. ASSUME NEW j \in 1 .. Len(q) - 1, j < i
      PROVE  RemoveAt(q, i)[j] = q[j]
  <2>1. j \in 1 .. i - 1 /\ j <= i - 1
    BY <1>1, <1>6
  <2> QED
    BY <1>2, <1>4, <1>5, <2>1
<1>7. ASSUME NEW j \in 1 .. Len(q) - 1, ~(j < i)
      PROVE  RemoveAt(q, i)[j] = q[j + 1]
  <2>1. j - (i - 1) \in 1 .. Len(q) - i /\ ~(j <= i - 1)
    BY <1>1, <1>7
  <2>2. i + (j - (i - 1)) = j + 1
    BY <1>1
  <2>3. RemoveAt(q, i)[j] = SubSeq(q, i + 1, Len(q))[j - (i - 1)]
    BY <1>4, <1>5, <2>1
  <2>4. SubSeq(q, i + 1, Len(q))[j - (i - 1)] = q[i + (j - (i - 1))]
    BY <1>3, <2>1
  <2> QED
    BY <2>2, <2>3, <2>4
<1>8. Len(RemoveAt(q, i)) = Len(q) - 1
  BY <1>4, <1>5
<1> QED
  BY <1>6, <1>7, <1>8

\* The set of tasks a slot is given to is finite.
LEMMA HeldFinite ==
  ASSUME TypeOK
  PROVE  IsFiniteSet(bootHeld) /\ Cardinality(bootHeld) \in Nat
BY TasksAssumption, FS_Subset, FS_CardinalityType DEF TypeOK

\* The first waiter is a task that waits, and the others stay distinct.
LEMMA FirstWaiter ==
  ASSUME TypeOK, WaitersDistinct, bootWaiters # <<>>, bootWaiters' = Tail(bootWaiters)
  PROVE  /\ Head(bootWaiters) \in Tasks /\ Waits(Head(bootWaiters))
         /\ \A u \in Tasks : Waits(u)' => Waits(u) /\ u # Head(bootWaiters)
         /\ WaitersDistinct'
<1>1. /\ Len(bootWaiters) \in Nat \ {0}
      /\ DOMAIN bootWaiters = 1 .. Len(bootWaiters)
      /\ Head(bootWaiters) = bootWaiters[1]
  BY LenProperties, EmptySeq DEF TypeOK
<1>2. /\ Head(bootWaiters) \in Tasks
      /\ bootWaiters' \in Seq(Tasks)
      /\ Len(bootWaiters') = Len(bootWaiters) - 1
      /\ \A i \in 1 .. Len(bootWaiters') : bootWaiters'[i] = bootWaiters[i + 1]
  BY HeadTailProperties DEF TypeOK
<1>3. DOMAIN bootWaiters' = 1 .. Len(bootWaiters) - 1
  BY <1>2, LenProperties
<1>4. \A i \in DOMAIN bootWaiters' : /\ i + 1 \in DOMAIN bootWaiters
                                    /\ bootWaiters'[i] = bootWaiters[i + 1]
                                    /\ i + 1 # 1
  BY <1>1, <1>2, <1>3
<1>5. Waits(Head(bootWaiters))
  BY <1>1 DEF Waits
<1>6. \A u \in Tasks : Waits(u)' => Waits(u) /\ u # Head(bootWaiters)
  BY <1>1, <1>4 DEF Waits, WaitersDistinct
<1>7. WaitersDistinct'
  <2> SUFFICES ASSUME NEW i \in DOMAIN bootWaiters', NEW j \in DOMAIN bootWaiters',
                      bootWaiters'[i] = bootWaiters'[j]
               PROVE  i = j
    BY DEF WaitersDistinct
  <2>1. i + 1 = j + 1
    BY <1>4 DEF WaitersDistinct
  <2> QED
    BY <1>3, <2>1
<1> QED
  BY <1>2, <1>5, <1>6, <1>7

\* release() by a task that has a slot: the count still adds up, and the only
\* task that can have got the slot is one that was waiting.
LEMMA ReleaseKeeps ==
  ASSUME TypeOK, BootSlotsConserved, WaitersDistinct, WaitersWait,
         NEW t \in Tasks, t \in bootHeld, ReleasesSlot(t)
  PROVE  /\ bootSlots' + Cardinality(bootHeld') = MaxBoots
         /\ t \notin bootHeld' /\ bootHeld \ {t} \subseteq bootHeld'
         /\ \A u \in bootHeld' : u \in bootHeld \/ Waits(u)
         /\ \A u \in Tasks : Waits(u)' => Waits(u) /\ u \notin bootHeld'
         /\ WaitersDistinct'
<1>1. /\ IsFiniteSet(bootHeld) /\ IsFiniteSet(bootHeld \ {t})
      /\ Cardinality(bootHeld) \in Nat
      /\ Cardinality(bootHeld \ {t}) = Cardinality(bootHeld) - 1
  BY HeldFinite, FS_RemoveElement
<1>2. CASE bootWaiters = <<>>
  <2>1. /\ bootSlots' = bootSlots + 1 /\ bootHeld' = bootHeld \ {t}
        /\ bootWaiters' = bootWaiters
    BY <1>2 DEF ReleasesSlot
  <2>2. bootSlots' + Cardinality(bootHeld') = MaxBoots
    BY <1>1, <2>1 DEF BootSlotsConserved, TypeOK
  <2>3. \A u \in Tasks : Waits(u)' => Waits(u) /\ u \notin bootHeld'
    BY <2>1 DEF Waits, WaitersWait
  <2>4. WaitersDistinct'
    BY <2>1 DEF WaitersDistinct
  <2> QED
    BY <2>1, <2>2, <2>3, <2>4
<1>3. CASE bootWaiters # <<>>
  <2> DEFINE w == Head(bootWaiters)
  <2>1. /\ bootHeld' = (bootHeld \ {t}) \cup {w} /\ bootSlots' = bootSlots
        /\ bootWaiters' = Tail(bootWaiters)
    BY <1>3 DEF ReleasesSlot
  <2>2. /\ w \in Tasks /\ Waits(w)
        /\ \A u \in Tasks : Waits(u)' => Waits(u) /\ u # w
        /\ WaitersDistinct'
    BY <1>3, <2>1, FirstWaiter
  <2>3. w \notin bootHeld /\ w # t
    BY <2>2 DEF WaitersWait
  <2>4. Cardinality(bootHeld') = Cardinality(bootHeld)
    <3>1. Cardinality((bootHeld \ {t}) \cup {w}) = Cardinality(bootHeld \ {t}) + 1
      BY <1>1, <2>3, FS_AddElement
    <3> QED
      BY <1>1, <2>1, <3>1
  <2>5. bootSlots' + Cardinality(bootHeld') = MaxBoots
    BY <2>1, <2>4 DEF BootSlotsConserved
  <2>6. \A u \in Tasks : Waits(u)' => u \notin bootHeld'
    BY <2>1, <2>2 DEF WaitersWait
  <2> QED
    BY <2>1, <2>2, <2>3, <2>5, <2>6
<1> QED
  BY <1>2, <1>3

\* A waiter that is cancelled neither waits nor has a slot, and the count
\* still adds up.
LEMMA CancelKeeps ==
  ASSUME TypeOK, SlotsInv, NEW s \in Servers, queued[s] \in Tasks, CancelsQueued(s)
  PROVE  /\ bootSlots' + Cardinality(bootHeld') = MaxBoots
         /\ queued[s] \notin bootHeld' /\ bootHeld \ {queued[s]} \subseteq bootHeld'
         /\ \A u \in bootHeld' : u \in bootHeld \/ Waits(u)
         /\ \A u \in Tasks : Waits(u)' => Waits(u) /\ u \notin bootHeld' /\ u # queued[s]
         /\ WaitersDistinct'
<1> DEFINE q == queued[s]
<1>1. CASE q \in bootHeld /\ ReleasesSlot(q)
  <2>1. ~Waits(q)
    BY <1>1 DEF SlotsInv, WaitersWait
  <2> QED
    BY <1>1, <2>1, ReleaseKeeps DEF SlotsInv
<1>2. ASSUME q \notin bootHeld, UNCHANGED <<bootSlots, bootHeld>>,
             NEW i \in DOMAIN bootWaiters, bootWaiters[i] = q,
             bootWaiters' = RemoveAt(bootWaiters, i)
      PROVE  /\ bootSlots' + Cardinality(bootHeld') = MaxBoots
             /\ q \notin bootHeld' /\ bootHeld \ {q} \subseteq bootHeld'
             /\ \A u \in bootHeld' : u \in bootHeld \/ Waits(u)
             /\ \A u \in Tasks : Waits(u)' => Waits(u) /\ u \notin bootHeld' /\ u # q
             /\ WaitersDistinct'
  <2>1. DOMAIN bootWaiters = 1 .. Len(bootWaiters) /\ Len(bootWaiters) \in Nat
    BY LenProperties DEF TypeOK
  <2>2. /\ bootWaiters' \in Seq(Tasks)
        /\ Len(bootWaiters') = Len(bootWaiters) - 1
        /\ \A j \in 1 .. Len(bootWaiters) - 1 :
             bootWaiters'[j] = IF j < i THEN bootWaiters[j] ELSE bootWaiters[j + 1]
    BY <1>2, <2>1, RemoveAtType, RemoveAtElements DEF TypeOK
  <2>3. DOMAIN bootWaiters' = 1 .. Len(bootWaiters) - 1
    BY <2>2, LenProperties
  <2> DEFINE old(j) == IF j < i THEN j ELSE j + 1
  <2>4. \A j \in DOMAIN bootWaiters' : /\ old(j) \in DOMAIN bootWaiters
                                      /\ old(j) # i
                                      /\ bootWaiters'[j] = bootWaiters[old(j)]
    BY <2>1, <2>2, <2>3
  <2>5. \A u \in Tasks : Waits(u)' => Waits(u) /\ u # q
    BY <1>2, <2>4 DEF Waits, SlotsInv, WaitersDistinct
  <2>6. WaitersDistinct'
    <3> SUFFICES ASSUME NEW j \in DOMAIN bootWaiters', NEW k \in DOMAIN bootWaiters',
                        bootWaiters'[j] = bootWaiters'[k]
                 PROVE  j = k
      BY DEF WaitersDistinct
    <3>1. old(j) = old(k)
      BY <2>4 DEF SlotsInv, WaitersDistinct
    <3> QED
      BY <2>1, <2>3, <3>1
  <2>7. bootSlots' + Cardinality(bootHeld') = MaxBoots
    BY <1>2 DEF SlotsInv, BootSlotsConserved
  <2> QED
    BY <1>2, <2>5, <2>6, <2>7 DEF SlotsInv, WaitersWait
<1> QED
  BY <1>1, <1>2 DEF CancelsQueued

\* A step that touches neither the semaphore nor the queue, of a task that
\* is not waiting for a slot and owns one after it if it did before.
LEMMA QuietStep ==
  ASSUME TypeOK, SlotsInv, NEW t \in Tasks, Others(t), UNCHANGED <<queued, slotVars>>,
         task[t].pc # "slot", task'[t].pc # "slot",
         OwnsSlot(t)' <=> OwnsSlot(t), Placed(t)'
  PROVE  SlotsInv'
<1>1. bootSlots' = bootSlots /\ bootWaiters' = bootWaiters /\ bootHeld' = bootHeld
  BY DEF slotVars
<1>2. \A u \in Tasks : /\ OwnsSlot(u)' <=> OwnsSlot(u)
                       /\ task'[u].pc = "slot" <=> task[u].pc = "slot"
  BY DEF Others, OwnsSlot
<1>3. BootSlotsConserved'
  BY <1>1, <1>2 DEF SlotsInv, BootSlotsConserved, TypeOK
<1>4. WaitersDistinct' /\ WaitersWait'
  BY <1>1, <1>2 DEF SlotsInv, WaitersDistinct, WaitersWait, Waits
<1>5. QueuedWait'
  BY ZenonT(40) DEF SlotsInv, QueuedWait, At, Others, TypeOK
<1>6. \A u \in Tasks : Placed(u)'
  BY DEF SlotsInv, Placed, Others
<1> QED
  BY <1>3, <1>4, <1>5, <1>6 DEF SlotsInv

\* A step in which a task that owns a slot ends and gives it back.
LEMMA ReleasingStep ==
  ASSUME TypeOK, SlotsInv, NEW t \in Tasks, Others(t), UNCHANGED queued,
         OwnsSlot(t), task[t].pc # "slot", task'[t] = Idle, ReleasesSlot(t)
  PROVE  SlotsInv'
<1>1. t \in bootHeld
  BY DEF SlotsInv, BootSlotsConserved
<1>2. /\ bootSlots' + Cardinality(bootHeld') = MaxBoots
      /\ t \notin bootHeld' /\ bootHeld \ {t} \subseteq bootHeld'
      /\ \A u \in bootHeld' : u \in bootHeld \/ Waits(u)
      /\ \A u \in Tasks : Waits(u)' => Waits(u) /\ u \notin bootHeld'
      /\ WaitersDistinct'
  BY <1>1, ReleaseKeeps DEF SlotsInv
<1>3. ~OwnsSlot(t)' /\ task'[t].pc # "slot" /\ Placed(t)'
  BY DEF Idle, OwnsSlot, Placed
<1>4. \A u \in Tasks \ {t} : /\ OwnsSlot(u)' <=> OwnsSlot(u)
                             /\ task'[u] = task[u]
  BY DEF Others, OwnsSlot
<1>5. bootHeld' \subseteq Tasks
  <2>1. CASE bootWaiters = <<>>
    BY <2>1 DEF ReleasesSlot, TypeOK
  <2>2. CASE bootWaiters # <<>>
    <3>1. Head(bootWaiters) \in Tasks
      BY <2>2, HeadTailProperties DEF TypeOK
    <3> QED
      BY <2>2, <3>1 DEF ReleasesSlot, TypeOK
  <2> QED
    BY <2>1, <2>2
<1>6. BootSlotsConserved'
  <2>1. \A u \in Tasks : OwnsSlot(u)' => u \in bootHeld'
    BY <1>2, <1>3, <1>4 DEF SlotsInv, BootSlotsConserved
  <2>2. \A u \in bootHeld' : OwnsSlot(u)' \/ task'[u].pc = "slot"
    BY <1>2, <1>4, <1>5 DEF SlotsInv, BootSlotsConserved, WaitersWait
  <2> QED
    BY <1>2, <2>1, <2>2 DEF BootSlotsConserved
<1>7. WaitersWait'
  <2> SUFFICES ASSUME NEW u \in Tasks, Waits(u)'
               PROVE  task'[u].pc = "slot" /\ u \notin bootHeld'
    BY DEF WaitersWait
  <2>1. u # t /\ u \notin bootHeld' /\ task[u].pc = "slot"
    BY <1>2 DEF SlotsInv, WaitersWait
  <2> QED
    BY <1>4, <2>1
<1>8. QueuedWait'
  BY ZenonT(40) DEF SlotsInv, QueuedWait, At, Others, TypeOK
<1>9. \A u \in Tasks : Placed(u)'
  BY <1>3, <1>4 DEF SlotsInv, Placed
<1> QED
  BY <1>2, <1>6, <1>7, <1>8, <1>9 DEF SlotsInv

\* A step in which a task takes a free slot.
LEMMA TakingStep ==
  ASSUME TypeOK, SlotsInv, NEW t \in Tasks, Others(t), UNCHANGED queued,
         ~OwnsSlot(t), task[t].pc # "slot", OwnsSlot(t)', task'[t].pc # "slot",
         Placed(t)', TakesSlot(t), ~Locked
  PROVE  SlotsInv'
<1>1. /\ bootSlots' = bootSlots - 1 /\ bootHeld' = bootHeld \cup {t}
      /\ bootWaiters' = bootWaiters
  BY DEF TakesSlot
<1>2. t \notin bootHeld
  BY DEF SlotsInv, BootSlotsConserved
<1>3. \A u \in Tasks \ {t} : /\ OwnsSlot(u)' <=> OwnsSlot(u)
                             /\ task'[u] = task[u]
  BY DEF Others, OwnsSlot
<1>4. bootSlots' + Cardinality(bootHeld') = MaxBoots
  <2>1. /\ Cardinality(bootHeld \cup {t}) = Cardinality(bootHeld) + 1
        /\ Cardinality(bootHeld) \in Nat
    BY <1>2, HeldFinite, FS_AddElement
  <2> QED
    BY <1>1, <2>1 DEF SlotsInv, BootSlotsConserved, TypeOK
<1>5. BootSlotsConserved'
  <2>1. \A u \in Tasks : OwnsSlot(u)' => u \in bootHeld'
    BY <1>1, <1>3 DEF SlotsInv, BootSlotsConserved
  <2>2. \A u \in bootHeld' : OwnsSlot(u)' \/ task'[u].pc = "slot"
    BY <1>1, <1>3 DEF SlotsInv, BootSlotsConserved, TypeOK
  <2> QED
    BY <1>4, <2>1, <2>2 DEF BootSlotsConserved
<1>6. WaitersDistinct' /\ WaitersWait'
  BY <1>1, <1>3 DEF SlotsInv, WaitersDistinct, WaitersWait, Waits
<1>7. QueuedWait'
  BY ZenonT(40) DEF SlotsInv, QueuedWait, At, Others, TypeOK
<1>8. \A u \in Tasks : Placed(u)'
  BY <1>3 DEF SlotsInv, Placed
<1> QED
  BY <1>5, <1>6, <1>7, <1>8 DEF SlotsInv

\* A step in which a task takes the waiter of a server out of the queue.
LEMMA CancellingStep ==
  ASSUME TypeOK, SlotsInv, NEW t \in Tasks, NEW s \in Servers,
         queued[s] # NoTask, CancelsQueued(s), task'[queued[s]] = Idle,
         \A u \in Tasks \ {t, queued[s]} : task'[u] = task[u],
         ~OwnsSlot(t), task[t].pc # "slot", ~OwnsSlot(t)', task'[t].pc # "slot", Placed(t)'
  PROVE  SlotsInv'
<1>1. PICK q \in Tasks : q = queued[s] /\ At(q, s, "slot") /\ q # t
  BY DEF SlotsInv, QueuedWait, At, TypeOK
<1>2. /\ bootSlots' + Cardinality(bootHeld') = MaxBoots
      /\ q \notin bootHeld' /\ bootHeld \ {q} \subseteq bootHeld'
      /\ \A u \in bootHeld' : u \in bootHeld \/ Waits(u)
      /\ \A u \in Tasks : Waits(u)' => Waits(u) /\ u \notin bootHeld' /\ u # q
      /\ WaitersDistinct'
  BY <1>1, CancelKeeps
<1>3. ~OwnsSlot(q)' /\ Placed(q)'
  BY <1>1 DEF Idle, OwnsSlot, Placed
<1>4. \A u \in Tasks \ {t, q} : /\ OwnsSlot(u)' <=> OwnsSlot(u)
                                /\ task'[u] = task[u]
  BY <1>1 DEF OwnsSlot
<1>5. t \notin bootHeld /\ ~Waits(t)
  BY DEF SlotsInv, BootSlotsConserved, WaitersWait
<1>6. bootHeld' \subseteq Tasks
  BY <1>1, SlotType DEF TypeOK
<1>7. BootSlotsConserved'
  <2>1. \A u \in Tasks : OwnsSlot(u)' => u \in bootHeld'
    BY <1>2, <1>3, <1>4 DEF SlotsInv, BootSlotsConserved
  <2>2. \A u \in bootHeld' : OwnsSlot(u)' \/ task'[u].pc = "slot"
    BY <1>2, <1>4, <1>5, <1>6 DEF SlotsInv, BootSlotsConserved, WaitersWait
  <2> QED
    BY <1>2, <2>1, <2>2 DEF BootSlotsConserved
<1>8. WaitersWait'
  <2> SUFFICES ASSUME NEW u \in Tasks, Waits(u)'
               PROVE  task'[u].pc = "slot" /\ u \notin bootHeld'
    BY DEF WaitersWait
  <2>1. u # q /\ u # t /\ u \notin bootHeld' /\ task[u].pc = "slot"
    BY <1>2, <1>5 DEF SlotsInv, WaitersWait
  <2> QED
    BY <1>4, <2>1
<1>9. QueuedWait'
  <2> SUFFICES ASSUME NEW r \in Servers, queued'[r] # NoTask
               PROVE  At(queued[r], r, "slot")'
    BY DEF QueuedWait
  <2>1. r # s /\ queued'[r] = queued[r]
    BY DEF CancelsQueued, TypeOK
  <2>2. queued[r] \in Tasks /\ At(queued[r], r, "slot")
    BY <2>1 DEF SlotsInv, QueuedWait, TypeOK
  <2>3. queued[r] # q /\ queued[r] # t
    BY <1>1, <2>1, <2>2 DEF At
  <2> QED
    BY <1>4, <2>1, <2>2, <2>3 DEF At
<1>10. \A u \in Tasks : Placed(u)'
  BY <1>3, <1>4 DEF SlotsInv, Placed
<1> QED
  BY <1>2, <1>7, <1>8, <1>9, <1>10 DEF SlotsInv

\* What the helpers of the actions do to the task of the step, and that they
\* do nothing to the others.
LEMMA FlowTask ==
  ASSUME TypeOK, NEW t \in Tasks, NEW s \in Servers
  PROVE  /\ Ends(t) => Others(t) /\ task'[t] = Idle
         /\ \A p : Goto(t, p) => /\ Others(t)
                                 /\ task'[t].pc = p /\ task'[t].kind = task[t].kind
         /\ Leaves(t, s) => Others(t) /\ task'[t] = Idle
         /\ \A p : Suspends(t, s, p) => /\ Others(t)
                                        /\ task'[t].pc = p
                                        /\ task'[t].kind = task[t].kind
         /\ BeginsStart(t, s) \/ AfterStop(t, s)
              => /\ Others(t)
                 /\ \/ task'[t] = Idle
                    \/ /\ task'[t].pc \in {"check", "restoring"}
                       /\ task'[t].kind = task[t].kind
         /\ \A k : ComesToLock(t, k, s) => /\ Others(t)
                                           /\ task'[t].pc \in {"enter", "lock"}
                                           /\ task'[t].kind = k
         /\ Granted(t, s) => task[t].pc \in {"enter", "lock"}
<1> USE DEF TypeOK, Activations, Others
<1>1. Ends(t) => Others(t) /\ task'[t] = Idle
  BY DEF Ends
<1>2. \A p : Goto(t, p) => /\ Others(t)
                           /\ task'[t].pc = p /\ task'[t].kind = task[t].kind
  BY DEF Goto
<1>3. Leaves(t, s) => Others(t) /\ task'[t] = Idle
  BY <1>1 DEF Leaves
<1>4. \A p : Suspends(t, s, p) => /\ Others(t)
                                  /\ task'[t].pc = p
                                  /\ task'[t].kind = task[t].kind
  BY <1>2 DEF Suspends
<1>5. BeginsStart(t, s) => /\ Others(t)
                           /\ \/ task'[t] = Idle
                              \/ /\ task'[t].pc \in {"check", "restoring"}
                                 /\ task'[t].kind = task[t].kind
  BY <1>3, <1>4 DEF BeginsStart
<1>6. AfterStop(t, s) => /\ Others(t)
                         /\ \/ task'[t] = Idle
                            \/ /\ task'[t].pc \in {"check", "restoring"}
                               /\ task'[t].kind = task[t].kind
  BY <1>3, <1>4, <1>5 DEF AfterStop
<1>7. \A k : ComesToLock(t, k, s) => /\ Others(t)
                                     /\ task'[t].pc \in {"enter", "lock"}
                                     /\ task'[t].kind = k
  BY DEF ComesToLock
<1>8. Granted(t, s) => task[t].pc \in {"enter", "lock"}
  BY DEF Granted, At, Resumes
<1> QED
  BY <1>1, <1>2, <1>3, <1>4, <1>5, <1>6, <1>7, <1>8

\* A step of a task keeps the invariant.
LEMMA TaskStepSlots ==
  ASSUME TypeOK, SlotsInv, NEW t \in Tasks, NEW s \in Servers, TaskStep(t, s)
  PROVE  SlotsInv'
<1> USE DEF OwnsSlot, Placed, StartqPCs, Idle
<1>0. Placed(t) /\ task[t] \in Activations
  BY DEF SlotsInv, TypeOK
<1>1. CASE GrantStart(t, s)
  <2>1. Others(t) /\ task[t].pc # "slot" /\ task'[t].pc # "slot"
    BY <1>1, FlowTask DEF GrantStart
  <2>2. (OwnsSlot(t)' <=> OwnsSlot(t)) /\ Placed(t)'
    BY <1>0, <1>1, FlowTask DEF GrantStart
  <2> QED
    BY <1>1, <2>1, <2>2, QuietStep DEF GrantStart
<1>2. CASE GrantLater(t, s)
  <2>1. Others(t) /\ task[t].pc # "slot" /\ task'[t].pc # "slot"
    BY <1>2, FlowTask DEF GrantLater
  <2>2. (OwnsSlot(t)' <=> OwnsSlot(t)) /\ Placed(t)'
    BY <1>0, <1>2, FlowTask DEF GrantLater
  <2> QED
    BY <1>2, <2>1, <2>2, QuietStep DEF GrantLater
<1>3. CASE GrantQueued(t, s)
  <2>1. task[t].kind = "startq" /\ task[t].pc \in {"enter", "lock"}
    BY <1>3, FlowTask DEF GrantQueued
  <2>2. CASE Leaves(t, s) /\ ReleasesSlot(t)
    BY <1>3, <2>1, <2>2, FlowTask, ReleasingStep DEF GrantQueued
  <2>3. CASE Suspends(t, s, "check") /\ UNCHANGED slotVars
    <3>1. Others(t) /\ task'[t].pc = "check" /\ task'[t].kind = "startq"
      BY <2>1, <2>3, FlowTask
    <3> QED
      BY <1>3, <2>1, <2>3, <3>1, QuietStep DEF GrantQueued
  <2> QED
    BY <1>3, <2>2, <2>3 DEF GrantQueued
<1>4. CASE GrantStopQueued(t, s)
  <2>1. /\ task[t].kind \in {"stop", "restart", "restore"}
        /\ task[t].pc \in {"enter", "lock"} /\ ~OwnsSlot(t)
    BY <1>4, FlowTask DEF GrantStopQueued
  <2>2. PICK q \in Tasks : q = queued[s] /\ task[q].pc = "slot"
    BY <1>4 DEF GrantStopQueued, SlotsInv, QueuedWait, At, TypeOK
  <2>3. \/ task' = [task EXCEPT ![q] = Idle, ![t].pc = "check"]
        \/ task' = [task EXCEPT ![q] = Idle, ![t] = Idle]
    BY <1>4, <2>2 DEF GrantStopQueued
  <2>4. task'[q] = Idle /\ \A u \in Tasks \ {t, q} : task'[u] = task[u]
    BY <2>1, <2>2, <2>3 DEF TypeOK
  <2>5. task'[t] = Idle \/ (task'[t].pc = "check" /\ task'[t].kind = task[t].kind)
    <3>1. task[t] \in Activations /\ q # t
      BY <1>0, <2>1, <2>2
    <3>2. CASE task' = [task EXCEPT ![q] = Idle, ![t].pc = "check"]
      <4>1. task'[t] = [task[t] EXCEPT !.pc = "check"]
        BY <3>1, <3>2 DEF TypeOK
      <4> QED
        BY <3>1, <4>1 DEF Activations
    <3>3. CASE task' = [task EXCEPT ![q] = Idle, ![t] = Idle]
      BY <3>3 DEF TypeOK
    <3> QED
      BY <2>3, <3>2, <3>3
  <2>6. ~OwnsSlot(t)' /\ task'[t].pc # "slot" /\ Placed(t)'
    BY <2>1, <2>5
  <2> QED
    BY <1>4, <2>1, <2>2, <2>4, <2>6, CancellingStep DEF GrantStopQueued
<1>5. CASE GrantStopIdle(t, s)
  <2>1. Others(t) /\ task[t].pc # "slot" /\ task'[t].pc # "slot"
    BY <1>5, FlowTask DEF GrantStopIdle
  <2>2. (OwnsSlot(t)' <=> OwnsSlot(t)) /\ Placed(t)'
    BY <1>0, <1>5, FlowTask DEF GrantStopIdle
  <2> QED
    BY <1>5, <2>1, <2>2, QuietStep DEF GrantStopIdle
<1>6. CASE GrantStopRunning(t, s)
  <2>1. PICK b \in BOOLEAN : task' = [task EXCEPT ![t].pc = "stopping", ![t].again = b]
    BY <1>6 DEF GrantStopRunning
  <2>2. Others(t) /\ task'[t] = [task[t] EXCEPT !.pc = "stopping", !.again = b]
    BY <2>1 DEF Others, TypeOK
  <2>3. task'[t].pc = "stopping" /\ task'[t].kind \in {"stop", "restart", "restore"}
    BY <1>0, <1>6, <2>2 DEF GrantStopRunning, Activations
  <2>4. task[t].pc # "slot" /\ ~OwnsSlot(t)
    BY <1>6, FlowTask DEF GrantStopRunning
  <2> QED
    BY <1>6, <2>2, <2>3, <2>4, QuietStep DEF GrantStopRunning
<1>7. CASE GrantKill(t, s)
  <2>1. Others(t) /\ task[t].pc # "slot" /\ task'[t].pc # "slot"
    BY <1>7, FlowTask DEF GrantKill
  <2>2. (OwnsSlot(t)' <=> OwnsSlot(t)) /\ Placed(t)'
    BY <1>0, <1>7, FlowTask DEF GrantKill
  <2> QED
    BY <1>7, <2>1, <2>2, QuietStep DEF GrantKill
<1>8. CASE GrantRestore(t, s)
  <2>1. Others(t) /\ task[t].pc # "slot" /\ task'[t].pc # "slot"
    BY <1>8, FlowTask DEF GrantRestore
  <2>2. (OwnsSlot(t)' <=> OwnsSlot(t)) /\ Placed(t)'
    BY <1>0, <1>8, FlowTask DEF GrantRestore
  <2> QED
    BY <1>8, <2>1, <2>2, QuietStep DEF GrantRestore
<1>9. CASE CheckRefused(t, s)
  <2>1. Others(t) /\ task'[t] = Idle /\ task[t].pc # "slot"
    BY <1>9, FlowTask DEF CheckRefused, Resumes
  <2>2. CASE OwnsSlot(t)
    BY <1>9, <2>1, <2>2, ReleasingStep DEF CheckRefused
  <2>3. CASE ~OwnsSlot(t)
    BY <1>9, <2>1, <2>3, QuietStep DEF CheckRefused
  <2> QED
    BY <2>2, <2>3
<1>10. CASE CheckLaunches(t, s)
  <2>1. /\ Others(t) /\ task[t].pc # "slot" /\ task'[t].pc = "ports"
        /\ task[t].kind # "adopt" /\ task'[t].kind = task[t].kind
    BY <1>0, <1>10, FlowTask DEF CheckLaunches, Resumes
  <2>2. OwnsSlot(t)' /\ task'[t].pc # "slot" /\ Placed(t)'
    BY <2>1
  <2>3. CASE OwnsSlot(t) /\ UNCHANGED slotVars
    BY <1>10, <2>1, <2>2, <2>3, QuietStep DEF CheckLaunches
  <2>4. CASE ~OwnsSlot(t) /\ ~Locked /\ TakesSlot(t)
    BY <1>10, <2>1, <2>2, <2>4, TakingStep DEF CheckLaunches
  <2> QED
    BY <1>10, <2>3, <2>4 DEF CheckLaunches
<1>11. CASE CheckQueues(t, s)
  <2>1. /\ task' = [task EXCEPT ![t] = [kind |-> "startq", srv |-> s, pc |-> "slot",
                                        again |-> FALSE]]
        /\ queued' = [queued EXCEPT ![s] = t]
        /\ bootWaiters' = Append(bootWaiters, t)
        /\ bootSlots' = bootSlots /\ bootHeld' = bootHeld
        /\ task[t].pc = "check" /\ ~OwnsSlot(t)
    BY <1>11 DEF CheckQueues, Resumes
  <2>2. /\ task'[t] = [kind |-> "startq", srv |-> s, pc |-> "slot", again |-> FALSE]
        /\ \A u \in Tasks \ {t} : task'[u] = task[u]
    BY <2>1 DEF TypeOK
  <2>3. t \notin bootHeld /\ ~Waits(t)
    BY <2>1 DEF SlotsInv, BootSlotsConserved, WaitersWait
  <2>4. BootSlotsConserved'
    <3>1. \A u \in Tasks : OwnsSlot(u)' => u \in bootHeld'
      BY <2>1, <2>2 DEF SlotsInv, BootSlotsConserved
    <3>2. \A u \in bootHeld' : OwnsSlot(u)' \/ task'[u].pc = "slot"
      BY <2>1, <2>2, <2>3 DEF SlotsInv, BootSlotsConserved, TypeOK
    <3> QED
      BY <2>1, <3>1, <3>2 DEF SlotsInv, BootSlotsConserved
  <2>5. /\ DOMAIN bootWaiters = 1 .. Len(bootWaiters) /\ Len(bootWaiters) \in Nat
        /\ DOMAIN bootWaiters' = 1 .. Len(bootWaiters) + 1
        /\ \A i \in 1 .. Len(bootWaiters) : bootWaiters'[i] = bootWaiters[i]
        /\ bootWaiters'[Len(bootWaiters) + 1] = t
    BY <2>1, AppendProperties, LenProperties DEF TypeOK
  <2>6. WaitersDistinct'
    BY <2>3, <2>5 DEF SlotsInv, WaitersDistinct, Waits
  <2>7. WaitersWait'
    <3>1. \A u \in Tasks : Waits(u)' => Waits(u) \/ u = t
      BY <2>5 DEF Waits
    <3> QED
      BY <2>1, <2>2, <2>3, <3>1 DEF SlotsInv, WaitersWait
  <2>8. QueuedWait'
    BY <2>1, <2>2 DEF SlotsInv, QueuedWait, At, TypeOK
  <2>9. \A u \in Tasks : Placed(u)'
    BY <2>2 DEF SlotsInv
  <2> QED
    BY <2>4, <2>6, <2>7, <2>8, <2>9 DEF SlotsInv
<1>12. CASE SlotRun(t, s)
  <2>1. /\ Others(t) /\ task'[t].kind = "startq" /\ task'[t].pc \in {"enter", "lock"}
        /\ task[t].pc = "slot" /\ task[t].srv = s /\ t \in bootHeld
        /\ queued' = [queued EXCEPT ![s] = NoTask]
    BY <1>12, FlowTask DEF SlotRun, Resumes
  <2>2. /\ \A u \in Tasks \ {t} : task'[u] = task[u]
        /\ \A u \in Tasks \ {t} : OwnsSlot(u)' <=> OwnsSlot(u)
        /\ OwnsSlot(t)'
    BY <2>1 DEF Others
  <2>3. ~Waits(t)
    BY <2>1 DEF SlotsInv, WaitersWait
  <2>4. /\ bootSlots' + Cardinality(bootHeld') = MaxBoots
        /\ bootHeld \subseteq bootHeld' /\ bootHeld' \subseteq Tasks
        /\ \A u \in bootHeld' : u \in bootHeld \/ Waits(u)
        /\ \A u \in Tasks : Waits(u)' => Waits(u) /\ u \notin bootHeld'
        /\ WaitersDistinct'
    <3>1. CASE ~(bootSlots > 0 /\ bootWaiters # <<>>)
      <4>1. bootSlots' = bootSlots /\ bootWaiters' = bootWaiters /\ bootHeld' = bootHeld
        BY <1>12, <3>1 DEF SlotRun, slotVars
      <4> QED
        BY <4>1 DEF SlotsInv, BootSlotsConserved, WaitersWait, WaitersDistinct, Waits, TypeOK
    <3>2. CASE bootSlots > 0 /\ bootWaiters # <<>>
      <4> DEFINE w == Head(bootWaiters)
      <4>1. /\ bootSlots' = bootSlots - 1 /\ bootHeld' = bootHeld \cup {w}
            /\ bootWaiters' = Tail(bootWaiters)
        BY <1>12, <3>2 DEF SlotRun
      <4>2. /\ w \in Tasks /\ Waits(w)
            /\ \A u \in Tasks : Waits(u)' => Waits(u) /\ u # w
            /\ WaitersDistinct'
        BY <3>2, <4>1, FirstWaiter DEF SlotsInv
      <4>3. w \notin bootHeld
        BY <4>2 DEF SlotsInv, WaitersWait
      <4>4. Cardinality(bootHeld') = Cardinality(bootHeld) + 1 /\ Cardinality(bootHeld) \in Nat
        BY <4>1, <4>3, HeldFinite, FS_AddElement
      <4>5. bootSlots' + Cardinality(bootHeld') = MaxBoots
        BY <4>1, <4>4 DEF SlotsInv, BootSlotsConserved, TypeOK
      <4>6. \A u \in Tasks : Waits(u)' => u \notin bootHeld'
        BY <4>1, <4>2 DEF SlotsInv, WaitersWait
      <4> QED
        BY <4>1, <4>2, <4>5, <4>6 DEF TypeOK
    <3> QED
      BY <3>1, <3>2
  <2>5. BootSlotsConserved'
    <3>1. \A u \in Tasks : OwnsSlot(u)' => u \in bootHeld'
      BY <2>1, <2>2, <2>4 DEF SlotsInv, BootSlotsConserved
    <3>2. \A u \in bootHeld' : OwnsSlot(u)' \/ task'[u].pc = "slot"
      BY <2>2, <2>4 DEF SlotsInv, BootSlotsConserved, WaitersWait
    <3> QED
      BY <2>4, <3>1, <3>2 DEF BootSlotsConserved
  <2>6. WaitersWait'
    <3> SUFFICES ASSUME NEW u \in Tasks, Waits(u)'
                 PROVE  task'[u].pc = "slot" /\ u \notin bootHeld'
      BY DEF WaitersWait
    <3>1. u # t /\ u \notin bootHeld' /\ task[u].pc = "slot"
      BY <2>3, <2>4 DEF SlotsInv, WaitersWait
    <3> QED
      BY <2>2, <3>1
  <2>7. QueuedWait'
    <3> SUFFICES ASSUME NEW r \in Servers, queued'[r] # NoTask
                 PROVE  At(queued[r], r, "slot")' /\ queued'[r] = queued[r]
      BY DEF QueuedWait, At
    <3>1. r # s /\ queued'[r] = queued[r]
      BY <2>1 DEF TypeOK
    <3>2. queued[r] \in Tasks /\ At(queued[r], r, "slot")
      BY <3>1 DEF SlotsInv, QueuedWait, TypeOK
    <3>3. queued[r] # t
      BY <2>1, <3>1, <3>2 DEF At
    <3> QED
      BY <2>2, <3>1, <3>2, <3>3 DEF At
  <2>8. \A u \in Tasks : Placed(u)'
    BY <2>1, <2>2 DEF SlotsInv
  <2> QED
    BY <2>4, <2>5, <2>6, <2>7, <2>8 DEF SlotsInv
<1>13. CASE Launch(t, s)
  <2>1. Others(t) /\ task[t].pc # "slot" /\ task'[t].pc # "slot"
    BY <1>13, FlowTask DEF Launch, Resumes
  <2>2. (OwnsSlot(t)' <=> OwnsSlot(t)) /\ Placed(t)'
    BY <1>0, <1>13, FlowTask DEF Launch, Resumes
  <2> QED
    BY <1>13, <2>1, <2>2, QuietStep DEF Launch
<1>14. CASE Create(t, s)
  <2>1. Others(t) /\ task[t].pc # "slot" /\ task'[t].pc # "slot"
    BY <1>14, FlowTask DEF Create, Resumes
  <2>2. (OwnsSlot(t)' <=> OwnsSlot(t)) /\ Placed(t)'
    BY <1>0, <1>14, FlowTask DEF Create, Resumes
  <2> QED
    BY <1>14, <2>1, <2>2, QuietStep DEF Create
<1>15. CASE CreateFails(t, s)
  <2>1. Others(t) /\ task'[t] = Idle /\ task[t].pc # "slot" /\ OwnsSlot(t)
    BY <1>15, FlowTask DEF CreateFails, Resumes
  <2> QED
    BY <1>15, <2>1, ReleasingStep DEF CreateFails
<1>16. CASE CreateTaken(t, s)
  <2>1. Others(t) /\ task[t].pc # "slot" /\ task'[t].pc # "slot"
    BY <1>16, FlowTask DEF CreateTaken, Resumes
  <2>2. (OwnsSlot(t)' <=> OwnsSlot(t)) /\ Placed(t)'
    BY <1>0, <1>16, FlowTask DEF CreateTaken, Resumes
  <2> QED
    BY <1>16, <2>1, <2>2, QuietStep DEF CreateTaken
<1>17. CASE Attached(t, s)
  <2>1. Others(t) /\ task[t].pc # "slot" /\ task'[t].pc # "slot"
    BY <1>17, FlowTask DEF Attached, Resumes, Others, TypeOK, Activations
  <2>2. (OwnsSlot(t)' <=> OwnsSlot(t)) /\ Placed(t)'
    BY <1>0, <1>17, FlowTask DEF Attached, Resumes, Others, TypeOK, Activations
  <2> QED
    BY <1>17, <2>1, <2>2, QuietStep DEF Attached
<1>18. CASE HoldEnds(t, s)
  <2>1. Others(t) /\ task'[t] = Idle /\ task[t].pc # "slot" /\ OwnsSlot(t)
    BY <1>18, FlowTask DEF HoldEnds, Resumes
  <2> QED
    BY <1>18, <2>1, ReleasingStep DEF HoldEnds
<1>19. CASE StopSeen(t, s)
  <2>1. Others(t) /\ task[t].pc # "slot" /\ task'[t].pc # "slot"
    BY <1>19, FlowTask DEF StopSeen, Resumes
  <2>2. (OwnsSlot(t)' <=> OwnsSlot(t)) /\ Placed(t)'
    BY <1>0, <1>19, FlowTask DEF StopSeen, Resumes
  <2> QED
    BY <1>19, <2>1, <2>2, QuietStep DEF StopSeen
<1>20. CASE StopTimesOut(t, s)
  <2>1. Others(t) /\ task[t].pc # "slot" /\ task'[t].pc # "slot"
    BY <1>20, FlowTask DEF StopTimesOut, Resumes
  <2>2. (OwnsSlot(t)' <=> OwnsSlot(t)) /\ Placed(t)'
    BY <1>0, <1>20, FlowTask DEF StopTimesOut, Resumes
  <2> QED
    BY <1>20, <2>1, <2>2, QuietStep DEF StopTimesOut
<1>21. CASE StopKills(t, s)
  <2>1. Others(t) /\ task[t].pc # "slot" /\ task'[t].pc # "slot"
    BY <1>21, FlowTask DEF StopKills, Resumes
  <2>2. (OwnsSlot(t)' <=> OwnsSlot(t)) /\ Placed(t)'
    BY <1>0, <1>21, FlowTask DEF StopKills, Resumes
  <2> QED
    BY <1>21, <2>1, <2>2, QuietStep DEF StopKills
<1>22. CASE StopFails(t, s)
  <2>1. Others(t) /\ task[t].pc # "slot" /\ task'[t].pc # "slot"
    BY <1>22, FlowTask DEF StopFails, Resumes
  <2>2. (OwnsSlot(t)' <=> OwnsSlot(t)) /\ Placed(t)'
    BY <1>0, <1>22, FlowTask DEF StopFails, Resumes
  <2> QED
    BY <1>22, <2>1, <2>2, QuietStep DEF StopFails
<1>23. CASE Killed(t, s)
  <2>1. Others(t) /\ task[t].pc # "slot" /\ task'[t].pc # "slot"
    BY <1>23, FlowTask DEF Killed, Resumes
  <2>2. (OwnsSlot(t)' <=> OwnsSlot(t)) /\ Placed(t)'
    BY <1>0, <1>23, FlowTask DEF Killed, Resumes
  <2> QED
    BY <1>23, <2>1, <2>2, QuietStep DEF Killed
<1>24. CASE RestoreEnds(t, s)
  <2>1. Others(t) /\ task[t].pc # "slot" /\ task'[t].pc # "slot"
    BY <1>24, FlowTask DEF RestoreEnds, Resumes
  <2>2. (OwnsSlot(t)' <=> OwnsSlot(t)) /\ Placed(t)'
    BY <1>0, <1>24, FlowTask DEF RestoreEnds, Resumes
  <2> QED
    BY <1>24, <2>1, <2>2, QuietStep DEF RestoreEnds
<1>25. CASE InstallBegins(t, s)
  <2>1. Others(t) /\ task[t].pc # "slot" /\ task'[t].pc # "slot"
    BY <1>25, FlowTask DEF InstallBegins, Resumes
  <2>2. (OwnsSlot(t)' <=> OwnsSlot(t)) /\ Placed(t)'
    BY <1>0, <1>25, FlowTask DEF InstallBegins, Resumes
  <2> QED
    BY <1>25, <2>1, <2>2, QuietStep DEF InstallBegins
<1>26. CASE InstallEnds(t, s)
  <2>1. Others(t) /\ task[t].pc # "slot" /\ task'[t].pc # "slot"
    BY <1>26, FlowTask DEF InstallEnds, Resumes
  <2>2. (OwnsSlot(t)' <=> OwnsSlot(t)) /\ Placed(t)'
    BY <1>0, <1>26, FlowTask DEF InstallEnds, Resumes
  <2> QED
    BY <1>26, <2>1, <2>2, QuietStep DEF InstallEnds
<1>27. CASE DeleteKilled(t, s)
  <2>1. Others(t) /\ task[t].pc # "slot" /\ task'[t].pc # "slot"
    BY <1>27, FlowTask DEF DeleteKilled, Resumes
  <2>2. (OwnsSlot(t)' <=> OwnsSlot(t)) /\ Placed(t)'
    BY <1>0, <1>27, FlowTask DEF DeleteKilled, Resumes
  <2> QED
    BY <1>27, <2>1, <2>2, QuietStep DEF DeleteKilled
<1>28. CASE DeleteDone(t, s)
  <2>1. Others(t) /\ task[t].pc # "slot" /\ task'[t].pc # "slot"
    BY <1>28, FlowTask DEF DeleteDone, Resumes
  <2>2. (OwnsSlot(t)' <=> OwnsSlot(t)) /\ Placed(t)'
    BY <1>0, <1>28, FlowTask DEF DeleteDone, Resumes
  <2> QED
    BY <1>28, <2>1, <2>2, QuietStep DEF DeleteDone
<1>29. CASE DeleteFails(t, s)
  <2>1. Others(t) /\ task[t].pc # "slot" /\ task'[t].pc # "slot"
    BY <1>29, FlowTask DEF DeleteFails, Resumes
  <2>2. (OwnsSlot(t)' <=> OwnsSlot(t)) /\ Placed(t)'
    BY <1>0, <1>29, FlowTask DEF DeleteFails, Resumes
  <2> QED
    BY <1>29, <2>1, <2>2, QuietStep DEF DeleteFails
<1>30. CASE Adopted(t, s)
  <2>1. task[t].pc = "adopting" /\ ~OwnsSlot(t)
    BY <1>30 DEF Adopted, Resumes, SlotsInv
  <2>2. CASE Ends(t) /\ UNCHANGED slotVars
    BY <1>30, <2>1, <2>2, FlowTask, QuietStep DEF Adopted
  <2>3. CASE /\ ~Locked /\ TakesSlot(t)
             /\ task' = [task EXCEPT ![t] = [kind |-> "hold", srv |-> s, pc |-> "hold",
                                             again |-> FALSE]]
    <3>1. Others(t) /\ task'[t].pc = "hold" /\ task'[t].kind = "hold"
      BY <2>3 DEF Others, TypeOK
    <3>2. OwnsSlot(t)' /\ task'[t].pc # "slot" /\ Placed(t)'
      BY <3>1
    <3> QED
      BY <1>30, <2>1, <2>3, <3>1, <3>2, TakingStep DEF Adopted
  <2> QED
    BY <1>30, <2>2, <2>3 DEF Adopted
<1>31. CASE AdoptFails(t, s)
  <2>1. Others(t) /\ task[t].pc # "slot" /\ task'[t].pc # "slot"
    BY <1>31, FlowTask DEF AdoptFails, Resumes
  <2>2. (OwnsSlot(t)' <=> OwnsSlot(t)) /\ Placed(t)'
    BY <1>0, <1>31, FlowTask DEF AdoptFails, Resumes
  <2> QED
    BY <1>31, <2>1, <2>2, QuietStep DEF AdoptFails
<1> QED
  BY <1>1, <1>2, <1>3, <1>4, <1>5, <1>6, <1>7, <1>8, <1>9, <1>10, <1>11,
     <1>12, <1>13, <1>14, <1>15, <1>16, <1>17, <1>18, <1>19, <1>20, <1>21,
     <1>22, <1>23, <1>24, <1>25, <1>26, <1>27, <1>28, <1>29, <1>30, <1>31
  DEF TaskStep, GrantStep, AwaitStep

\* A step that touches neither a task, nor the queue, nor the semaphore.
LEMMA FrameStep ==
  ASSUME SlotsInv, UNCHANGED <<task, queued, slotVars>>
  PROVE  SlotsInv'
BY DEF SlotsInv, BootSlotsConserved, OwnsSlot, WaitersDistinct, WaitersWait, Waits,
       QueuedWait, At, Placed, slotVars

\* An idle task neither waits for a slot nor owns one.
LEMMA IdleFacts ==
  ASSUME SlotsInv, NEW t \in Tasks, IsIdle(t)
  PROVE  task[t].pc # "slot" /\ ~OwnsSlot(t)
BY DEF IsIdle, Idle, OwnsSlot

\* So does any other step.
LEMMA OtherStepSlots ==
  ASSUME TypeOK, SlotsInv,
         \/ \E t \in Tasks, s \in Servers : ArrivalStep(t, s)
         \/ \E s \in Servers : ServerStep(s)
         \/ AgentStep
  PROVE  SlotsInv'
<1>1. ASSUME NEW t \in Tasks, NEW s \in Servers, NEW k \in Kinds \cup {"later"}, IsIdle(t),
             ComesToLock(t, k, s), UNCHANGED <<queued, slotVars>>
      PROVE  SlotsInv'
  <2>1. /\ Others(t) /\ task'[t].pc \in {"enter", "lock"} /\ task'[t].kind = k
        /\ task[t].pc # "slot" /\ ~OwnsSlot(t)
    BY <1>1, FlowTask, IdleFacts
  <2>2. k # "startq" /\ k # "adopt"
    BY DEF Kinds
  <2>3. ~OwnsSlot(t)' /\ Placed(t)' /\ task'[t].pc # "slot"
    BY <2>1, <2>2 DEF OwnsSlot, Placed
  <2> QED
    BY <1>1, <2>1, <2>3, QuietStep
<1>2. ASSUME NEW t \in Tasks, NEW s \in Servers, TimerFires(t, s)
      PROVE  SlotsInv'
  BY <1>1, <1>2 DEF TimerFires
<1>3. ASSUME NEW t \in Tasks, NEW s \in Servers, NEW k \in Requests, Request(t, k, s)
      PROVE  SlotsInv'
  BY <1>1, <1>3, SpecsAssumption DEF Request
<1>4. ASSUME NEW t \in Tasks, NEW s \in Servers, InstallRequest(t, s)
      PROVE  SlotsInv'
  <2>1. Others(t) /\ task'[t].pc = "created" /\ task'[t].kind = "install"
    BY <1>4 DEF InstallRequest, Others, TypeOK
  <2>2. ~OwnsSlot(t)' /\ Placed(t)' /\ task'[t].pc # "slot"
    BY <2>1 DEF OwnsSlot, Placed
  <2> QED
    BY <1>4, <2>1, <2>2, IdleFacts, QuietStep DEF InstallRequest
<1>5. ASSUME NEW t \in Tasks, NEW s \in Servers, DeleteRequest(t, s)
      PROVE  SlotsInv'
  <2> DEFINE next == [kind |-> "delete", srv |-> s, again |-> FALSE,
                      pc |-> IF running[s] THEN "delkill" ELSE "delremove"]
  <2>1. task[t].pc # "slot" /\ ~OwnsSlot(t)
    BY <1>5, IdleFacts DEF DeleteRequest
  <2>2. ASSUME task'[t] = next
        PROVE  ~OwnsSlot(t)' /\ Placed(t)' /\ task'[t].pc # "slot"
    BY <2>2 DEF OwnsSlot, Placed
  <2>3. CASE queued[s] # NoTask
    <3>1. PICK q \in Tasks : q = queued[s] /\ task[q].pc = "slot"
      BY <2>3 DEF SlotsInv, QueuedWait, At, TypeOK
    <3>2. task' = [task EXCEPT ![q] = Idle, ![t] = next]
      BY <1>5, <2>3, <3>1 DEF DeleteRequest
    <3>3. /\ task'[t] = next /\ task'[q] = Idle
          /\ \A u \in Tasks \ {t, q} : task'[u] = task[u]
      BY <2>1, <3>1, <3>2 DEF TypeOK
    <3>4. CancelsQueued(s)
      BY <1>5, <2>3 DEF DeleteRequest
    <3> QED
      BY <2>1, <2>2, <2>3, <3>1, <3>3, <3>4, CancellingStep
  <2>4. CASE queued[s] = NoTask
    <3>1. task' = [task EXCEPT ![t] = next] /\ UNCHANGED <<queued, slotVars>>
      BY <1>5, <2>4 DEF DeleteRequest
    <3>2. Others(t) /\ task'[t] = next
      BY <3>1 DEF Others, TypeOK
    <3> QED
      BY <2>1, <2>2, <3>1, <3>2, QuietStep
  <2> QED
    BY <2>3, <2>4
<1>6. ASSUME NEW s \in Servers, ServerStep(s)
      PROVE  SlotsInv'
  BY <1>6, FrameStep
  DEF ServerStep, ProcessDies, BootDone, ExitedClean, ExitedCrash, CrashForgotten,
      requestVars
<1>7. CASE AgentStops
  <2>1. /\ task' = [t \in Tasks |-> Idle] /\ queued' = [s \in Servers |-> NoTask]
        /\ bootSlots' = MaxBoots /\ bootWaiters' = <<>> /\ bootHeld' = {}
    BY <1>7 DEF AgentStops
  <2>2. BootSlotsConserved'
    <3>1. bootSlots' + Cardinality(bootHeld') = MaxBoots
      BY <2>1, FS_EmptySet, BoundsAssumption
    <3> QED
      BY <2>1, <3>1 DEF BootSlotsConserved, OwnsSlot, Idle
  <2>3. WaitersDistinct' /\ WaitersWait'
    BY <2>1 DEF WaitersDistinct, WaitersWait, Waits
  <2>4. QueuedWait' /\ \A t \in Tasks : Placed(t)'
    BY <2>1 DEF QueuedWait, Placed, Idle
  <2> QED
    BY <2>2, <2>3, <2>4 DEF SlotsInv
<1>8. CASE AdoptTimesOut
  <2>1. /\ task' = [t \in Tasks |-> IF task[t].kind = "adopt" THEN Idle ELSE task[t]]
        /\ UNCHANGED <<queued, slotVars>>
    BY <1>8 DEF AdoptTimesOut, slotVars
  <2>2. \A t \in Tasks : task[t].kind = "adopt" => task[t].pc = "adopting"
    BY DEF SlotsInv, Placed
  <2>3. \A t \in Tasks : OwnsSlot(t)' <=> OwnsSlot(t)
    BY <2>1, <2>2 DEF OwnsSlot, Idle
  <2>4. \A t \in Tasks : task[t].pc = "slot" => task'[t] = task[t]
    BY <2>1, <2>2
  <2>5. BootSlotsConserved'
    BY <2>1, <2>3, <2>4 DEF SlotsInv, BootSlotsConserved, slotVars, TypeOK
  <2>6. WaitersDistinct' /\ WaitersWait'
    BY <2>1, <2>4 DEF SlotsInv, WaitersDistinct, WaitersWait, Waits, slotVars
  <2>7. QueuedWait'
    BY <2>1, <2>4 DEF SlotsInv, QueuedWait, At, TypeOK
  <2>8. \A t \in Tasks : Placed(t)'
    BY <2>1 DEF SlotsInv, Placed, Idle
  <2> QED
    BY <2>5, <2>6, <2>7, <2>8 DEF SlotsInv
<1>9. CASE AgentServes
  BY <1>9, FrameStep DEF AgentServes, requestVars
<1>10. ASSUME NEW t \in Tasks, NEW s \in Servers, AdoptBegins(t, s)
       PROVE  SlotsInv'
  <2>1. Others(t) /\ task'[t].pc = "adopting" /\ task'[t].kind = "adopt"
    BY <1>10 DEF AdoptBegins, Others, TypeOK
  <2>2. ~OwnsSlot(t)' /\ Placed(t)' /\ task'[t].pc # "slot"
    BY <2>1 DEF OwnsSlot, Placed
  <2> QED
    BY <1>10, <2>1, <2>2, IdleFacts, QuietStep DEF AdoptBegins
<1> QED
  BY <1>2, <1>3, <1>4, <1>5, <1>6, <1>7, <1>8, <1>9, <1>10
  DEF ArrivalStep, AgentStep

\* The boot semaphore neither leaks a slot nor hands one out twice
\* (BootSlotsConserved), for any number of servers, tasks and slots, whatever
\* is refused, cancelled or fails, and across restarts of the agent.
THEOREM SlotsConserved == Spec => []BootSlotsConserved
<1>1. Init => SlotsInv
  <2> SUFFICES ASSUME Init PROVE SlotsInv
    OBVIOUS
  <2>1. bootSlots + Cardinality(bootHeld) = MaxBoots
    BY FS_EmptySet, BoundsAssumption DEF Init
  <2>2. BootSlotsConserved
    BY <2>1 DEF Init, BootSlotsConserved, OwnsSlot, Idle
  <2>3. WaitersDistinct /\ WaitersWait
    BY DEF Init, WaitersDistinct, WaitersWait, Waits
  <2>4. QueuedWait /\ \A t \in Tasks : Placed(t)
    BY DEF Init, QueuedWait, Placed, Idle
  <2> QED
    BY <2>2, <2>3, <2>4 DEF SlotsInv
<1>2. TypeOK /\ SlotsInv /\ [Next]_vars => SlotsInv'
  <2> SUFFICES ASSUME TypeOK, SlotsInv, [Next]_vars
               PROVE  SlotsInv'
    OBVIOUS
  <2>1. CASE \E t \in Tasks, s \in Servers : TaskStep(t, s)
    BY <2>1, TaskStepSlots
  <2>2. CASE \/ \E t \in Tasks, s \in Servers : ArrivalStep(t, s)
             \/ \E s \in Servers : ServerStep(s)
             \/ AgentStep
    BY <2>2, OtherStepSlots
  <2>3. CASE UNCHANGED vars
    BY <2>3, FrameStep DEF vars, requestVars
  <2> QED
    BY <2>1, <2>2, <2>3 DEF Next
<1>3. SlotsInv => BootSlotsConserved
  BY DEF SlotsInv
<1> QED
  BY <1>1, <1>2, <1>3, TypeCorrect, PTL DEF Spec

-----------------------------------------------------------------------------
(***************************************************************************)
(* What the lock of a server is good for: one task at a time starts, stops *)
(* or restores it.  From that, and from what the tasks at each point know, *)
(* follow the safety properties of the Supervisor: a boot is watched by a  *)
(* task that has a slot, who is shown as queued waits, a restore is alone  *)
(* and no container is without a handle.                                   *)
(***************************************************************************)

-----------------------------------------------------------------------------
(* The lock.                                                               *)

\* Between these points and the end of its "async with" block a task has the
\* lock of its server.
HoldPCs == {"enter", "check", "ports", "create", "attached", "recheck", "stopping",
            "stopwait", "killing", "restoring", "adopting"}

LockHeld ==
  \A t \in Tasks : task[t].pc \in HoldPCs =>
    task[t].srv \in Servers /\ lock[task[t].srv] = t

\* Only a task of adopt_running is there.
Adopting == \A t \in Tasks : task[t].pc = "adopting" => task[t].kind = "adopt"

\* The points of a start, from its checks until it has the handle.
StartPCs == {"check", "ports", "create", "attached", "recheck"}

\* What is being started does not run.
StartsDown == \A t \in Tasks : task[t].pc \in StartPCs => ~running[task[t].srv]

MutexInv == LockHeld /\ Adopting /\ StartsDown

\* Two tasks with the lock of one server are the same.
LEMMA Mutex ==
  ASSUME LockHeld, NEW t \in Tasks, NEW u \in Tasks, task[t].srv = task[u].srv,
         task[t].pc \in HoldPCs, task[u].pc \in HoldPCs
  PROVE  t = u
BY DEF LockHeld

OtherLocks(s) == \A r \in Servers \ {s} : lock'[r] = lock[r]

\* t is at p and still the same activation.
Moved(t, p) == /\ task'[t].pc = p /\ task'[t].srv = task[t].srv
               /\ task'[t].kind = task[t].kind /\ task'[t].again = task[t].again

\* What the helpers of the actions do to the task of the step and to the lock.
LEMMA FlowLock ==
  ASSUME TypeOK, NEW t \in Tasks, NEW s \in Servers
  PROVE  /\ \A p : Goto(t, p) => Others(t) /\ Moved(t, p)
         /\ Leaves(t, s) => /\ Others(t) /\ task'[t] = Idle
                            /\ lock'[s] = NoTask /\ OtherLocks(s)
         /\ \A p : Suspends(t, s, p) => /\ Others(t) /\ Moved(t, p)
                                        /\ lock'[s] = t /\ OtherLocks(s)
         /\ BeginsStart(t, s) => /\ Others(t) /\ OtherLocks(s)
                                 /\ \/ task'[t] = Idle /\ lock'[s] = NoTask
                                    \/ Moved(t, "check") /\ lock'[s] = t /\ ~running[s]
         /\ AfterStop(t, s) => /\ Others(t) /\ OtherLocks(s)
                               /\ \/ task'[t] = Idle /\ lock'[s] = NoTask
                                  \/ /\ Moved(t, "check") /\ task[t].kind = "restart"
                                     /\ lock'[s] = t /\ ~running[s]
                                  \/ /\ Moved(t, "restoring") /\ task[t].kind = "restore"
                                     /\ lock'[s] = t /\ ~running[s]
         /\ \A k : ComesToLock(t, k, s) =>
              /\ Others(t) /\ OtherLocks(s)
              /\ task'[t].kind = k /\ task'[t].srv = s
              /\ \/ task'[t].pc = "enter" /\ lock[s] = NoTask /\ lock'[s] = t
                 \/ task'[t].pc = "lock" /\ lock' = lock
         /\ Granted(t, s) => /\ task[t].srv = s
                             /\ task[t].pc = "enter" \/ (task[t].pc = "lock" /\ lock[s] = NoTask)
<1> USE DEF TypeOK, Activations, Others, OtherLocks, Moved
<1>1. \A p : Goto(t, p) => Others(t) /\ Moved(t, p)
  BY DEF Goto
<1>2. Leaves(t, s) => /\ Others(t) /\ task'[t] = Idle
                      /\ lock'[s] = NoTask /\ OtherLocks(s)
  BY DEF Leaves, Ends
<1>3. \A p : Suspends(t, s, p) => /\ Others(t) /\ Moved(t, p)
                                  /\ lock'[s] = t /\ OtherLocks(s)
  BY <1>1 DEF Suspends
<1> HIDE DEF Others, OtherLocks, Moved
<1>4. BeginsStart(t, s) => /\ Others(t) /\ OtherLocks(s)
                           /\ \/ task'[t] = Idle /\ lock'[s] = NoTask
                              \/ Moved(t, "check") /\ lock'[s] = t /\ ~running[s]
  BY <1>2, <1>3 DEF BeginsStart
<1>5. AfterStop(t, s) => /\ Others(t) /\ OtherLocks(s)
                         /\ \/ task'[t] = Idle /\ lock'[s] = NoTask
                            \/ /\ Moved(t, "check") /\ task[t].kind = "restart"
                               /\ lock'[s] = t /\ ~running[s]
                            \/ /\ Moved(t, "restoring") /\ task[t].kind = "restore"
                               /\ lock'[s] = t /\ ~running[s]
  BY <1>2, <1>3, <1>4 DEF AfterStop
<1>6. \A k : ComesToLock(t, k, s) =>
        /\ Others(t) /\ OtherLocks(s)
        /\ task'[t].kind = k /\ task'[t].srv = s
        /\ \/ task'[t].pc = "enter" /\ lock[s] = NoTask /\ lock'[s] = t
           \/ task'[t].pc = "lock" /\ lock' = lock
  BY DEF ComesToLock, Others, OtherLocks
<1>7. Granted(t, s) => /\ task[t].srv = s
                       /\ task[t].pc = "enter" \/ (task[t].pc = "lock" /\ lock[s] = NoTask)
  BY DEF Granted, At, Resumes
<1> QED
  BY <1>1, <1>2, <1>3, <1>4, <1>5, <1>6, <1>7

\* What a step of t does to tasks and locks: it is about one server, another
\* task is touched only to take it out of the queue, and a lock that changes
\* was free or t's own.
Turn(t, s) ==
  /\ task'[t] = Idle \/ task'[t].srv = s
  /\ \A u \in Tasks \ {t} : task'[u] = task[u] \/ (At(u, s, "slot") /\ task'[u] = Idle)
  /\ OtherLocks(s)
  /\ lock'[s] = lock[s] \/ lock[s] \in {t, NoTask}
  /\ task'[t].pc \in HoldPCs => lock'[s] = t
  /\ task'[t].pc # "adopting"

OwnTurn(t, s) == task[t].srv = s /\ Turn(t, s)

\* Every step of a task is such a turn.
LEMMA TaskStepTurn ==
  ASSUME TypeOK, SlotsInv, LockHeld, NEW t \in Tasks, NEW s \in Servers, TaskStep(t, s)
  PROVE  OwnTurn(t, s)
<1>a. ASSUME task[t].srv = s, task[t].pc \in HoldPCs
      PROVE  lock[s] = t
  BY <1>a DEF LockHeld
<1>b. ASSUME task[t].srv = s, lock[s] \in {t, NoTask}, Others(t), OtherLocks(s),
             task'[t] = Idle
      PROVE  OwnTurn(t, s)
  BY <1>b DEF OwnTurn, Turn, Others, Idle, HoldPCs
<1>c. ASSUME task[t].srv = s, Others(t), lock' = lock, task'[t] = Idle
      PROVE  OwnTurn(t, s)
  BY <1>c DEF OwnTurn, Turn, Others, Idle, HoldPCs, OtherLocks
<1>d. ASSUME task[t].srv = s, lock[s] \in {t, NoTask}, Others(t), OtherLocks(s),
             task'[t].srv = s, task'[t].pc # "adopting", lock'[s] = t
      PROVE  OwnTurn(t, s)
  BY <1>d DEF OwnTurn, Turn, Others
<1>e. ASSUME task[t].srv = s, Others(t), lock' = lock, task'[t].srv = s,
             task'[t].pc # "adopting", task'[t].pc \in HoldPCs => task[t].pc \in HoldPCs
      PROVE  OwnTurn(t, s)
  BY <1>a, <1>e DEF OwnTurn, Turn, Others, OtherLocks
<1>1. CASE GrantStart(t, s)
  <2>1. task[t].srv = s /\ lock[s] \in {t, NoTask}
    BY <1>a, <1>1, FlowLock DEF GrantStart, HoldPCs
  <2>2. /\ Others(t) /\ OtherLocks(s)
        /\ task'[t] = Idle \/ (\E p \in HoldPCs : Moved(t, p) /\ p # "adopting" /\ lock'[s] = t)
    BY <1>1, FlowLock DEF GrantStart, HoldPCs
  <2> QED
    BY <1>b, <1>d, <2>1, <2>2 DEF Moved
<1>2. CASE GrantLater(t, s)
  <2>1. task[t].srv = s /\ lock[s] \in {t, NoTask}
    BY <1>a, <1>2, FlowLock DEF GrantLater, HoldPCs
  <2>2. /\ Others(t) /\ OtherLocks(s)
        /\ task'[t] = Idle \/ (\E p \in HoldPCs : Moved(t, p) /\ p # "adopting" /\ lock'[s] = t)
    BY <1>2, FlowLock DEF GrantLater, HoldPCs
  <2> QED
    BY <1>b, <1>d, <2>1, <2>2 DEF Moved
<1>3. CASE GrantQueued(t, s)
  <2>1. task[t].srv = s /\ lock[s] \in {t, NoTask}
    BY <1>a, <1>3, FlowLock DEF GrantQueued, HoldPCs
  <2>2. /\ Others(t) /\ OtherLocks(s)
        /\ task'[t] = Idle \/ (\E p \in HoldPCs : Moved(t, p) /\ p # "adopting" /\ lock'[s] = t)
    BY <1>3, FlowLock DEF GrantQueued, HoldPCs
  <2> QED
    BY <1>b, <1>d, <2>1, <2>2 DEF Moved
<1>4. CASE GrantStopQueued(t, s)
  <2>1. PICK q \in Tasks : q = queued[s] /\ At(q, s, "slot")
    BY <1>4 DEF GrantStopQueued, SlotsInv, QueuedWait, TypeOK
  <2>2. task[t].srv = s /\ task[t].pc \in {"enter", "lock"} /\ lock[s] \in {t, NoTask}
    BY <1>a, <1>4, FlowLock DEF GrantStopQueued, HoldPCs
  <2>3. \/ /\ task' = [task EXCEPT ![q] = Idle, ![t].pc = "check"]
           /\ lock' = [lock EXCEPT ![s] = t]
        \/ /\ task' = [task EXCEPT ![q] = Idle, ![t] = Idle]
           /\ lock' = [lock EXCEPT ![s] = NoTask]
    BY <1>4, <2>1 DEF GrantStopQueued
  <2>4. q # t
    BY <2>1, <2>2 DEF At
  <2>5. task'[q] = Idle /\ \A u \in Tasks \ {t, q} : task'[u] = task[u]
    BY <2>3, <2>4 DEF TypeOK
  <2>6. OtherLocks(s)
    BY <2>3 DEF OtherLocks, TypeOK
  <2>7. \/ task'[t].pc = "check" /\ task'[t].srv = s /\ lock'[s] = t
        \/ task'[t] = Idle
    <3>1. task[t] \in Activations /\ [task EXCEPT ![q] = Idle][t] = task[t]
      BY <2>4 DEF TypeOK
    <3>2. CASE task' = [task EXCEPT ![q] = Idle, ![t] = Idle]
      BY <3>2 DEF TypeOK
    <3>3. CASE /\ task' = [task EXCEPT ![q] = Idle, ![t].pc = "check"]
               /\ lock' = [lock EXCEPT ![s] = t]
      <4>1. task'[t] = [task[t] EXCEPT !.pc = "check"] /\ lock'[s] = t
        BY <3>1, <3>3 DEF TypeOK
      <4> QED
        BY <2>2, <3>1, <4>1 DEF Activations
    <3> QED
      BY <2>3, <3>2, <3>3
  <2>8. \A u \in Tasks \ {t} : task'[u] = task[u] \/ (At(u, s, "slot") /\ task'[u] = Idle)
    BY <2>1, <2>5
  <2>9. /\ task'[t] = Idle \/ task'[t].srv = s
        /\ task'[t].pc # "adopting" /\ (task'[t].pc \in HoldPCs => lock'[s] = t)
    BY <2>7 DEF Idle, HoldPCs
  <2> QED
    BY <2>2, <2>6, <2>8, <2>9 DEF OwnTurn, Turn
<1>5. CASE GrantStopIdle(t, s)
  <2>1. task[t].srv = s /\ lock[s] \in {t, NoTask}
    BY <1>a, <1>5, FlowLock DEF GrantStopIdle, HoldPCs
  <2>2. /\ Others(t) /\ OtherLocks(s)
        /\ task'[t] = Idle \/ (\E p \in HoldPCs : Moved(t, p) /\ p # "adopting" /\ lock'[s] = t)
    BY <1>5, FlowLock DEF GrantStopIdle, HoldPCs
  <2> QED
    BY <1>b, <1>d, <2>1, <2>2 DEF Moved
<1>6. CASE GrantStopRunning(t, s)
  <2>1. task[t].srv = s /\ lock[s] \in {t, NoTask}
    BY <1>a, <1>6, FlowLock DEF GrantStopRunning, HoldPCs
  <2>2. PICK b \in BOOLEAN : task' = [task EXCEPT ![t].pc = "stopping", ![t].again = b]
    BY <1>6 DEF GrantStopRunning
  <2>3. Others(t) /\ task'[t].pc = "stopping" /\ task'[t].srv = s
    BY <2>1, <2>2 DEF Others, TypeOK, Activations
  <2>4. lock'[s] = t /\ OtherLocks(s)
    BY <1>6 DEF GrantStopRunning, OtherLocks, TypeOK
  <2> QED
    BY <1>d, <2>1, <2>3, <2>4
<1>7. CASE GrantKill(t, s)
  <2>1. task[t].srv = s /\ lock[s] \in {t, NoTask}
    BY <1>a, <1>7, FlowLock DEF GrantKill, HoldPCs
  <2>2. /\ Others(t) /\ OtherLocks(s)
        /\ task'[t] = Idle \/ (\E p \in HoldPCs : Moved(t, p) /\ p # "adopting" /\ lock'[s] = t)
    BY <1>7, FlowLock DEF GrantKill, HoldPCs
  <2> QED
    BY <1>b, <1>d, <2>1, <2>2 DEF Moved
<1>8. CASE GrantRestore(t, s)
  <2>1. task[t].srv = s /\ lock[s] \in {t, NoTask}
    BY <1>a, <1>8, FlowLock DEF GrantRestore, HoldPCs
  <2>2. /\ Others(t) /\ OtherLocks(s)
        /\ task'[t] = Idle \/ (\E p \in HoldPCs : Moved(t, p) /\ p # "adopting" /\ lock'[s] = t)
    BY <1>8, FlowLock DEF GrantRestore, HoldPCs
  <2> QED
    BY <1>b, <1>d, <2>1, <2>2 DEF Moved
<1>9. CASE CheckRefused(t, s)
  <2>1. task[t].srv = s /\ task[t].pc \in HoldPCs
    BY <1>9 DEF CheckRefused, Resumes, HoldPCs
  <2> QED
    BY <1>a, <1>b, <1>9, <2>1, FlowLock DEF CheckRefused
<1>10. CASE CheckLaunches(t, s)
  <2>1. task[t].srv = s /\ task[t].pc \in HoldPCs
    BY <1>10 DEF CheckLaunches, Resumes, HoldPCs
  <2>2. Others(t) /\ Moved(t, "ports") /\ lock' = lock
    BY <1>10, FlowLock DEF CheckLaunches
  <2> QED
    BY <1>e, <2>1, <2>2 DEF Moved
<1>11. CASE CheckQueues(t, s)
  <2>1. task[t].srv = s /\ task[t].pc \in HoldPCs
    BY <1>11 DEF CheckQueues, Resumes, HoldPCs
  <2>2. Others(t) /\ task'[t].pc = "slot" /\ task'[t].srv = s
    BY <1>11 DEF CheckQueues, Others, TypeOK
  <2>3. OtherLocks(s)
    BY <1>11 DEF CheckQueues, OtherLocks, TypeOK
  <2> QED
    BY <1>a, <2>1, <2>2, <2>3 DEF OwnTurn, Turn, Others, HoldPCs
<1>12. CASE SlotRun(t, s)
  <2>1. task[t].srv = s
    BY <1>12 DEF SlotRun, Resumes
  <2>2. /\ Others(t) /\ OtherLocks(s) /\ task'[t].srv = s
        /\ \/ task'[t].pc = "enter" /\ lock[s] = NoTask /\ lock'[s] = t
           \/ task'[t].pc = "lock" /\ lock' = lock
    BY <1>12, FlowLock DEF SlotRun
  <2> QED
    BY <1>d, <1>e, <2>1, <2>2 DEF HoldPCs
<1>13. CASE Launch(t, s)
  <2>1. task[t].srv = s /\ task[t].pc \in HoldPCs
    BY <1>13 DEF Launch, Resumes, HoldPCs
  <2>2. Others(t) /\ Moved(t, "create") /\ lock' = lock
    BY <1>13, FlowLock DEF Launch
  <2> QED
    BY <1>e, <2>1, <2>2 DEF Moved
<1>14. CASE Create(t, s)
  <2>1. task[t].srv = s /\ task[t].pc \in HoldPCs
    BY <1>14 DEF Create, Resumes, HoldPCs
  <2>2. Others(t) /\ Moved(t, "attached") /\ lock' = lock
    BY <1>14, FlowLock DEF Create
  <2> QED
    BY <1>e, <2>1, <2>2 DEF Moved
<1>15. CASE CreateFails(t, s)
  <2>1. task[t].srv = s /\ task[t].pc \in HoldPCs
    BY <1>15 DEF CreateFails, Resumes, HoldPCs
  <2> QED
    BY <1>a, <1>b, <1>15, <2>1, FlowLock DEF CreateFails
<1>16. CASE CreateTaken(t, s)
  <2>1. task[t].srv = s /\ task[t].pc \in HoldPCs
    BY <1>16 DEF CreateTaken, Resumes, HoldPCs
  <2>2. Others(t) /\ Moved(t, "recheck") /\ lock' = lock
    BY <1>16, FlowLock DEF CreateTaken
  <2> QED
    BY <1>e, <2>1, <2>2 DEF Moved
<1>17. CASE Attached(t, s)
  <2>1. task[t].srv = s /\ task[t].pc \in HoldPCs
    BY <1>17 DEF Attached, Resumes, HoldPCs
  <2>2. Others(t) /\ task'[t].pc = "hold" /\ task'[t].srv = s
    BY <1>17 DEF Attached, Others, TypeOK
  <2>3. OtherLocks(s)
    BY <1>17 DEF Attached, OtherLocks, TypeOK
  <2> QED
    BY <1>a, <2>1, <2>2, <2>3 DEF OwnTurn, Turn, Others, HoldPCs
<1>18. CASE HoldEnds(t, s)
  <2>1. task[t].srv = s
    BY <1>18 DEF HoldEnds, Resumes
  <2> QED
    BY <1>c, <1>18, <2>1, FlowTask DEF HoldEnds
<1>19. CASE StopSeen(t, s)
  <2>1. task[t].srv = s /\ lock[s] \in {t, NoTask}
    BY <1>a, <1>19, FlowLock DEF StopSeen, Resumes, HoldPCs
  <2>2. /\ Others(t) /\ OtherLocks(s)
        /\ task'[t] = Idle \/ (\E p \in HoldPCs : Moved(t, p) /\ p # "adopting" /\ lock'[s] = t)
    BY <1>19, FlowLock DEF StopSeen, HoldPCs
  <2> QED
    BY <1>b, <1>d, <2>1, <2>2 DEF Moved
<1>20. CASE StopTimesOut(t, s)
  <2>1. task[t].srv = s /\ task[t].pc \in HoldPCs
    BY <1>20 DEF StopTimesOut, Resumes, HoldPCs
  <2>2. Others(t) /\ Moved(t, "stopwait") /\ lock' = lock
    BY <1>20, FlowLock DEF StopTimesOut
  <2> QED
    BY <1>e, <2>1, <2>2 DEF Moved
<1>21. CASE StopKills(t, s)
  <2>1. task[t].srv = s /\ lock[s] \in {t, NoTask}
    BY <1>a, <1>21, FlowLock DEF StopKills, Resumes, HoldPCs
  <2>2. /\ Others(t) /\ OtherLocks(s)
        /\ task'[t] = Idle \/ (\E p \in HoldPCs : Moved(t, p) /\ p # "adopting" /\ lock'[s] = t)
    BY <1>21, FlowLock DEF StopKills, HoldPCs
  <2> QED
    BY <1>b, <1>d, <2>1, <2>2 DEF Moved
<1>22. CASE StopFails(t, s)
  <2>1. task[t].srv = s /\ task[t].pc \in HoldPCs
    BY <1>22 DEF StopFails, Resumes, HoldPCs
  <2> QED
    BY <1>a, <1>b, <1>22, <2>1, FlowLock DEF StopFails
<1>23. CASE Killed(t, s)
  <2>1. task[t].srv = s /\ task[t].pc \in HoldPCs
    BY <1>23 DEF Killed, Resumes, HoldPCs
  <2> QED
    BY <1>a, <1>b, <1>23, <2>1, FlowLock DEF Killed
<1>24. CASE RestoreEnds(t, s)
  <2>1. task[t].srv = s /\ lock[s] \in {t, NoTask}
    BY <1>a, <1>24, FlowLock DEF RestoreEnds, Resumes, HoldPCs
  <2>2. /\ Others(t) /\ OtherLocks(s)
        /\ task'[t] = Idle \/ (\E p \in HoldPCs : Moved(t, p) /\ p # "adopting" /\ lock'[s] = t)
    BY <1>24, FlowLock DEF RestoreEnds, HoldPCs
  <2> QED
    BY <1>b, <1>d, <2>1, <2>2 DEF Moved
<1>25. CASE InstallBegins(t, s)
  <2>1. task[t].srv = s
    BY <1>25 DEF InstallBegins, Resumes
  <2>2. Others(t) /\ Moved(t, "installing") /\ lock' = lock
    BY <1>25, FlowLock DEF InstallBegins
  <2> QED
    BY <1>e, <2>1, <2>2 DEF Moved, HoldPCs
<1>26. CASE InstallEnds(t, s)
  <2>1. task[t].srv = s
    BY <1>26 DEF InstallEnds, Resumes
  <2> QED
    BY <1>c, <1>26, <2>1, FlowTask DEF InstallEnds
<1>27. CASE DeleteKilled(t, s)
  <2>1. task[t].srv = s
    BY <1>27 DEF DeleteKilled, Resumes
  <2>2. Others(t) /\ Moved(t, "delremove") /\ lock' = lock
    BY <1>27, FlowLock DEF DeleteKilled
  <2> QED
    BY <1>e, <2>1, <2>2 DEF Moved, HoldPCs
<1>28. CASE DeleteDone(t, s)
  <2>1. task[t].srv = s
    BY <1>28 DEF DeleteDone, Resumes
  <2> QED
    BY <1>c, <1>28, <2>1, FlowTask DEF DeleteDone
<1>29. CASE DeleteFails(t, s)
  <2>1. task[t].srv = s
    BY <1>29 DEF DeleteFails, Resumes
  <2> QED
    BY <1>c, <1>29, <2>1, FlowTask DEF DeleteFails
<1>30. CASE Adopted(t, s)
  <2>1. task[t].srv = s /\ task[t].pc \in HoldPCs
    BY <1>30 DEF Adopted, Resumes, HoldPCs
  <2>2. OtherLocks(s)
    BY <1>30 DEF Adopted, OtherLocks, TypeOK
  <2>3. CASE Ends(t)
    BY <1>a, <1>b, <2>1, <2>2, <2>3, FlowTask
  <2>4. CASE task' = [task EXCEPT ![t] = [kind |-> "hold", srv |-> s, pc |-> "hold",
                                          again |-> FALSE]]
    <3>1. Others(t) /\ task'[t].pc = "hold" /\ task'[t].srv = s
      BY <2>4 DEF Others, TypeOK
    <3> QED
      BY <1>a, <2>1, <2>2, <3>1 DEF OwnTurn, Turn, Others, HoldPCs
  <2> QED
    BY <1>30, <2>3, <2>4 DEF Adopted
<1>31. CASE AdoptFails(t, s)
  <2>1. task[t].srv = s /\ task[t].pc \in HoldPCs
    BY <1>31 DEF AdoptFails, Resumes, HoldPCs
  <2> QED
    BY <1>a, <1>b, <1>31, <2>1, FlowLock DEF AdoptFails
<1> QED
  BY <1>1, <1>2, <1>3, <1>4, <1>5, <1>6, <1>7, <1>8, <1>9, <1>10, <1>11, <1>12, <1>13,
     <1>14, <1>15, <1>16, <1>17, <1>18, <1>19, <1>20, <1>21, <1>22, <1>23, <1>24, <1>25,
     <1>26, <1>27, <1>28, <1>29, <1>30, <1>31
  DEF TaskStep, GrantStep, AwaitStep

\* So a lock that is held is held by one task, before and after.
LEMMA TurnLocks ==
  ASSUME TypeOK, LockHeld, Adopting, NEW t \in Tasks, NEW s \in Servers, Turn(t, s)
  PROVE  LockHeld' /\ Adopting'
<1>1. ASSUME NEW u \in Tasks, task'[u].pc \in HoldPCs
      PROVE  task'[u].srv \in Servers /\ lock'[task'[u].srv] = u
  <2>1. CASE u = t
    BY <1>1, <2>1 DEF Turn, Idle, HoldPCs
  <2>2. CASE u # t
    <3>1. task'[u] = task[u]
      BY <1>1, <2>2 DEF Turn, Idle, HoldPCs
    <3>2. task[u].srv \in Servers /\ lock[task[u].srv] = u
      BY <1>1, <3>1 DEF LockHeld
    <3>3. CASE task[u].srv = s
      BY <2>2, <3>1, <3>2, <3>3, TasksAssumption DEF Turn
    <3>4. CASE task[u].srv # s
      BY <3>1, <3>2, <3>4 DEF Turn, OtherLocks
    <3> QED
      BY <3>3, <3>4
  <2> QED
    BY <2>1, <2>2
<1>2. ASSUME NEW u \in Tasks, task'[u].pc = "adopting"
      PROVE  task'[u].kind = "adopt"
  BY <1>2 DEF Turn, Adopting, Idle
<1> QED
  BY <1>1, <1>2 DEF LockHeld, Adopting

\* A step of a task of s leaves the other servers alone.
Elsewhere(s) ==
  \A r \in Servers \ {s} :
    /\ running'[r] = running[r] /\ state'[r] = state[r] /\ up'[r] = up[r]
    /\ queued'[r] = queued[r] /\ known'[r] = known[r]

LEMMA TaskStepElsewhere ==
  ASSUME TypeOK, NEW t \in Tasks, NEW s \in Servers, TaskStep(t, s)
  PROVE  Elsewhere(s) /\ timers' = timers /\ serving' = serving
<1> USE DEF Elsewhere, TypeOK, crashVars, agentVars
<1>1. CASE GrantStart(t, s)
  BY <1>1 DEF GrantStart
<1>2. CASE GrantLater(t, s)
  BY <1>2 DEF GrantLater
<1>3. CASE GrantQueued(t, s)
  BY <1>3 DEF GrantQueued
<1>4. CASE GrantStopQueued(t, s)
  BY <1>4 DEF GrantStopQueued, CancelsQueued
<1>5. CASE GrantStopIdle(t, s)
  BY <1>5 DEF GrantStopIdle
<1>6. CASE GrantStopRunning(t, s)
  BY <1>6 DEF GrantStopRunning
<1>7. CASE GrantKill(t, s)
  BY <1>7 DEF GrantKill
<1>8. CASE GrantRestore(t, s)
  BY <1>8 DEF GrantRestore
<1>9. CASE CheckRefused(t, s)
  BY <1>9 DEF CheckRefused
<1>10. CASE CheckLaunches(t, s)
  BY <1>10 DEF CheckLaunches
<1>11. CASE CheckQueues(t, s)
  BY <1>11 DEF CheckQueues
<1>12. CASE SlotRun(t, s)
  BY <1>12 DEF SlotRun
<1>13. CASE Launch(t, s)
  BY <1>13 DEF Launch
<1>14. CASE Create(t, s)
  BY <1>14 DEF Create
<1>15. CASE CreateFails(t, s)
  BY <1>15 DEF CreateFails
<1>16. CASE CreateTaken(t, s)
  BY <1>16 DEF CreateTaken
<1>17. CASE Attached(t, s)
  BY <1>17 DEF Attached
<1>18. CASE HoldEnds(t, s)
  BY <1>18 DEF HoldEnds
<1>19. CASE StopSeen(t, s)
  BY <1>19 DEF StopSeen
<1>20. CASE StopTimesOut(t, s)
  BY <1>20 DEF StopTimesOut
<1>21. CASE StopKills(t, s)
  BY <1>21 DEF StopKills
<1>22. CASE StopFails(t, s)
  BY <1>22 DEF StopFails
<1>23. CASE Killed(t, s)
  BY <1>23 DEF Killed
<1>24. CASE RestoreEnds(t, s)
  BY <1>24 DEF RestoreEnds
<1>25. CASE InstallBegins(t, s)
  BY <1>25 DEF InstallBegins
<1>26. CASE InstallEnds(t, s)
  BY <1>26 DEF InstallEnds
<1>27. CASE DeleteKilled(t, s)
  BY <1>27 DEF DeleteKilled
<1>28. CASE DeleteDone(t, s)
  BY <1>28 DEF DeleteDone
<1>29. CASE DeleteFails(t, s)
  BY <1>29 DEF DeleteFails
<1>30. CASE Adopted(t, s)
  BY <1>30 DEF Adopted
<1>31. CASE AdoptFails(t, s)
  BY <1>31 DEF AdoptFails
<1> QED
  BY <1>1, <1>2, <1>3, <1>4, <1>5, <1>6, <1>7, <1>8, <1>9, <1>10, <1>11, <1>12, <1>13,
     <1>14, <1>15, <1>16, <1>17, <1>18, <1>19, <1>20, <1>21, <1>22, <1>23, <1>24, <1>25,
     <1>26, <1>27, <1>28, <1>29, <1>30, <1>31
  DEF TaskStep, GrantStep, AwaitStep

\* A server comes to run only by the task that attached it, or adopts it, and
\* one that runs is not started.
Runs(t, s) ==
  /\ running'[s] # running[s] => /\ task[t].pc \in {"attached", "adopting"}
                                 /\ task'[t].pc \notin StartPCs
  /\ task'[t].pc \in StartPCs => ~running[s]

LEMMA TaskStepRuns ==
  ASSUME TypeOK, SlotsInv, StartsDown, NEW t \in Tasks, NEW s \in Servers, TaskStep(t, s)
  PROVE  Runs(t, s)
<1>a. ASSUME running' = running, task'[t] = Idle
      PROVE  Runs(t, s)
  BY <1>a DEF Runs, Idle, StartPCs
<1>b. ASSUME running' = running, task'[t].pc \in StartPCs => ~running[s]
      PROVE  Runs(t, s)
  BY <1>b DEF Runs
<1>c. ASSUME task[t].srv = s, task[t].pc \in StartPCs
      PROVE  ~running[s]
  BY <1>c DEF StartsDown
<1>d. ASSUME BeginsStart(t, s) \/ AfterStop(t, s) \/ Leaves(t, s), running' = running
      PROVE  Runs(t, s)
  <2>1. task'[t] = Idle \/ (Moved(t, "check") /\ ~running[s]) \/ Moved(t, "restoring")
    BY <1>d, FlowLock
  <2> QED
    BY <1>d, <2>1 DEF Runs, Moved, Idle, StartPCs
<1>1. CASE GrantStart(t, s)
  BY <1>d, <1>1 DEF GrantStart
<1>2. CASE GrantLater(t, s)
  BY <1>d, <1>2 DEF GrantLater
<1>3. CASE GrantQueued(t, s)
  <2>1. task'[t] = Idle \/ ~running[s]
    BY <1>3, FlowLock DEF GrantQueued
  <2> QED
    BY <1>a, <1>b, <1>3, <2>1 DEF GrantQueued
<1>4. CASE GrantStopQueued(t, s)
  <2>1. CASE ~running[s]
    BY <1>b, <1>4, <2>1 DEF GrantStopQueued
  <2>2. CASE running[s]
    BY <1>a, <1>4, <2>2 DEF GrantStopQueued, TypeOK
  <2> QED
    BY <2>1, <2>2
<1>5. CASE GrantStopIdle(t, s)
  BY <1>d, <1>5 DEF GrantStopIdle
<1>6. CASE GrantStopRunning(t, s)
  <2>1. PICK b \in BOOLEAN : task' = [task EXCEPT ![t].pc = "stopping", ![t].again = b]
    BY <1>6 DEF GrantStopRunning
  <2>2. task'[t].pc = "stopping"
    BY <2>1 DEF TypeOK, Activations
  <2> QED
    BY <1>b, <1>6, <2>2 DEF GrantStopRunning, StartPCs
<1>7. CASE GrantKill(t, s)
  <2>1. task'[t] = Idle \/ Moved(t, "killing") \/ Moved(t, "restoring")
    BY <1>7, FlowLock DEF GrantKill
  <2> QED
    BY <1>a, <1>b, <1>7, <2>1 DEF GrantKill, Moved, StartPCs
<1>8. CASE GrantRestore(t, s)
  <2>1. task'[t] = Idle \/ Moved(t, "killing") \/ Moved(t, "restoring")
    BY <1>8, FlowLock DEF GrantRestore
  <2> QED
    BY <1>a, <1>b, <1>8, <2>1 DEF GrantRestore, Moved, StartPCs
<1>9. CASE CheckRefused(t, s)
  BY <1>d, <1>9 DEF CheckRefused
<1>10. CASE CheckLaunches(t, s)
  <2>1. task[t].srv = s /\ task[t].pc \in StartPCs
    BY <1>10 DEF CheckLaunches, Resumes, StartPCs
  <2> QED
    BY <1>b, <1>c, <1>10, <2>1 DEF CheckLaunches
<1>11. CASE CheckQueues(t, s)
  <2>1. task'[t].pc = "slot"
    BY <1>11 DEF CheckQueues, TypeOK
  <2> QED
    BY <1>b, <1>11, <2>1 DEF CheckQueues, StartPCs
<1>12. CASE SlotRun(t, s)
  <2>1. task'[t].pc \in {"enter", "lock"}
    BY <1>12, FlowTask DEF SlotRun
  <2> QED
    BY <1>b, <1>12, <2>1 DEF SlotRun, StartPCs
<1>13. CASE Launch(t, s)
  <2>1. task[t].srv = s /\ task[t].pc \in StartPCs
    BY <1>13 DEF Launch, Resumes, StartPCs
  <2> QED
    BY <1>b, <1>c, <1>13, <2>1 DEF Launch
<1>14. CASE Create(t, s)
  <2>1. task[t].srv = s /\ task[t].pc \in StartPCs
    BY <1>14 DEF Create, Resumes, StartPCs
  <2> QED
    BY <1>b, <1>c, <1>14, <2>1 DEF Create
<1>15. CASE CreateFails(t, s)
  BY <1>d, <1>15 DEF CreateFails
<1>16. CASE CreateTaken(t, s)
  <2>1. task[t].srv = s /\ task[t].pc \in StartPCs
    BY <1>16 DEF CreateTaken, Resumes, StartPCs
  <2> QED
    BY <1>b, <1>c, <1>16, <2>1 DEF CreateTaken
<1>17. CASE Attached(t, s)
  <2>1. task[t].pc = "attached" /\ task'[t].pc = "hold"
    BY <1>17 DEF Attached, Resumes, TypeOK
  <2> QED
    BY <2>1 DEF Runs, StartPCs
<1>18. CASE HoldEnds(t, s)
  BY <1>a, <1>18, FlowTask DEF HoldEnds
<1>19. CASE StopSeen(t, s)
  BY <1>d, <1>19 DEF StopSeen
<1>20. CASE StopTimesOut(t, s)
  <2>1. Moved(t, "stopwait")
    BY <1>20, FlowLock DEF StopTimesOut
  <2> QED
    BY <1>b, <1>20, <2>1 DEF StopTimesOut, Moved, StartPCs
<1>21. CASE StopKills(t, s)
  BY <1>d, <1>21 DEF StopKills
<1>22. CASE StopFails(t, s)
  BY <1>d, <1>22 DEF StopFails
<1>23. CASE Killed(t, s)
  BY <1>d, <1>23 DEF Killed
<1>24. CASE RestoreEnds(t, s)
  BY <1>d, <1>24 DEF RestoreEnds
<1>25. CASE InstallBegins(t, s)
  <2>1. Moved(t, "installing")
    BY <1>25, FlowLock DEF InstallBegins
  <2> QED
    BY <1>b, <1>25, <2>1 DEF InstallBegins, Moved, StartPCs
<1>26. CASE InstallEnds(t, s)
  BY <1>a, <1>26, FlowTask DEF InstallEnds
<1>27. CASE DeleteKilled(t, s)
  <2>1. Moved(t, "delremove")
    BY <1>27, FlowLock DEF DeleteKilled
  <2> QED
    BY <1>b, <1>27, <2>1 DEF DeleteKilled, Moved, StartPCs
<1>28. CASE DeleteDone(t, s)
  BY <1>a, <1>28, FlowTask DEF DeleteDone
<1>29. CASE DeleteFails(t, s)
  BY <1>a, <1>29, FlowTask DEF DeleteFails
<1>30. CASE Adopted(t, s)
  <2>1. task[t].pc = "adopting"
    BY <1>30 DEF Adopted, Resumes
  <2>2. task'[t] = Idle \/ task'[t].pc = "hold"
    BY <1>30, FlowTask DEF Adopted, TypeOK
  <2> QED
    BY <2>1, <2>2 DEF Runs, StartPCs, Idle
<1>31. CASE AdoptFails(t, s)
  BY <1>d, <1>31 DEF AdoptFails
<1> QED
  BY <1>1, <1>2, <1>3, <1>4, <1>5, <1>6, <1>7, <1>8, <1>9, <1>10, <1>11, <1>12, <1>13,
     <1>14, <1>15, <1>16, <1>17, <1>18, <1>19, <1>20, <1>21, <1>22, <1>23, <1>24, <1>25,
     <1>26, <1>27, <1>28, <1>29, <1>30, <1>31
  DEF TaskStep, GrantStep, AwaitStep

\* So the starts under way stay starts of servers that are down.
LEMMA TurnStarts ==
  ASSUME TypeOK, MutexInv, NEW t \in Tasks, NEW s \in Servers, OwnTurn(t, s), Runs(t, s),
         Elsewhere(s)
  PROVE  StartsDown'
<1> SUFFICES ASSUME NEW u \in Tasks, task'[u].pc \in StartPCs
             PROVE  ~running'[task'[u].srv]
  BY DEF StartsDown
<1>1. CASE u = t
  BY <1>1 DEF OwnTurn, Turn, Runs, Idle, StartPCs
<1>2. CASE u # t
  <2>1. task'[u] = task[u] /\ task[u].pc \in StartPCs
    BY <1>2 DEF OwnTurn, Turn, Idle, StartPCs
  <2>2. task[u].pc \in HoldPCs /\ task[u].srv \in Servers /\ ~running[task[u].srv]
    BY <2>1 DEF MutexInv, StartsDown, LockHeld, StartPCs, HoldPCs
  <2>3. CASE task[u].srv = s
    <3>1. task[t].pc \notin HoldPCs
      BY <1>2, <2>2, <2>3, Mutex DEF MutexInv, OwnTurn
    <3> QED
      BY <2>1, <2>2, <2>3, <3>1 DEF Runs, HoldPCs
  <2>4. CASE task[u].srv # s
    BY <2>1, <2>2, <2>4 DEF Elsewhere
  <2> QED
    BY <2>3, <2>4
<1> QED
  BY <1>1, <1>2

\* Nothing but a task's own step brings it to a point of a start.
LEMMA QuietStarts ==
  ASSUME StartsDown, \A s \in Servers : running'[s] => running[s],
         \A u \in Tasks : task[u].pc \in StartPCs => task[u].srv \in Servers,
         \A u \in Tasks : task'[u] = task[u] \/ task'[u].pc \notin StartPCs
  PROVE  StartsDown'
BY DEF StartsDown

\* A task that arrives comes to a lock it does not have, or to a point without
\* one, and changes nothing else about its server.
ArrivalPCs == {"enter", "lock", "created", "delkill", "delremove"}

LEMMA ArrivalTurn ==
  ASSUME TypeOK, SlotsInv, NEW t \in Tasks, NEW s \in Servers, ArrivalStep(t, s)
  PROVE  /\ Turn(t, s) /\ task'[t].pc \in ArrivalPCs
         /\ UNCHANGED <<state, running, up, known, serving, toAdopt>>
<1>a. ASSUME NEW k, ComesToLock(t, k, s)
      PROVE  Turn(t, s) /\ task'[t].pc \in ArrivalPCs
  <2>1. /\ Others(t) /\ OtherLocks(s) /\ task'[t].srv = s
        /\ \/ task'[t].pc = "enter" /\ lock[s] = NoTask /\ lock'[s] = t
           \/ task'[t].pc = "lock" /\ lock' = lock
    BY <1>a, FlowLock
  <2> QED
    BY <2>1 DEF Turn, Others, HoldPCs, ArrivalPCs
<1>1. CASE TimerFires(t, s)
  BY <1>a, <1>1 DEF TimerFires, agentVars
<1>2. ASSUME NEW k \in Requests, Request(t, k, s)
      PROVE  /\ Turn(t, s) /\ task'[t].pc \in ArrivalPCs
             /\ UNCHANGED <<state, running, up, known, serving, toAdopt>>
  BY <1>a, <1>2 DEF Request, agentVars
<1>3. CASE InstallRequest(t, s)
  <2>1. Others(t) /\ task'[t].pc = "created" /\ task'[t].srv = s /\ lock' = lock
    BY <1>3 DEF InstallRequest, Others, TypeOK
  <2>2. UNCHANGED <<state, running, up, known, serving, toAdopt>>
    BY <1>3 DEF InstallRequest, agentVars
  <2> QED
    BY <2>1, <2>2 DEF Turn, OtherLocks, Others, HoldPCs, ArrivalPCs
<1>4. CASE DeleteRequest(t, s)
  <2> DEFINE next == [kind |-> "delete", srv |-> s, again |-> FALSE,
                      pc |-> IF running[s] THEN "delkill" ELSE "delremove"]
  <2>1. /\ \A u \in Tasks \ {t} : task'[u] = task[u] \/ (At(u, s, "slot") /\ task'[u] = Idle)
        /\ task'[t] = next
    <3>1. CASE queued[s] # NoTask
      <4>1. PICK q \in Tasks : q = queued[s] /\ At(q, s, "slot")
        BY <3>1 DEF SlotsInv, QueuedWait, TypeOK
      <4>2. task' = [task EXCEPT ![q] = Idle, ![t] = next]
        BY <1>4, <3>1, <4>1 DEF DeleteRequest
      <4> HIDE DEF next
      <4> QED
        BY <4>1, <4>2 DEF TypeOK
    <3>2. CASE queued[s] = NoTask
      <4>1. task' = [task EXCEPT ![t] = next]
        BY <1>4, <3>2 DEF DeleteRequest
      <4> HIDE DEF next
      <4> QED
        BY <4>1 DEF TypeOK
    <3> QED
      BY <3>1, <3>2
  <2>2. lock' = lock /\ UNCHANGED <<state, running, up, known, serving, toAdopt>>
    BY <1>4 DEF DeleteRequest, agentVars
  <2>3. task'[t].srv = s /\ task'[t].pc \in {"delkill", "delremove"}
    BY <2>1
  <2> QED
    BY <2>1, <2>2, <2>3 DEF Turn, OtherLocks, HoldPCs, ArrivalPCs
<1> QED
  BY <1>1, <1>2, <1>3, <1>4 DEF ArrivalStep

LEMMA ArrivalMutex ==
  ASSUME TypeOK, SlotsInv, MutexInv, NEW t \in Tasks, NEW s \in Servers, ArrivalStep(t, s)
  PROVE  MutexInv'
<1>1. Turn(t, s) /\ task'[t].pc \in ArrivalPCs /\ running' = running
  BY ArrivalTurn
<1>2. LockHeld' /\ Adopting'
  BY <1>1, TurnLocks DEF MutexInv
<1>3. \A u \in Tasks : task'[u] = task[u] \/ task'[u].pc \notin StartPCs
  BY <1>1 DEF Turn, Idle, StartPCs, ArrivalPCs
<1>4. StartsDown'
  <2>1. \A u \in Tasks : task[u].pc \in StartPCs => task[u].srv \in Servers
    BY DEF MutexInv, LockHeld, StartPCs, HoldPCs
  <2> QED
    BY <1>1, <1>3, <2>1, QuietStarts DEF MutexInv
<1> QED
  BY <1>2, <1>4 DEF MutexInv

\* Steps of the servers and of the agent keep it too.
LEMMA OtherMutex ==
  ASSUME TypeOK, SlotsInv, MutexInv, (\E s \in Servers : ServerStep(s)) \/ AgentStep
  PROVE  MutexInv'
<1>a. \A u \in Tasks : task[u].pc \in StartPCs => task[u].srv \in Servers
  BY DEF MutexInv, LockHeld, StartPCs, HoldPCs
<1>b. ASSUME UNCHANGED <<task, lock>>, \A s \in Servers : running'[s] => running[s]
      PROVE  MutexInv'
  BY <1>a, <1>b, QuietStarts DEF MutexInv, LockHeld, Adopting
<1>1. ASSUME NEW s \in Servers, ServerStep(s)
      PROVE  MutexInv'
  <2>1. UNCHANGED <<task, lock>>
    BY <1>1 DEF ServerStep, ProcessDies, BootDone, ExitedClean, ExitedCrash, CrashForgotten,
                requestVars
  <2>2. \A r \in Servers : running'[r] => running[r]
    BY <1>1 DEF ServerStep, ProcessDies, BootDone, ExitedClean, ExitedCrash, CrashForgotten,
                TypeOK
  <2> QED
    BY <1>b, <2>1, <2>2
<1>2. CASE AgentStops
  <2>1. \A t \in Tasks : task'[t] = Idle
    BY <1>2 DEF AgentStops
  <2> QED
    BY <2>1 DEF MutexInv, LockHeld, Adopting, StartsDown, StartPCs, HoldPCs, Idle
<1>3. CASE AdoptTimesOut
  <2>1. \A t \in Tasks : task'[t] = IF task[t].kind = "adopt" THEN Idle ELSE task[t]
    BY <1>3 DEF AdoptTimesOut
  <2>2. \A s \in Servers : lock'[s] = lock[s] \/ \E t \in Tasks : At(t, s, "adopting")
    BY <1>3 DEF AdoptTimesOut
  <2>3. ASSUME NEW u \in Tasks, task'[u].pc \in HoldPCs
        PROVE  task'[u].srv \in Servers /\ lock'[task'[u].srv] = u
    <3>1. task'[u] = task[u] /\ task[u].kind # "adopt"
      BY <2>1, <2>3 DEF Idle, HoldPCs
    <3>2. task[u].srv \in Servers /\ lock[task[u].srv] = u
      BY <2>3, <3>1 DEF MutexInv, LockHeld
    <3>3. ASSUME NEW t \in Tasks, At(t, task[u].srv, "adopting")
          PROVE  FALSE
      <4>1. t = u
        BY <2>3, <3>1, <3>3, Mutex DEF MutexInv, At, HoldPCs
      <4> QED
        BY <3>1, <3>3, <4>1 DEF MutexInv, Adopting, At
    <3> QED
      BY <2>2, <3>1, <3>2, <3>3
  <2>4. Adopting'
    BY <2>1 DEF MutexInv, Adopting, Idle
  <2>5. StartsDown'
    <3>1. running' = running /\ \A u \in Tasks : task'[u] = task[u] \/ task'[u].pc \notin StartPCs
      BY <1>3, <2>1 DEF AdoptTimesOut, Idle, StartPCs
    <3> QED
      BY <1>a, <3>1, QuietStarts DEF MutexInv
  <2> QED
    BY <2>3, <2>4, <2>5 DEF MutexInv, LockHeld
<1>4. CASE AgentServes
  BY <1>b, <1>4 DEF AgentServes, requestVars
<1>5. ASSUME NEW t \in Tasks, NEW s \in Servers, AdoptBegins(t, s)
      PROVE  MutexInv'
  <2>1. /\ Others(t) /\ task'[t].pc = "adopting" /\ task'[t].srv = s
        /\ task'[t].kind = "adopt"
    BY <1>5 DEF AdoptBegins, Others, TypeOK
  <2>2. lock[s] = NoTask /\ lock'[s] = t /\ OtherLocks(s) /\ running' = running
    BY <1>5 DEF AdoptBegins, OtherLocks, TypeOK
  <2>3. ASSUME NEW u \in Tasks, task'[u].pc \in HoldPCs
        PROVE  task'[u].srv \in Servers /\ lock'[task'[u].srv] = u
    <3>1. CASE u = t
      BY <2>1, <2>2, <3>1
    <3>2. CASE u # t
      <4>1. task'[u] = task[u] /\ task[u].srv \in Servers /\ lock[task[u].srv] = u
        BY <2>1, <2>3, <3>2 DEF Others, MutexInv, LockHeld
      <4>2. task[u].srv # s
        BY <2>2, <4>1, TasksAssumption
      <4> QED
        BY <2>2, <4>1, <4>2 DEF OtherLocks
    <3> QED
      BY <3>1, <3>2
  <2>4. Adopting'
    BY <2>1 DEF MutexInv, Adopting, Others
  <2>5. StartsDown'
    <3>1. \A u \in Tasks : task'[u] = task[u] \/ task'[u].pc \notin StartPCs
      BY <2>1 DEF Others, StartPCs
    <3> QED
      BY <1>a, <2>2, <3>1, QuietStarts DEF MutexInv
  <2> QED
    BY <2>3, <2>4, <2>5 DEF MutexInv, LockHeld
<1> QED
  BY <1>1, <1>2, <1>3, <1>4, <1>5 DEF AgentStep

\* Every reachable state is typed, has its slots accounted for and its locks
\* held by at most one task.
BaseInv == TypeOK /\ SlotsInv /\ MutexInv

LEMMA BaseStep ==
  ASSUME BaseInv, [Next]_vars
  PROVE  BaseInv'
<1> USE DEF BaseInv
<1>1. ASSUME NEW t \in Tasks, NEW s \in Servers, TaskStep(t, s)
      PROVE  BaseInv'
  <2>1. OwnTurn(t, s) /\ Runs(t, s) /\ Elsewhere(s)
    BY <1>1, TaskStepTurn, TaskStepRuns, TaskStepElsewhere DEF MutexInv
  <2>2. LockHeld' /\ Adopting' /\ StartsDown'
    BY <2>1, TurnLocks, TurnStarts DEF MutexInv, OwnTurn
  <2> QED
    BY <1>1, <2>2, TaskStepType, TaskStepSlots DEF MutexInv
<1>2. ASSUME NEW t \in Tasks, NEW s \in Servers, ArrivalStep(t, s)
      PROVE  BaseInv'
  BY <1>2, ArrivalMutex, OtherStepType, OtherStepSlots
<1>3. CASE (\E s \in Servers : ServerStep(s)) \/ AgentStep
  BY <1>3, OtherMutex, OtherStepType, OtherStepSlots
<1>4. CASE UNCHANGED vars
  <2>1. TypeOK' /\ UNCHANGED <<task, queued, slotVars, lock, running>>
    BY <1>4 DEF TypeOK, vars, requestVars, slotVars, crashVars, agentVars
  <2>2. MutexInv'
    BY <2>1 DEF MutexInv, LockHeld, Adopting, StartsDown
  <2> QED
    BY <2>1, <2>2, FrameStep
<1> QED
  BY <1>1, <1>2, <1>3, <1>4 DEF Next

LEMMA BaseInit == Init => BaseInv
<1> SUFFICES ASSUME Init PROVE BaseInv
  OBVIOUS
<1>1. TypeOK
  BY BoundsAssumption, EmptySeq, IdleType DEF Init, TypeOK, States
<1>2. SlotsInv
  <2>1. bootSlots + Cardinality(bootHeld) = MaxBoots
    BY FS_EmptySet, BoundsAssumption DEF Init
  <2>2. BootSlotsConserved
    BY <2>1 DEF Init, BootSlotsConserved, OwnsSlot, Idle
  <2>3. WaitersDistinct /\ WaitersWait
    BY DEF Init, WaitersDistinct, WaitersWait, Waits
  <2>4. QueuedWait /\ \A t \in Tasks : Placed(t)
    BY DEF Init, QueuedWait, Placed, Idle
  <2> QED
    BY <2>2, <2>3, <2>4 DEF SlotsInv
<1>3. MutexInv
  BY DEF Init, MutexInv, LockHeld, Adopting, StartsDown, Idle, StartPCs, HoldPCs
<1> QED
  BY <1>1, <1>2, <1>3 DEF BaseInv

\* At most one task at a time is past the lock of a server (LockHeld: the lock
\* names it), and no server is being started that runs (StartsDown), for any
\* number of servers, tasks and slots, whatever fails and whenever the agent
\* restarts.
THEOREM LockExcludes == Spec => []MutexInv
<1>1. BaseInv => MutexInv
  BY DEF BaseInv
<1> QED
  BY <1>1, BaseInit, BaseStep, PTL DEF Spec

-----------------------------------------------------------------------------
(* Who is shown as queued.                                                 *)

\* t is going to start s.
Waiting(t, s) ==
  /\ task[t].kind = "startq" /\ task[t].srv = s
  /\ \/ task[t].pc = "slot" /\ queued[s] = t
     \/ task[t].pc \in {"lock", "enter", "check", "ports"}

\* Once the launch has begun the server is no longer shown as queued.
LaunchPCs == {"create", "attached", "recheck"}

QueueInv ==
  /\ \A s \in Servers : state[s] = "queued" => \E t \in Tasks : Waiting(t, s)
  /\ \A s \in Servers : state[s] = "queued" => ~running[s]
  /\ \A t \in Tasks : task[t].pc \in LaunchPCs => state[task[t].srv] # "queued"

\* After a step of t, s is shown as queued only if t waits to start it, or if
\* somebody else did before and the step is of no concern to him.
QueueTurn(t, s) ==
  /\ state'[s] = "queued" =>
       /\ ~running'[s]
       /\ \/ Waiting(t, s)'
          \/ /\ state[s] = "queued" /\ ~Waiting(t, s)
             /\ Others(t) /\ queued'[s] = queued[s]
       /\ state[s] = "queued" \/ task[t].pc = "check"
  /\ task'[t].pc \in LaunchPCs => state'[s] # "queued"

LEMMA TaskStepQueue ==
  ASSUME BaseInv, QueueInv, NEW t \in Tasks, NEW s \in Servers, TaskStep(t, s)
  PROVE  QueueTurn(t, s)
<1> USE DEF BaseInv
<1>a. ASSUME state' = state, running' = running, queued' = queued, Others(t), ~Waiting(t, s),
             task'[t].pc \notin LaunchPCs
      PROVE  QueueTurn(t, s)
  BY <1>a DEF QueueTurn, QueueInv
<1>b. ASSUME state'[s] # "queued"
      PROVE  QueueTurn(t, s)
  BY <1>b DEF QueueTurn
<1>c. ASSUME state' = state, running' = running, Waiting(t, s)', task'[t].pc \notin LaunchPCs
      PROVE  QueueTurn(t, s)
  BY <1>c DEF QueueTurn, QueueInv
<1>d. ASSUME BeginsStart(t, s) \/ AfterStop(t, s) \/ Leaves(t, s) \/ Ends(t)
      PROVE  Others(t) /\ task'[t].pc \notin LaunchPCs
  <2>1. Others(t) /\ (task'[t] = Idle \/ Moved(t, "check") \/ Moved(t, "restoring"))
    BY <1>d, FlowLock, FlowTask
  <2> QED
    BY <2>1 DEF Moved, Idle, LaunchPCs
<1>e. ASSUME task[t].srv = s, task[t].pc \in LaunchPCs
      PROVE  state[s] # "queued"
  BY <1>e DEF QueueInv
<1>1. CASE GrantStart(t, s)
  BY <1>a, <1>d, <1>1 DEF GrantStart, Waiting
<1>2. CASE GrantLater(t, s)
  BY <1>a, <1>d, <1>2 DEF GrantLater, Waiting
<1>3. CASE GrantQueued(t, s)
  <2>1. CASE state[s] # "queued"
    BY <1>b, <1>3, <2>1 DEF GrantQueued
  <2>2. CASE state[s] = "queued"
    <3>1. ~running[s]
      BY <2>2 DEF QueueInv
    <3>2. task[t].kind = "startq" /\ task[t].srv = s /\ Moved(t, "check")
      BY <1>3, <2>2, <3>1, FlowLock DEF GrantQueued
    <3>3. Waiting(t, s)' /\ task'[t].pc \notin LaunchPCs
      BY <3>2 DEF Waiting, Moved, LaunchPCs
    <3> QED
      BY <1>c, <1>3, <3>3 DEF GrantQueued
  <2> QED
    BY <2>1, <2>2
<1>4. CASE GrantStopQueued(t, s)
  BY <1>b, <1>4 DEF GrantStopQueued, TypeOK
<1>5. CASE GrantStopIdle(t, s)
  BY <1>a, <1>d, <1>5 DEF GrantStopIdle, Waiting
<1>6. CASE GrantStopRunning(t, s)
  BY <1>b, <1>6 DEF GrantStopRunning, TypeOK
<1>7. CASE GrantKill(t, s)
  <2>1. Others(t) /\ (task'[t] = Idle \/ Moved(t, "killing") \/ Moved(t, "restoring"))
    BY <1>7, FlowLock DEF GrantKill
  <2>2. task'[t].pc \notin LaunchPCs /\ ~Waiting(t, s)
    BY <1>7, <2>1 DEF GrantKill, Waiting, Moved, Idle, LaunchPCs
  <2> QED
    BY <1>a, <1>7, <2>1, <2>2 DEF GrantKill
<1>8. CASE GrantRestore(t, s)
  <2>1. Others(t) /\ (task'[t] = Idle \/ Moved(t, "killing") \/ Moved(t, "restoring"))
    BY <1>8, FlowLock DEF GrantRestore
  <2>2. task'[t].pc \notin LaunchPCs /\ ~Waiting(t, s)
    BY <1>8, <2>1 DEF GrantRestore, Waiting, Moved, Idle, LaunchPCs
  <2> QED
    BY <1>a, <1>8, <2>1, <2>2 DEF GrantRestore
<1>9. CASE CheckRefused(t, s)
  <2>1. CASE task[t].kind = "startq"
    BY <1>b, <1>9, <2>1 DEF CheckRefused, TypeOK
  <2>2. CASE task[t].kind # "startq"
    BY <1>a, <1>d, <1>9, <2>2 DEF CheckRefused, Waiting
  <2> QED
    BY <2>1, <2>2
<1>10. CASE CheckLaunches(t, s)
  <2>1. Others(t) /\ Moved(t, "ports") /\ task[t].srv = s
    BY <1>10, FlowLock DEF CheckLaunches, Resumes
  <2>2. task'[t].pc \notin LaunchPCs
    BY <2>1 DEF Moved, LaunchPCs
  <2>3. CASE task[t].pc = "recheck"
    BY <1>b, <1>e, <1>10, <2>1, <2>3 DEF CheckLaunches, LaunchPCs
  <2>4. CASE task[t].kind = "startq"
    <3>1. Waiting(t, s)'
      BY <2>1, <2>4 DEF Waiting, Moved
    <3> QED
      BY <1>c, <1>10, <2>2, <3>1 DEF CheckLaunches
  <2>5. CASE task[t].kind # "startq"
    BY <1>a, <1>10, <2>1, <2>2, <2>5 DEF CheckLaunches, Waiting
  <2> QED
    BY <2>4, <2>5
<1>11. CASE CheckQueues(t, s)
  <2>1. task[t].pc = "check" /\ task[t].srv = s
    BY <1>11 DEF CheckQueues, Resumes
  <2>2. ~running[s] /\ running' = running
    BY <1>11, <2>1 DEF CheckQueues, MutexInv, StartsDown, StartPCs
  <2>3. /\ task'[t].kind = "startq" /\ task'[t].srv = s /\ task'[t].pc = "slot"
        /\ queued'[s] = t
    BY <1>11 DEF CheckQueues, TypeOK
  <2> QED
    BY <2>1, <2>2, <2>3 DEF QueueTurn, Waiting, LaunchPCs
<1>12. CASE SlotRun(t, s)
  <2>1. task'[t].kind = "startq" /\ task'[t].srv = s /\ task'[t].pc \in {"enter", "lock"}
    BY <1>12, FlowLock DEF SlotRun
  <2> QED
    BY <1>c, <1>12, <2>1 DEF SlotRun, Waiting, LaunchPCs
<1>13. CASE Launch(t, s)
  BY <1>b, <1>13 DEF Launch, TypeOK
<1>14. CASE Create(t, s)
  BY <1>b, <1>e, <1>14 DEF Create, Resumes, LaunchPCs
<1>15. CASE CreateFails(t, s)
  BY <1>b, <1>15 DEF CreateFails, TypeOK
<1>16. CASE CreateTaken(t, s)
  BY <1>b, <1>16 DEF CreateTaken, TypeOK
<1>17. CASE Attached(t, s)
  BY <1>b, <1>e, <1>17 DEF Attached, Resumes, LaunchPCs
<1>18. CASE HoldEnds(t, s)
  BY <1>a, <1>d, <1>18 DEF HoldEnds, Resumes, Waiting
<1>19. CASE StopSeen(t, s)
  BY <1>a, <1>d, <1>19 DEF StopSeen, Resumes, Waiting
<1>20. CASE StopTimesOut(t, s)
  <2>1. Others(t) /\ Moved(t, "stopwait")
    BY <1>20, FlowLock DEF StopTimesOut
  <2> QED
    BY <1>a, <1>20, <2>1 DEF StopTimesOut, Resumes, Moved, Waiting, LaunchPCs
<1>21. CASE StopKills(t, s)
  BY <1>a, <1>d, <1>21 DEF StopKills, Resumes, Waiting
<1>22. CASE StopFails(t, s)
  BY <1>a, <1>d, <1>22 DEF StopFails, Resumes, Waiting
<1>23. CASE Killed(t, s)
  BY <1>a, <1>d, <1>23 DEF Killed, Resumes, Waiting
<1>24. CASE RestoreEnds(t, s)
  BY <1>a, <1>d, <1>24 DEF RestoreEnds, Resumes, Waiting
<1>25. CASE InstallBegins(t, s)
  BY <1>b, <1>25 DEF InstallBegins, TypeOK
<1>26. CASE InstallEnds(t, s)
  <2>1. CASE state[s] = "installing"
    BY <1>b, <1>26, <2>1 DEF InstallEnds, TypeOK
  <2>2. CASE state[s] # "installing"
    BY <1>a, <1>d, <1>26, <2>2 DEF InstallEnds, Resumes, Waiting
  <2> QED
    BY <2>1, <2>2
<1>27. CASE DeleteKilled(t, s)
  <2>1. Others(t) /\ Moved(t, "delremove")
    BY <1>27, FlowLock DEF DeleteKilled
  <2> QED
    BY <1>a, <1>27, <2>1 DEF DeleteKilled, Resumes, Moved, Waiting, LaunchPCs
<1>28. CASE DeleteDone(t, s)
  BY <1>a, <1>d, <1>28 DEF DeleteDone, Resumes, Waiting
<1>29. CASE DeleteFails(t, s)
  BY <1>a, <1>d, <1>29 DEF DeleteFails, Resumes, Waiting
<1>30. CASE Adopted(t, s)
  <2>1. state'[s] \in {"starting", "running"}
    BY <1>30 DEF Adopted, TypeOK
  <2> QED
    BY <1>b, <2>1
<1>31. CASE AdoptFails(t, s)
  BY <1>b, <1>31 DEF AdoptFails, TypeOK
<1> QED
  BY <1>1, <1>2, <1>3, <1>4, <1>5, <1>6, <1>7, <1>8, <1>9, <1>10, <1>11, <1>12, <1>13,
     <1>14, <1>15, <1>16, <1>17, <1>18, <1>19, <1>20, <1>21, <1>22, <1>23, <1>24, <1>25,
     <1>26, <1>27, <1>28, <1>29, <1>30, <1>31
  DEF TaskStep, GrantStep, AwaitStep

\* So the invariant survives a step of a task.
LEMMA TurnQueue ==
  ASSUME BaseInv, QueueInv, NEW t \in Tasks, NEW s \in Servers, OwnTurn(t, s), Elsewhere(s),
         QueueTurn(t, s)
  PROVE  QueueInv'
<1> USE DEF BaseInv
<1>1. ASSUME NEW r \in Servers, state'[r] = "queued"
      PROVE  ~running'[r] /\ \E u \in Tasks : Waiting(u, r)'
  <2>1. CASE r # s
    <3>1. state[r] = "queued" /\ running'[r] = running[r] /\ queued'[r] = queued[r]
      BY <1>1, <2>1 DEF Elsewhere
    <3>2. PICK u \in Tasks : Waiting(u, r)
      BY <3>1 DEF QueueInv
    <3>3. task'[u] = task[u]
      BY <2>1, <3>2 DEF OwnTurn, Turn, Waiting, At
    <3>4. Waiting(u, r)'
      BY <3>1, <3>2, <3>3 DEF Waiting
    <3> QED
      BY <3>1, <3>4 DEF QueueInv
  <2>2. CASE r = s /\ ~Waiting(t, s)'
    <3>1. /\ state[s] = "queued" /\ ~Waiting(t, s) /\ Others(t) /\ queued'[s] = queued[s]
          /\ ~running'[s]
      BY <1>1, <2>2 DEF QueueTurn
    <3>2. PICK u \in Tasks : Waiting(u, s)
      BY <3>1 DEF QueueInv
    <3>3. task'[u] = task[u]
      BY <3>1, <3>2 DEF Others
    <3>4. Waiting(u, s)'
      BY <3>1, <3>2, <3>3 DEF Waiting
    <3> QED
      BY <2>2, <3>1, <3>4
  <2>3. CASE r = s /\ Waiting(t, s)'
    BY <1>1, <2>3 DEF QueueTurn
  <2> QED
    BY <2>1, <2>2, <2>3
<1>2. ASSUME NEW u \in Tasks, task'[u].pc \in LaunchPCs
      PROVE  state'[task'[u].srv] # "queued"
  <2>1. CASE u = t
    BY <1>2, <2>1 DEF QueueTurn, OwnTurn, Turn, Idle, LaunchPCs
  <2>2. CASE u # t
    <3>1. task'[u] = task[u] /\ task[u].pc \in LaunchPCs
      BY <1>2, <2>2 DEF OwnTurn, Turn, Idle, LaunchPCs
    <3>2. state[task[u].srv] # "queued" /\ task[u].pc \in HoldPCs /\ task[u].srv \in Servers
      BY <3>1 DEF QueueInv, MutexInv, LockHeld, LaunchPCs, HoldPCs
    <3>3. CASE task[u].srv # s
      BY <3>1, <3>2, <3>3 DEF Elsewhere
    <3>4. CASE task[u].srv = s
      <4>1. task[t].pc # "check"
        BY <2>2, <3>2, <3>4, Mutex DEF MutexInv, OwnTurn, HoldPCs
      <4> QED
        BY <3>1, <3>2, <3>4, <4>1 DEF QueueTurn
    <3> QED
      BY <3>3, <3>4
  <2> QED
    BY <2>1, <2>2
<1> QED
  BY <1>1, <1>2 DEF QueueInv

\* So it does every other step, when nothing is deleted.
LEMMA OtherQueue ==
  ASSUME BaseInv, QueueInv, "delete" \notin Requests,
         \/ \E t \in Tasks, s \in Servers : ArrivalStep(t, s)
         \/ \E s \in Servers : ServerStep(s)
         \/ AgentStep
  PROVE  QueueInv'
<1> USE DEF BaseInv
<1>a. ASSUME UNCHANGED queued,
             \A r \in Servers : state'[r] = "queued" => state[r] = "queued" /\ ~running'[r],
             \A u \in Tasks : \/ task'[u] = task[u]
                              \/ task[u].kind # "startq" /\ task'[u].pc \notin LaunchPCs
      PROVE  QueueInv'
  <2>1. ASSUME NEW r \in Servers, state'[r] = "queued"
        PROVE  ~running'[r] /\ \E u \in Tasks : Waiting(u, r)'
    <3>1. PICK u \in Tasks : Waiting(u, r)
      BY <1>a, <2>1 DEF QueueInv
    <3>2. Waiting(u, r)'
      BY <1>a, <3>1 DEF Waiting
    <3> QED
      BY <1>a, <2>1, <3>2
  <2>2. ASSUME NEW u \in Tasks, task'[u].pc \in LaunchPCs
        PROVE  state'[task'[u].srv] # "queued"
    <3>1. task'[u] = task[u] /\ task[u].pc \in HoldPCs
      BY <1>a, <2>2 DEF LaunchPCs, HoldPCs
    <3> QED
      BY <1>a, <2>2, <3>1 DEF QueueInv, MutexInv, LockHeld
  <2> QED
    BY <2>1, <2>2 DEF QueueInv
<1>b. \A r \in Servers : state[r] = "queued" => ~running[r]
  BY DEF QueueInv
<1>1. ASSUME NEW t \in Tasks, NEW s \in Servers, TimerFires(t, s)
      PROVE  QueueInv'
  <2>1. Others(t) /\ task'[t].pc \notin LaunchPCs /\ task[t].kind # "startq"
    BY <1>1, FlowTask DEF TimerFires, IsIdle, Idle, LaunchPCs
  <2> QED
    BY <1>a, <1>b, <1>1, <2>1 DEF TimerFires, Others
<1>2. ASSUME NEW t \in Tasks, NEW s \in Servers, NEW k \in Requests, Request(t, k, s)
      PROVE  QueueInv'
  <2>1. Others(t) /\ task'[t].pc \notin LaunchPCs /\ task[t].kind # "startq"
    BY <1>2, FlowTask DEF Request, IsIdle, Idle, LaunchPCs
  <2> QED
    BY <1>a, <1>b, <1>2, <2>1 DEF Request, Others
<1>3. ASSUME NEW t \in Tasks, NEW s \in Servers, InstallRequest(t, s)
      PROVE  QueueInv'
  <2>1. Others(t) /\ task'[t].pc \notin LaunchPCs /\ task[t].kind # "startq"
    BY <1>3 DEF InstallRequest, IsIdle, Idle, LaunchPCs, Others, TypeOK
  <2> QED
    BY <1>a, <1>b, <1>3, <2>1 DEF InstallRequest, Others
<1>4. ASSUME NEW t \in Tasks, NEW s \in Servers, DeleteRequest(t, s)
      PROVE  FALSE
  BY <1>4 DEF DeleteRequest
<1>5. ASSUME NEW s \in Servers, ServerStep(s)
      PROVE  QueueInv'
  <2>1. UNCHANGED <<task, queued>>
    BY <1>5 DEF ServerStep, ProcessDies, BootDone, ExitedClean, ExitedCrash, CrashForgotten,
                requestVars
  <2>2. ASSUME NEW r \in Servers, state'[r] = "queued"
        PROVE  state[r] = "queued" /\ running'[r] = running[r]
    BY <1>5, <2>2 DEF ServerStep, ProcessDies, BootDone, ExitedClean, ExitedCrash,
                      CrashForgotten, TypeOK
  <2> QED
    BY <1>a, <1>b, <2>1, <2>2
<1>6. CASE AgentStops
  BY <1>6 DEF AgentStops, QueueInv, Idle, LaunchPCs
<1>7. CASE AdoptTimesOut
  <2>1. \A u \in Tasks : task'[u] = IF task[u].kind = "adopt" THEN Idle ELSE task[u]
    BY <1>7 DEF AdoptTimesOut
  <2>2. UNCHANGED <<queued, state, running>>
    BY <1>7 DEF AdoptTimesOut
  <2> QED
    BY <1>a, <1>b, <2>1, <2>2 DEF Idle, LaunchPCs
<1>8. CASE AgentServes
  BY <1>a, <1>b, <1>8 DEF AgentServes, requestVars
<1>9. ASSUME NEW t \in Tasks, NEW s \in Servers, AdoptBegins(t, s)
      PROVE  QueueInv'
  <2>1. Others(t) /\ task'[t].pc \notin LaunchPCs /\ task[t].kind # "startq"
    BY <1>9 DEF AdoptBegins, IsIdle, Idle, LaunchPCs, Others, TypeOK
  <2>2. /\ UNCHANGED <<queued, running>>
        /\ \A r \in Servers : state'[r] = "queued" => state[r] = "queued"
    BY <1>9 DEF AdoptBegins, TypeOK
  <2> QED
    BY <1>a, <1>b, <2>1, <2>2 DEF Others
<1> QED
  BY <1>1, <1>2, <1>3, <1>4, <1>5, <1>6, <1>7, <1>8, <1>9 DEF ArrivalStep, AgentStep

\* A server shown as queued is waiting to start (QueuedIsWaiting: power,
\* _start_queued), for any number of servers, tasks and slots, whatever Docker
\* does and across restarts of the agent, as long as no server is deleted: a
\* delete takes the start out of the queue and leaves the state as it was.
THEOREM QueueIsTrue ==
  ASSUME "delete" \notin Requests
  PROVE  Spec => []QueuedIsWaiting
<1>1. Init => QueueInv
  BY DEF Init, QueueInv, Idle, LaunchPCs
<1>2. BaseInv /\ QueueInv /\ [Next]_vars => QueueInv'
  <2> SUFFICES ASSUME BaseInv, QueueInv, [Next]_vars
               PROVE  QueueInv'
    OBVIOUS
  <2>1. ASSUME NEW t \in Tasks, NEW s \in Servers, TaskStep(t, s)
        PROVE  QueueInv'
    BY <2>1, TaskStepTurn, TaskStepElsewhere, TaskStepQueue, TurnQueue DEF BaseInv, MutexInv
  <2>2. CASE \/ \E t \in Tasks, s \in Servers : ArrivalStep(t, s)
             \/ \E s \in Servers : ServerStep(s)
             \/ AgentStep
    BY <2>2, OtherQueue
  <2>3. CASE UNCHANGED vars
    BY <2>3 DEF QueueInv, Waiting, vars, requestVars
  <2> QED
    BY <2>1, <2>2, <2>3 DEF Next
<1>3. QueueInv => QueuedIsWaiting
  BY DEF QueueInv, QueuedIsWaiting, Waiting
<1> QED
  BY <1>1, <1>2, <1>3, BaseInit, BaseStep, PTL DEF Spec

-----------------------------------------------------------------------------
(* How many servers boot.                                                  *)

\* s is booting.
Booting(s) == running[s] /\ state[s] = "starting"

\* While no agent restarts nothing is adopted, and while no boot is given up on
\* whatever boots is watched by a task that holds a slot for it.
BootInv ==
  /\ toAdopt = {}
  /\ \A t \in Tasks : task[t].pc # "adopting"
  /\ \A s \in Servers : Booting(s) => \E t \in Tasks : At(t, s, "hold")

\* After a step of t, s boots only if t watches it, or if it did before and t
\* was not the one to watch it.
BootTurn(t, s) ==
  /\ toAdopt' = toAdopt
  /\ Booting(s)' => At(t, s, "hold")' \/ (Booting(s) /\ task[t].pc # "hold")

LEMMA TaskStepBoots ==
  ASSUME BaseInv, BootInv, ~BootTimeouts, NEW t \in Tasks, NEW s \in Servers, TaskStep(t, s)
  PROVE  BootTurn(t, s)
<1> USE DEF BaseInv
<1>a. ASSUME UNCHANGED <<running, state, toAdopt>>, task[t].pc # "hold"
      PROVE  BootTurn(t, s)
  BY <1>a DEF BootTurn, Booting
<1>b. ASSUME toAdopt' = toAdopt, state'[s] # "starting"
      PROVE  BootTurn(t, s)
  BY <1>b DEF BootTurn, Booting
<1>c. ASSUME Granted(t, s) \/ \E p \in PCs \ {"hold"} : Resumes(t, s, {p})
      PROVE  task[t].pc # "hold"
  BY <1>c, FlowTask DEF Resumes
<1>1. CASE GrantStart(t, s)
  BY <1>a, <1>c, <1>1 DEF GrantStart, agentVars
<1>2. CASE GrantLater(t, s)
  BY <1>a, <1>c, <1>2 DEF GrantLater, agentVars
<1>3. CASE GrantQueued(t, s)
  BY <1>a, <1>c, <1>3 DEF GrantQueued, agentVars
<1>4. CASE GrantStopQueued(t, s)
  BY <1>b, <1>4 DEF GrantStopQueued, agentVars, TypeOK
<1>5. CASE GrantStopIdle(t, s)
  BY <1>a, <1>c, <1>5 DEF GrantStopIdle, agentVars
<1>6. CASE GrantStopRunning(t, s)
  BY <1>b, <1>6 DEF GrantStopRunning, agentVars, TypeOK
<1>7. CASE GrantKill(t, s)
  BY <1>a, <1>c, <1>7 DEF GrantKill, agentVars
<1>8. CASE GrantRestore(t, s)
  BY <1>a, <1>c, <1>8 DEF GrantRestore, agentVars
<1>9. CASE CheckRefused(t, s)
  <2>1. CASE task[t].kind = "startq"
    BY <1>b, <1>9, <2>1 DEF CheckRefused, agentVars, TypeOK
  <2>2. CASE task[t].kind # "startq"
    BY <1>a, <1>9, <2>2 DEF CheckRefused, Resumes, agentVars
  <2> QED
    BY <2>1, <2>2
<1>10. CASE CheckLaunches(t, s)
  BY <1>a, <1>10 DEF CheckLaunches, Resumes, agentVars
<1>11. CASE CheckQueues(t, s)
  BY <1>b, <1>11 DEF CheckQueues, agentVars, TypeOK
<1>12. CASE SlotRun(t, s)
  BY <1>a, <1>12 DEF SlotRun, Resumes, agentVars
<1>13. CASE Launch(t, s)
  <2>1. ~running[s] /\ running' = running /\ toAdopt' = toAdopt
    BY <1>13 DEF Launch, Resumes, agentVars, MutexInv, StartsDown, StartPCs
  <2> QED
    BY <2>1 DEF BootTurn, Booting
<1>14. CASE Create(t, s)
  BY <1>a, <1>14 DEF Create, Resumes, agentVars
<1>15. CASE CreateFails(t, s)
  BY <1>b, <1>15 DEF CreateFails, agentVars, TypeOK
<1>16. CASE CreateTaken(t, s)
  BY <1>b, <1>16 DEF CreateTaken, agentVars, TypeOK
<1>17. CASE Attached(t, s)
  <2>1. At(t, s, "hold")' /\ toAdopt' = toAdopt
    BY <1>17 DEF Attached, At, agentVars, TypeOK
  <2> QED
    BY <2>1 DEF BootTurn
<1>18. CASE HoldEnds(t, s)
  <2>1. ~Booting(s) /\ UNCHANGED <<running, state, toAdopt>>
    BY <1>18 DEF HoldEnds, Booting, agentVars
  <2> QED
    BY <2>1 DEF BootTurn, Booting
<1>19. CASE StopSeen(t, s)
  BY <1>a, <1>19 DEF StopSeen, Resumes, agentVars
<1>20. CASE StopTimesOut(t, s)
  BY <1>a, <1>20 DEF StopTimesOut, Resumes, agentVars
<1>21. CASE StopKills(t, s)
  BY <1>a, <1>21 DEF StopKills, Resumes, agentVars
<1>22. CASE StopFails(t, s)
  BY <1>a, <1>22 DEF StopFails, Resumes, agentVars
<1>23. CASE Killed(t, s)
  BY <1>a, <1>23 DEF Killed, Resumes, agentVars
<1>24. CASE RestoreEnds(t, s)
  BY <1>a, <1>24 DEF RestoreEnds, Resumes, agentVars
<1>25. CASE InstallBegins(t, s)
  BY <1>b, <1>25 DEF InstallBegins, agentVars, TypeOK
<1>26. CASE InstallEnds(t, s)
  <2>1. CASE state[s] = "installing"
    BY <1>b, <1>26, <2>1 DEF InstallEnds, agentVars, TypeOK
  <2>2. CASE state[s] # "installing"
    BY <1>a, <1>26, <2>2 DEF InstallEnds, Resumes, agentVars
  <2> QED
    BY <2>1, <2>2
<1>27. CASE DeleteKilled(t, s)
  BY <1>a, <1>27 DEF DeleteKilled, Resumes, agentVars
<1>28. CASE DeleteDone(t, s)
  BY <1>a, <1>28 DEF DeleteDone, Resumes, agentVars
<1>29. CASE DeleteFails(t, s)
  BY <1>a, <1>29 DEF DeleteFails, Resumes, agentVars
<1>30. CASE Adopted(t, s)
  BY <1>30 DEF Adopted, Resumes, BootInv
<1>31. CASE AdoptFails(t, s)
  BY <1>31 DEF AdoptFails, Resumes, BootInv
<1> QED
  BY <1>1, <1>2, <1>3, <1>4, <1>5, <1>6, <1>7, <1>8, <1>9, <1>10, <1>11, <1>12, <1>13,
     <1>14, <1>15, <1>16, <1>17, <1>18, <1>19, <1>20, <1>21, <1>22, <1>23, <1>24, <1>25,
     <1>26, <1>27, <1>28, <1>29, <1>30, <1>31
  DEF TaskStep, GrantStep, AwaitStep

LEMMA TurnBoots ==
  ASSUME BaseInv, BootInv, NEW t \in Tasks, NEW s \in Servers, OwnTurn(t, s), Elsewhere(s),
         BootTurn(t, s)
  PROVE  BootInv'
<1>1. toAdopt' = {}
  BY DEF BootTurn, BootInv
<1>2. \A u \in Tasks : task'[u].pc # "adopting"
  BY DEF OwnTurn, Turn, BootInv, Idle
<1>3. ASSUME NEW r \in Servers, Booting(r)'
      PROVE  \E u \in Tasks : At(u, r, "hold")'
  <2>1. CASE r # s
    <3>1. Booting(r)
      BY <1>3, <2>1 DEF Elsewhere, Booting
    <3>2. PICK u \in Tasks : At(u, r, "hold")
      BY <3>1 DEF BootInv
    <3>3. task'[u] = task[u]
      BY <2>1, <3>2 DEF OwnTurn, Turn, At
    <3> QED
      BY <3>2, <3>3 DEF At
  <2>2. CASE r = s /\ ~At(t, s, "hold")'
    <3>1. Booting(s) /\ task[t].pc # "hold"
      BY <1>3, <2>2 DEF BootTurn
    <3>2. PICK u \in Tasks : At(u, s, "hold")
      BY <3>1 DEF BootInv
    <3>3. task'[u] = task[u]
      BY <3>1, <3>2 DEF OwnTurn, Turn, At
    <3> QED
      BY <2>2, <3>2, <3>3 DEF At
  <2> QED
    BY <2>1, <2>2
<1> QED
  BY <1>1, <1>2, <1>3 DEF BootInv

LEMMA OtherBoots ==
  ASSUME BaseInv, BootInv, ~AgentRestarts,
         \/ \E t \in Tasks, s \in Servers : ArrivalStep(t, s)
         \/ \E s \in Servers : ServerStep(s)
         \/ AgentStep
  PROVE  BootInv'
<1> USE DEF BaseInv
<1>1. ASSUME NEW t \in Tasks, NEW s \in Servers, ArrivalStep(t, s)
      PROVE  BootInv'
  <2>1. /\ Turn(t, s) /\ task'[t].pc \in ArrivalPCs
        /\ UNCHANGED <<state, running, toAdopt>>
    BY <1>1, ArrivalTurn
  <2>2. task[t] = Idle
    BY <1>1 DEF ArrivalStep, TimerFires, InstallRequest, DeleteRequest, Request, IsIdle
  <2>3. ASSUME NEW r \in Servers, Booting(r)'
        PROVE  \E u \in Tasks : At(u, r, "hold")'
    <3>1. PICK u \in Tasks : At(u, r, "hold")
      BY <2>1, <2>3 DEF BootInv, Booting
    <3>2. task'[u] = task[u]
      BY <2>1, <2>2, <3>1 DEF Turn, At, Idle
    <3> QED
      BY <3>1, <3>2 DEF At
  <2>4. \A u \in Tasks : task'[u].pc # "adopting"
    BY <2>1 DEF Turn, BootInv, Idle, ArrivalPCs
  <2> QED
    BY <2>1, <2>3, <2>4 DEF BootInv
<1>2. ASSUME NEW s \in Servers, ServerStep(s)
      PROVE  BootInv'
  <2>1. UNCHANGED <<task, toAdopt>>
    BY <1>2 DEF ServerStep, ProcessDies, BootDone, ExitedClean, ExitedCrash, CrashForgotten,
                requestVars, agentVars
  <2>2. \A r \in Servers : Booting(r)' => Booting(r)
    BY ZenonT(40), <1>2 DEF ServerStep, ProcessDies, BootDone, ExitedClean, ExitedCrash, CrashForgotten,
                Booting, TypeOK
  <2> QED
    BY <2>1, <2>2 DEF BootInv, At
<1>3. CASE AgentStep
  <2>1. AgentServes
    BY <1>3 DEF AgentStep, AgentStops, AdoptTimesOut, AdoptBegins, BootInv
  <2>2. UNCHANGED <<task, toAdopt, running, state>>
    BY <2>1 DEF AgentServes, requestVars
  <2> QED
    BY <2>2 DEF BootInv, At, Booting
<1> QED
  BY <1>1, <1>2, <1>3

\* Every server that boots has a slot of its own.
LEMMA BootsHaveSlots ==
  ASSUME BaseInv, BootInv
  PROVE  BootsBounded
<1> DEFINE B == {s \in Servers : running[s] /\ state[s] = "starting"}
           watch == [s \in B |-> CHOOSE t \in Tasks : At(t, s, "hold")]
<1>1. ASSUME NEW s \in B
      PROVE  watch[s] \in bootHeld /\ task[watch[s]].srv = s
  <2>1. watch[s] \in Tasks /\ At(watch[s], s, "hold")
    BY DEF BootInv, Booting
  <2>2. OwnsSlot(watch[s])
    BY <2>1 DEF OwnsSlot, At
  <2> QED
    BY <2>1, <2>2 DEF BaseInv, SlotsInv, BootSlotsConserved, At
<1> HIDE DEF watch
<1>2. IsFiniteSet(bootHeld)
  BY FS_Subset, TasksAssumption DEF BaseInv, TypeOK
<1>3. watch \in Injection(B, bootHeld)
  <2>1. watch \in [B -> bootHeld]
    BY <1>1 DEF watch
  <2>2. \A r, s \in B : watch[r] = watch[s] => r = s
    BY <1>1
  <2> QED
    BY <2>1, <2>2, Fun_IsInj
<1>4. Cardinality(B) <= Cardinality(bootHeld) /\ IsFiniteSet(B)
  BY <1>2, <1>3, FS_Injection
<1>5. /\ bootSlots \in Nat /\ bootSlots + Cardinality(bootHeld) = MaxBoots
      /\ Cardinality(B) \in Nat /\ Cardinality(bootHeld) \in Nat
  BY <1>2, <1>4, FS_CardinalityType DEF BaseInv, TypeOK, SlotsInv, BootSlotsConserved
<1> QED
  BY <1>4, <1>5, BoundsAssumption DEF BootsBounded

\* Never more servers boot than max_concurrent_boots (BootsBounded: _start,
\* _hold_slot), for any number of servers and tasks and whatever fails, as long
\* as no boot outlasts the timeout of its slot and the agent does not restart:
\* the code lets a boot that is too slow, and one adopted when every slot is
\* taken, go on without a slot.
THEOREM BootsAreBounded ==
  ASSUME ~BootTimeouts, ~AgentRestarts
  PROVE  Spec => []BootsBounded
<1>1. Init => BootInv
  BY DEF Init, BootInv, Booting, Idle
<1>2. BaseInv /\ BootInv /\ [Next]_vars => BootInv'
  <2> SUFFICES ASSUME BaseInv, BootInv, [Next]_vars
               PROVE  BootInv'
    OBVIOUS
  <2>1. ASSUME NEW t \in Tasks, NEW s \in Servers, TaskStep(t, s)
        PROVE  BootInv'
    BY <2>1, TaskStepTurn, TaskStepElsewhere, TaskStepBoots, TurnBoots DEF BaseInv, MutexInv
  <2>2. CASE \/ \E t \in Tasks, s \in Servers : ArrivalStep(t, s)
             \/ \E s \in Servers : ServerStep(s)
             \/ AgentStep
    BY <2>2, OtherBoots
  <2>3. CASE UNCHANGED vars
    BY <2>3 DEF BootInv, Booting, At, vars, requestVars, agentVars
  <2> QED
    BY <2>1, <2>2, <2>3 DEF Next
<1>3. BaseInv /\ BootInv => BootsBounded
  BY BootsHaveSlots
<1> QED
  BY <1>1, <1>2, <1>3, BaseInit, BaseStep, PTL DEF Spec

-----------------------------------------------------------------------------
(* Who knows of a container that runs.                                     *)

\* A server that was deleted while its container was being started, after the
\* agent has restarted: nobody is asked about it any more.
Untouched(s) ==
  /\ ~known[s] /\ ~running[s] /\ timers[s] = 0 /\ s \notin toAdopt
  /\ \A t \in Tasks : task[t].srv # s

\* While Docker answers, a container that runs is one the agent has a handle
\* on, or is about to; what is still to be adopted is left alone until then.
HandleInv ==
  /\ toAdopt # {} => ~serving
  /\ \A s \in toAdopt : /\ ~running[s] /\ timers[s] = 0
                        /\ \A t \in Tasks : task[t].srv = s => task[t].pc = "adopting"
  /\ \A s \in Servers : up[s] => \/ running[s] \/ s \in toAdopt \/ Untouched(s)
                                 \/ \E t \in Tasks : At(t, s, "attached")
  /\ RestoreExclusive

\* After a step of t, the container of s runs only if it has a handle, t is to
\* attach it, or t has nothing to do with it; a restore begins on a server that
\* is down, and a container is started by nobody but the task that creates it.
HandleTurn(t, s) ==
  /\ toAdopt' = toAdopt \ {s}
  /\ up'[s] => \/ running'[s] \/ At(t, s, "attached")'
               \/ up[s] /\ s \notin toAdopt /\ ~running[s] /\ task[t].pc # "attached"
  /\ task'[t].pc = "restoring" => ~up'[s]
  /\ up'[s] => up[s] \/ task[t].pc = "create"

LEMMA TaskStepHandles ==
  ASSUME BaseInv, HandleInv, ~DockerMayFail, NEW t \in Tasks, NEW s \in Servers, TaskStep(t, s)
  PROVE  HandleTurn(t, s)
<1> USE DEF BaseInv
<1>a. ASSUME task[t].srv = s, task[t].pc # "adopting"
      PROVE  s \notin toAdopt /\ toAdopt = toAdopt \ {s}
  BY <1>a DEF HandleInv
<1>b. ASSUME UNCHANGED <<running, up, toAdopt>>, task[t].srv = s,
             task[t].pc \notin {"adopting", "attached"}, task'[t].pc # "restoring"
      PROVE  HandleTurn(t, s)
  BY <1>a, <1>b DEF HandleTurn
<1>c. ASSUME ~up'[s], toAdopt' = toAdopt, task[t].srv = s, task[t].pc # "adopting"
      PROVE  HandleTurn(t, s)
  BY <1>a, <1>c DEF HandleTurn
\* Whoever has the lock of a server that is down, or could have it, knows that
\* its container does not run.
<1>d. ASSUME task[t].srv = s, lock[s] \in {t, NoTask}, ~running[s],
             task[t].pc \notin {"adopting", "attached"}
      PROVE  ~up[s]
  <2>1. \A u \in Tasks : ~At(u, s, "attached")
    BY <1>d, TasksAssumption DEF MutexInv, LockHeld, At, HoldPCs
  <2>2. ~Untouched(s) /\ s \notin toAdopt
    BY <1>a, <1>d DEF Untouched
  <2> QED
    BY <1>d, <2>1, <2>2 DEF HandleInv
<1>e. ASSUME task[t].srv = s, task[t].pc \in HoldPCs
      PROVE  lock[s] = t
  BY <1>e DEF MutexInv, LockHeld
<1>f. ASSUME Granted(t, s)
      PROVE  /\ task[t].srv = s /\ lock[s] \in {t, NoTask}
             /\ task[t].pc \notin {"adopting", "attached"}
  BY <1>e, <1>f, FlowLock DEF HoldPCs
<1>g. ASSUME BeginsStart(t, s) \/ Leaves(t, s)
      PROVE  task'[t].pc # "restoring"
  BY <1>g, FlowLock DEF Moved, Idle
<1>1. CASE GrantStart(t, s)
  BY <1>b, <1>f, <1>g, <1>1 DEF GrantStart, agentVars
<1>2. CASE GrantLater(t, s)
  BY <1>b, <1>f, <1>g, <1>2 DEF GrantLater, agentVars
<1>3. CASE GrantQueued(t, s)
  <2>1. task'[t].pc # "restoring"
    BY <1>g, <1>3, FlowLock DEF GrantQueued, Moved
  <2> QED
    BY <1>b, <1>f, <1>3, <2>1 DEF GrantQueued, agentVars
<1>4. CASE GrantStopQueued(t, s)
  <2>1. task'[t].pc # "restoring"
    <3>1. PICK q \in Tasks : q = queued[s] /\ At(q, s, "slot")
      BY <1>4 DEF GrantStopQueued, SlotsInv, QueuedWait, TypeOK
    <3>2. q # t
      BY <1>f, <1>4, <3>1, FlowLock DEF GrantStopQueued, At
    <3>3. \/ task' = [task EXCEPT ![q] = Idle, ![t].pc = "check"]
          \/ task' = [task EXCEPT ![q] = Idle, ![t] = Idle]
      BY <1>4, <3>1 DEF GrantStopQueued
    <3>4. CASE task' = [task EXCEPT ![q] = Idle, ![t] = Idle]
      BY <3>4 DEF TypeOK, Idle
    <3>5. CASE task' = [task EXCEPT ![q] = Idle, ![t].pc = "check"]
      BY <3>2, <3>5 DEF TypeOK, Activations
    <3> QED
      BY <3>3, <3>4, <3>5
  <2> QED
    BY <1>b, <1>f, <1>4, <2>1 DEF GrantStopQueued, agentVars
<1>5. CASE GrantStopIdle(t, s)
  <2>1. task'[t].pc # "restoring"
    BY <1>5, FlowLock DEF GrantStopIdle, Moved, Idle
  <2> QED
    BY <1>b, <1>f, <1>5, <2>1 DEF GrantStopIdle, agentVars
<1>6. CASE GrantStopRunning(t, s)
  <2>1. PICK b \in BOOLEAN : task' = [task EXCEPT ![t].pc = "stopping", ![t].again = b]
    BY <1>6 DEF GrantStopRunning
  <2>2. task'[t].pc = "stopping"
    BY <2>1 DEF TypeOK, Activations
  <2> QED
    BY <1>b, <1>f, <1>6, <2>2 DEF GrantStopRunning, agentVars
<1>7. CASE GrantKill(t, s)
  <2>1. task'[t].pc # "restoring"
    BY <1>7, FlowLock DEF GrantKill, Moved, Idle
  <2> QED
    BY <1>b, <1>f, <1>7, <2>1 DEF GrantKill, agentVars
<1>8. CASE GrantRestore(t, s)
  <2>1. ~up[s] /\ up' = up /\ toAdopt' = toAdopt
    BY <1>d, <1>f, <1>8 DEF GrantRestore, agentVars
  <2> QED
    BY <1>c, <1>f, <1>8, <2>1 DEF GrantRestore
<1>9. CASE CheckRefused(t, s)
  BY <1>b, <1>g, <1>9 DEF CheckRefused, Resumes, agentVars
<1>10. CASE CheckLaunches(t, s)
  <2>1. task'[t].pc # "restoring"
    BY <1>10, FlowLock DEF CheckLaunches, Moved
  <2> QED
    BY <1>b, <1>10, <2>1 DEF CheckLaunches, Resumes, agentVars
<1>11. CASE CheckQueues(t, s)
  <2>1. task'[t].pc # "restoring"
    BY <1>11 DEF CheckQueues, TypeOK
  <2> QED
    BY <1>b, <1>11, <2>1 DEF CheckQueues, Resumes, agentVars
<1>12. CASE SlotRun(t, s)
  <2>1. task'[t].pc # "restoring"
    BY <1>12, FlowTask DEF SlotRun
  <2> QED
    BY <1>b, <1>12, <2>1 DEF SlotRun, Resumes, agentVars
<1>13. CASE Launch(t, s)
  <2>1. task'[t].pc # "restoring"
    BY <1>13, FlowLock DEF Launch, Moved
  <2> QED
    BY <1>b, <1>13, <2>1 DEF Launch, Resumes, agentVars
<1>14. CASE Create(t, s)
  <2>1. task[t].srv = s /\ task[t].pc = "create" /\ toAdopt' = toAdopt
    BY <1>14 DEF Create, Resumes, agentVars
  <2>2. At(t, s, "attached")' /\ task'[t].pc # "restoring"
    BY <1>14, <2>1, FlowLock DEF Create, Moved, At
  <2> QED
    BY <1>a, <2>1, <2>2 DEF HandleTurn
<1>15. CASE CreateFails(t, s)
  BY <1>b, <1>g, <1>15 DEF CreateFails, Resumes, agentVars
<1>16. CASE CreateTaken(t, s)
  <2>1. task'[t].pc # "restoring"
    BY <1>16, FlowLock DEF CreateTaken, Moved
  <2> QED
    BY <1>b, <1>16, <2>1 DEF CreateTaken, Resumes, agentVars
<1>17. CASE Attached(t, s)
  <2>1. /\ task[t].srv = s /\ task[t].pc = "attached" /\ task'[t].pc = "hold"
        /\ running'[s] /\ toAdopt' = toAdopt /\ up' = up
    BY <1>17 DEF Attached, Resumes, agentVars, TypeOK
  <2> QED
    BY <1>a, <2>1 DEF HandleTurn
<1>18. CASE HoldEnds(t, s)
  <2>1. task'[t].pc # "restoring"
    BY <1>18, FlowTask DEF HoldEnds, Idle
  <2> QED
    BY <1>b, <1>18, <2>1 DEF HoldEnds, Resumes, agentVars
<1>19. CASE StopSeen(t, s)
  <2>1. task[t].srv = s /\ task[t].pc \in {"stopping", "stopwait"}
    BY <1>19 DEF StopSeen, Resumes
  <2>2. ~up[s] /\ up' = up /\ toAdopt' = toAdopt
    BY <1>d, <1>e, <1>19, <2>1 DEF StopSeen, HoldPCs, agentVars
  <2> QED
    BY <1>c, <2>1, <2>2
<1>20. CASE StopTimesOut(t, s)
  <2>1. ~up'[s] /\ toAdopt' = toAdopt /\ task[t].srv = s /\ task[t].pc # "adopting"
    BY <1>20 DEF StopTimesOut, Resumes, agentVars, TypeOK
  <2> QED
    BY <1>c, <2>1
<1>21. CASE StopKills(t, s)
  <2>1. ~up'[s] /\ toAdopt' = toAdopt /\ task[t].srv = s /\ task[t].pc # "adopting"
    BY <1>21 DEF StopKills, Resumes, agentVars, TypeOK
  <2> QED
    BY <1>c, <2>1
<1>22. CASE StopFails(t, s)
  BY <1>22 DEF StopFails
<1>23. CASE Killed(t, s)
  <2>1. ~up'[s] /\ toAdopt' = toAdopt /\ task[t].srv = s /\ task[t].pc # "adopting"
    BY <1>23 DEF Killed, Resumes, agentVars, TypeOK
  <2> QED
    BY <1>c, <2>1
<1>24. CASE RestoreEnds(t, s)
  BY <1>b, <1>g, <1>24 DEF RestoreEnds, Resumes, agentVars
<1>25. CASE InstallBegins(t, s)
  <2>1. task'[t].pc # "restoring"
    BY <1>25, FlowLock DEF InstallBegins, Moved
  <2> QED
    BY <1>b, <1>25, <2>1 DEF InstallBegins, Resumes, agentVars
<1>26. CASE InstallEnds(t, s)
  <2>1. task'[t].pc # "restoring"
    BY <1>26, FlowTask DEF InstallEnds, Idle
  <2> QED
    BY <1>b, <1>26, <2>1 DEF InstallEnds, Resumes, agentVars
<1>27. CASE DeleteKilled(t, s)
  <2>1. ~up'[s] /\ toAdopt' = toAdopt /\ task[t].srv = s /\ task[t].pc # "adopting"
    BY <1>27 DEF DeleteKilled, Resumes, agentVars, TypeOK
  <2> QED
    BY <1>c, <2>1
<1>28. CASE DeleteDone(t, s)
  <2>1. ~up'[s] /\ toAdopt' = toAdopt /\ task[t].srv = s /\ task[t].pc # "adopting"
    BY <1>28 DEF DeleteDone, Resumes, agentVars, TypeOK
  <2> QED
    BY <1>c, <2>1
<1>29. CASE DeleteFails(t, s)
  BY <1>29 DEF DeleteFails
<1>30. CASE Adopted(t, s)
  <2>1. task'[t].pc # "restoring"
    BY <1>30, FlowTask DEF Adopted, Idle, TypeOK
  <2>2. running'[s] /\ toAdopt' = toAdopt \ {s} /\ up' = up
    BY <1>30 DEF Adopted, TypeOK
  <2> QED
    BY <2>1, <2>2 DEF HandleTurn
<1>31. CASE AdoptFails(t, s)
  <2>1. ~up'[s] /\ toAdopt' = toAdopt \ {s}
    BY <1>31 DEF AdoptFails
  <2> QED
    BY <2>1 DEF HandleTurn
<1> QED
  BY <1>1, <1>2, <1>3, <1>4, <1>5, <1>6, <1>7, <1>8, <1>9, <1>10, <1>11, <1>12, <1>13,
     <1>14, <1>15, <1>16, <1>17, <1>18, <1>19, <1>20, <1>21, <1>22, <1>23, <1>24, <1>25,
     <1>26, <1>27, <1>28, <1>29, <1>30, <1>31
  DEF TaskStep, GrantStep, AwaitStep

LEMMA TurnHandles ==
  ASSUME BaseInv, HandleInv, NEW t \in Tasks, NEW s \in Servers, OwnTurn(t, s), Elsewhere(s),
         timers' = timers, serving' = serving, HandleTurn(t, s)
  PROVE  HandleInv'
<1> USE DEF BaseInv
<1>a. \A u \in Tasks, r \in Servers \ {s} : task'[u].srv = r => task'[u] = task[u]
  BY ServersAssumption DEF OwnTurn, Turn, Idle, At
<1>b. toAdopt' = toAdopt \ {s}
  BY DEF HandleTurn
<1>1. toAdopt' # {} => ~serving'
  BY <1>b DEF HandleInv
<1>2. ASSUME NEW r \in toAdopt'
      PROVE  /\ ~running'[r] /\ timers'[r] = 0
             /\ \A u \in Tasks : task'[u].srv = r => task'[u].pc = "adopting"
  <2>1. r \in toAdopt /\ r \in Servers \ {s}
    BY <1>b, <1>2 DEF TypeOK
  <2> QED
    BY <1>a, <2>1 DEF HandleInv, Elsewhere
<1>3. ASSUME NEW r \in Servers, up'[r]
      PROVE  \/ running'[r] \/ r \in toAdopt' \/ Untouched(r)'
             \/ \E u \in Tasks : At(u, r, "attached")'
  <2>1. CASE r # s
    <3>1. up[r] /\ running'[r] = running[r] /\ known'[r] = known[r]
      BY <1>3, <2>1 DEF Elsewhere
    <3>2. CASE running[r] \/ r \in toAdopt
      BY <1>b, <2>1, <3>1, <3>2
    <3>3. CASE Untouched(r)
      BY <1>a, <1>b, <2>1, <3>1, <3>3 DEF Untouched
    <3>4. ASSUME NEW u \in Tasks, At(u, r, "attached")
          PROVE  At(u, r, "attached")'
      BY <2>1, <3>4 DEF OwnTurn, Turn, At
    <3> QED
      BY <3>1, <3>2, <3>3, <3>4 DEF HandleInv
  <2>2. CASE r = s /\ ~running'[s] /\ ~At(t, s, "attached")'
    <3>1. up[s] /\ s \notin toAdopt /\ ~running[s] /\ task[t].pc # "attached" /\ ~Untouched(s)
      BY <1>3, <2>2 DEF HandleTurn, OwnTurn, Untouched
    <3>2. PICK u \in Tasks : At(u, s, "attached")
      BY <3>1 DEF HandleInv
    <3>3. At(u, s, "attached")'
      BY <3>1, <3>2 DEF OwnTurn, Turn, At
    <3> QED
      BY <2>2, <3>3
  <2> QED
    BY <2>1, <2>2
<1>4. ASSUME NEW u \in Tasks, NEW r \in Servers, At(u, r, "restoring")'
      PROVE  ~up'[r]
  <2>1. CASE u = t
    BY <1>4, <2>1, ServersAssumption DEF OwnTurn, Turn, HandleTurn, At, Idle
  <2>2. CASE u # t
    <3>1. At(u, r, "restoring")
      BY <1>4, <2>2 DEF OwnTurn, Turn, At, Idle
    <3>2. ~up[r]
      BY <3>1 DEF HandleInv, RestoreExclusive
    <3>3. CASE r # s
      BY <3>2, <3>3 DEF Elsewhere
    <3>4. CASE r = s
      <4>1. task[t].pc # "create"
        BY <2>2, <3>1, <3>4, Mutex DEF MutexInv, OwnTurn, At, HoldPCs
      <4> QED
        BY <3>2, <3>4, <4>1 DEF HandleTurn
    <3> QED
      BY <3>3, <3>4
  <2> QED
    BY <2>1, <2>2
<1> QED
  BY <1>1, <1>2, <1>3, <1>4 DEF HandleInv, RestoreExclusive

LEMMA OtherHandles ==
  ASSUME BaseInv, HandleInv, ~DockerMayFail,
         \/ \E t \in Tasks, s \in Servers : ArrivalStep(t, s)
         \/ \E s \in Servers : ServerStep(s)
         \/ AgentStep
  PROVE  HandleInv'
<1> USE DEF BaseInv
<1>1. ASSUME NEW t \in Tasks, NEW s \in Servers, ArrivalStep(t, s)
      PROVE  HandleInv'
  <2>1. /\ Turn(t, s) /\ task'[t].pc \in ArrivalPCs
        /\ UNCHANGED <<running, up, known, serving, toAdopt>>
    BY <1>1, ArrivalTurn
  <2>2. task[t] = Idle
    BY <1>1 DEF ArrivalStep, TimerFires, InstallRequest, DeleteRequest, Request, IsIdle
  <2>3. (serving /\ known[s] /\ timers' = timers) \/ timers[s] > 0
    BY <1>1 DEF ArrivalStep, TimerFires, InstallRequest, DeleteRequest, Request, crashVars
  <2>4. s \notin toAdopt /\ ~Untouched(s)
    BY <2>3 DEF HandleInv, Untouched
  <2>5. \A r \in Servers \ {s} : timers'[r] = timers[r]
    BY <1>1 DEF ArrivalStep, TimerFires, InstallRequest, DeleteRequest, Request, crashVars,
                TypeOK
  <2>6. \A u \in Tasks, r \in Servers \ {s} : task'[u].srv = r => task'[u] = task[u]
    BY <2>1, ServersAssumption DEF Turn, Idle
  <2>7. ASSUME NEW r \in toAdopt
        PROVE  /\ ~running'[r] /\ timers'[r] = 0
               /\ \A u \in Tasks : task'[u].srv = r => task'[u].pc = "adopting"
    <3>1. r \in Servers \ {s}
      BY <2>4, <2>7 DEF TypeOK
    <3> QED
      BY <2>1, <2>5, <2>6, <2>7, <3>1 DEF HandleInv
  <2>8. ASSUME NEW r \in Servers, up[r]
        PROVE  \/ running[r] \/ r \in toAdopt \/ Untouched(r)'
               \/ \E u \in Tasks : At(u, r, "attached")'
    <3>1. CASE Untouched(r)
      BY <2>1, <2>4, <2>5, <2>6, <3>1 DEF Untouched
    <3>2. ASSUME NEW u \in Tasks, At(u, r, "attached")
          PROVE  At(u, r, "attached")'
      BY <2>1, <2>2, <3>2 DEF Turn, At, Idle
    <3> QED
      BY <2>8, <3>1, <3>2 DEF HandleInv
  <2>9. ASSUME NEW u \in Tasks, NEW r \in Servers, At(u, r, "restoring")'
        PROVE  ~up[r]
    <3>1. At(u, r, "restoring")
      BY <2>1, <2>9 DEF Turn, At, Idle, ArrivalPCs
    <3> QED
      BY <3>1 DEF HandleInv, RestoreExclusive
  <2> QED
    BY <2>1, <2>7, <2>8, <2>9 DEF HandleInv, RestoreExclusive
<1>2. ASSUME NEW s \in Servers, ServerStep(s)
      PROVE  HandleInv'
  <2>1. UNCHANGED <<task, known, serving, toAdopt>>
    BY <1>2 DEF ServerStep, ProcessDies, BootDone, ExitedClean, ExitedCrash, CrashForgotten,
                requestVars, agentVars
  <2>2. \A r \in Servers : /\ up'[r] => up[r]
                           /\ running'[r] # running[r] => ~up'[r] /\ ~running'[r]
    BY <1>2 DEF ServerStep, ProcessDies, BootDone, ExitedClean, ExitedCrash, CrashForgotten,
                ExitSeen, TypeOK
  <2>3. \A r \in Servers : timers'[r] # timers[r] => running[r]
    BY <1>2 DEF ServerStep, ProcessDies, BootDone, ExitedClean, ExitedCrash, CrashForgotten,
                ExitSeen, crashVars, TypeOK
  <2>4. \A r \in toAdopt : /\ ~running'[r] /\ timers'[r] = 0
                           /\ \A u \in Tasks : task[u].srv = r => task[u].pc = "adopting"
    BY <2>2, <2>3 DEF HandleInv, TypeOK
  <2>5. ASSUME NEW r \in Servers, up'[r]
        PROVE  \/ running'[r] \/ r \in toAdopt \/ Untouched(r)'
               \/ \E u \in Tasks : At(u, r, "attached")
    <3>1. CASE Untouched(r)
      BY <2>1, <2>2, <2>3, <3>1 DEF Untouched
    <3> QED
      BY <2>2, <2>5, <3>1 DEF HandleInv
  <2>6. RestoreExclusive'
    BY <2>1, <2>2 DEF HandleInv, RestoreExclusive, At
  <2> QED
    BY <2>1, <2>4, <2>5, <2>6 DEF HandleInv, At
<1>3. CASE AgentStops
  <2>1. /\ \A u \in Tasks : task'[u] = Idle
        /\ \A r \in Servers : ~running'[r] /\ timers'[r] = 0
        /\ ~serving' /\ toAdopt' = {r \in Servers : known[r] /\ up[r]}
        /\ UNCHANGED <<up, known>>
    BY <1>3 DEF AgentStops
  <2>2. \A u \in Tasks : task'[u].pc = "idle" /\ task'[u].srv = NoServer
    BY <2>1 DEF Idle
  <2>3. \A r \in Servers : up'[r] => r \in toAdopt' \/ Untouched(r)'
    BY <2>1, <2>2, ServersAssumption DEF Untouched
  <2> QED
    BY <2>1, <2>2, <2>3, ServersAssumption DEF HandleInv, RestoreExclusive, At
<1>4. CASE AdoptTimesOut
  BY <1>4 DEF AdoptTimesOut
<1>5. CASE AgentServes
  <2>1. UNCHANGED <<task, running, up, known, timers, toAdopt>> /\ toAdopt = {}
    BY <1>5 DEF AgentServes, requestVars, crashVars
  <2> QED
    BY <2>1 DEF HandleInv, Untouched, RestoreExclusive, At
<1>6. ASSUME NEW t \in Tasks, NEW s \in Servers, AdoptBegins(t, s)
      PROVE  HandleInv'
  <2>1. /\ task[t] = Idle /\ Others(t)
        /\ task'[t].pc = "adopting" /\ task'[t].srv = s
    BY <1>6 DEF AdoptBegins, IsIdle, Others, TypeOK
  <2>2. s \in toAdopt /\ UNCHANGED <<running, up, known, timers, serving, toAdopt>>
    BY <1>6 DEF AdoptBegins, crashVars, agentVars
  <2>3. \A u \in Tasks, r \in Servers : At(u, r, "attached") => At(u, r, "attached")'
    BY <2>1 DEF At, Others, Idle
  <2>4. \A u \in Tasks, r \in Servers : At(u, r, "restoring")' => At(u, r, "restoring")
    BY <2>1 DEF At, Others
  <2>5. \A r \in Servers : Untouched(r) => Untouched(r)'
    BY <2>1, <2>2 DEF Untouched, Others
  <2>6. \A r \in toAdopt, u \in Tasks : task'[u].srv = r => task'[u].pc = "adopting"
    BY <2>1 DEF HandleInv, Others
  <2>7. \A r \in Servers : up[r] => \/ running[r] \/ r \in toAdopt \/ Untouched(r)'
                                    \/ \E u \in Tasks : At(u, r, "attached")'
    BY <2>3, <2>5 DEF HandleInv
  <2>8. RestoreExclusive'
    BY <2>2, <2>4 DEF HandleInv, RestoreExclusive
  <2> QED
    BY <2>2, <2>6, <2>7, <2>8 DEF HandleInv
<1> QED
  BY <1>1, <1>2, <1>3, <1>4, <1>5, <1>6 DEF AgentStep

LEMMA HandleInvInit == Init => HandleInv
BY DEF Init, HandleInv, RestoreExclusive, At, Idle

LEMMA HandleStep ==
  ASSUME BaseInv, HandleInv, ~DockerMayFail, [Next]_vars
  PROVE  HandleInv'
<1>1. ASSUME NEW t \in Tasks, NEW s \in Servers, TaskStep(t, s)
      PROVE  HandleInv'
  BY <1>1, TaskStepTurn, TaskStepElsewhere, TaskStepHandles, TurnHandles DEF BaseInv, MutexInv
<1>2. CASE \/ \E t \in Tasks, s \in Servers : ArrivalStep(t, s)
           \/ \E s \in Servers : ServerStep(s)
           \/ AgentStep
  BY <1>2, OtherHandles
<1>3. CASE UNCHANGED vars
  BY <1>3 DEF HandleInv, Untouched, RestoreExclusive, At, vars, requestVars, crashVars, agentVars
<1> QED
  BY <1>1, <1>2, <1>3 DEF Next

\* A restore never writes into the folder of a server whose container runs
\* (RestoreExclusive: _restore), for any number of servers and tasks, across
\* requests, installs, deletions, crashes and restarts of the agent, as long as
\* Docker answers.  When it may not, the answer to a start can be lost and the
\* container run unseen (CreateFails).
THEOREM RestoreIsAlone ==
  ASSUME ~DockerMayFail
  PROVE  Spec => []RestoreExclusive
<1>1. HandleInv => RestoreExclusive
  BY DEF HandleInv
<1>2. BaseInv /\ HandleInv /\ [Next]_vars => HandleInv'
  BY HandleStep
<1> QED
  BY <1>1, <1>2, HandleInvInit, BaseInit, BaseStep, PTL DEF Spec

\* Once the agent serves, every running container of a server it has is one it
\* has a handle on, or is about to (ContainerHasHandle: adopt_running, _launch),
\* for any number of servers and tasks, as long as Docker answers.
THEOREM HandlesAreKept ==
  ASSUME ~DockerMayFail
  PROVE  Spec => []ContainerHasHandle
<1>1. HandleInv => ContainerHasHandle
  BY DEF HandleInv, ContainerHasHandle, Untouched
<1>2. BaseInv /\ HandleInv /\ [Next]_vars => HandleInv'
  BY HandleStep
<1> QED
  BY <1>1, <1>2, HandleInvInit, BaseInit, BaseStep, PTL DEF Spec

-----------------------------------------------------------------------------
(* A server that was stopped.                                              *)

Stopping == {"stopping", "stopwait"}
Fallen == {"crashed", "queued"}

\* Whoever waits for a lock is in its line, who is asked to start a server has
\* its lock or waits for it, and nobody else restores.
Lined ==
  \A t \in Tasks :
    /\ task[t].pc = "lock" =>
         /\ task[t].srv \in Servers
         /\ \E i \in DOMAIN lockq[task[t].srv] : lockq[task[t].srv][i] = t
    /\ task[t].kind \in Starts => task[t].pc \in HoldPCs \cup {"lock"}
    /\ task[t].pc = "restoring" => task[t].kind \in Starts

\* While a stop waits for the exit, that exit will not count as a crash.
StopsHold ==
  \A t \in Tasks : task[t].pc \in Stopping =>
    stopping[task[t].srv] /\ state[task[t].srv] \notin Fallen

\* s was stopped, and nothing that is left over can start it: it is not for a
\* crash timer or a queued start to start, it will not be taken for crashed, no
\* start of it is under way, and a restarted agent will not find it running.
Down(s) ==
  /\ state[s] \notin Fallen
  /\ stopping[s] \/ ~running[s]
  /\ s \notin toAdopt
  /\ ~DockerMayFail => ~up[s]
  /\ \A t \in Tasks : task[t].srv = s =>
       task[t].kind \notin Starts /\ task[t].pc \notin StartPCs \cup {"adopting"}

\* What an agent finds when it comes back.
Found == IF DockerMayFail THEN toAdopt = {} ELSE HandleInv

HaltInv ==
  /\ BaseInv /\ Lined /\ StopsHold /\ Found
  /\ \A s \in Servers : verdict[s] = "halted" => Down(s)

\* What a step of t does to the line of the lock of s, and to what keeps s down.
Queues(t, s) ==
  /\ \A r \in Servers \ {s} : lockq'[r] = lockq[r]
  /\ \/ lockq'[s] = lockq[s] /\ task'[t].pc # "lock"
     \/ /\ lockq[s] # <<>> /\ lockq'[s] = Tail(lockq[s]) /\ Head(lockq[s]) = t
        /\ task'[t].pc # "lock"
     \/ lockq'[s] = Append(lockq[s], t) /\ task'[t].pc = "lock"

LineTurn(t, s) ==
  /\ Queues(t, s)
  /\ task'[t].kind \in Starts => task[t].kind \in Starts /\ task'[t].pc \in HoldPCs
  /\ task'[t].pc = "restoring" => task'[t].kind \in Starts

DownTurn(t, s) ==
  /\ \A r \in Servers \ {s} : stopping'[r] = stopping[r]
  /\ state'[s] = "crashed" => state[s] = "crashed"
  /\ state'[s] = "queued" => state[s] = "queued" \/ task[t].pc = "check"
  /\ stopping[s] => stopping'[s] \/ task[t].pc = "ports"
  /\ up'[s] => up[s] \/ task[t].pc = "create"
  /\ toAdopt' \subseteq toAdopt
  /\ task'[t].pc \in StartPCs =>
       task[t].pc \in StartPCs \/ task[t].kind \in Starts \/ state[s] \in Fallen
  /\ task'[t].pc \in Stopping => stopping'[s] /\ state'[s] \notin Fallen

\* A stop that is over has left everything about the server but the container.
StopTurn(t, s) ==
  task[t].pc \in Stopping /\ task'[t] = Idle =>
    /\ lockq' = lockq /\ state' = state /\ stopping' = stopping
    /\ ~DockerMayFail => ~up'[s]

LEMMA TaskStepHalts ==
  ASSUME BaseInv, Lined, StopsHold, Found, NEW t \in Tasks, NEW s \in Servers, TaskStep(t, s)
  PROVE  LineTurn(t, s) /\ DownTurn(t, s) /\ StopTurn(t, s)
<1> DEFINE Goal == LineTurn(t, s) /\ DownTurn(t, s) /\ StopTurn(t, s)
<1> USE DEF BaseInv, TypeOK
<1>0. /\ task[t].pc = "restoring" => task[t].kind \in Starts
      /\ task[t].kind \in Starts => task[t].pc \in HoldPCs \cup {"lock"}
  BY DEF Lined
<1>1. /\ lock \in [Servers -> Tasks \cup {NoTask}] /\ lockq \in [Servers -> Seq(Tasks)]
      /\ task \in [Tasks -> Activations]
  OBVIOUS
<1> SUFFICES Goal
  BY DEF Goal
<1> HIDE DEF Goal
\* The line, by how the task comes to its step.
<1>a. ASSUME Granted(t, s), task'[t].pc # "lock",
             task'[t].kind \in Starts => task[t].kind \in Starts /\ task'[t].pc \in HoldPCs,
             task'[t].pc = "restoring" => task'[t].kind \in Starts
      PROVE  LineTurn(t, s)
  <2>1. CASE lockq' = lockq
    BY <1>a, <2>1 DEF Queues, LineTurn
  <2>2. CASE lockq[s] # <<>> /\ Head(lockq[s]) = t /\ lockq' = [lockq EXCEPT ![s] = Tail(@)]
    BY <1>a, <2>2 DEF Queues, LineTurn
  <2> QED
    BY <1>a, <2>1, <2>2 DEF Granted
<1>b. ASSUME lockq' = lockq, task'[t].pc # "lock",
             task'[t].kind \in Starts => task[t].kind \in Starts /\ task'[t].pc \in HoldPCs,
             task'[t].pc = "restoring" => task'[t].kind \in Starts
      PROVE  LineTurn(t, s)
  BY <1>b DEF Queues, LineTurn
\* A step that changes little.
<1>c. ASSUME UNCHANGED <<state, stopping, up, toAdopt>>,
             task'[t].pc \in StartPCs =>
               task[t].pc \in StartPCs \/ task[t].kind \in Starts \/ state[s] \in Fallen,
             task'[t].pc \notin Stopping
      PROVE  DownTurn(t, s)
  BY <1>c DEF DownTurn
<1>d. ASSUME task[t].pc \notin Stopping
      PROVE  StopTurn(t, s)
  BY <1>d DEF StopTurn
<1>e. ASSUME Leaves(t, s) \/ Ends(t)
      PROVE  task'[t] = Idle
  BY <1>e, FlowLock, FlowTask
<1>f. /\ Idle.pc \notin StartPCs \cup Stopping \cup {"lock", "restoring"}
      /\ Idle.kind \notin Starts
  BY DEF Idle, StartPCs, Stopping, Starts
<1>g. ASSUME BeginsStart(t, s)
      PROVE  task'[t] = Idle \/ (task'[t].pc = "check" /\ task'[t].kind = task[t].kind)
  BY <1>g, FlowLock DEF Moved
<1>h. ASSUME AfterStop(t, s)
      PROVE  \/ task'[t] = Idle
             \/ /\ task'[t].pc \in {"check", "restoring"} /\ task'[t].kind = task[t].kind
                /\ task[t].kind \in Starts
  BY <1>h, FlowLock DEF Moved, Starts
<1>i. ASSUME Granted(t, s)
      PROVE  task[t].pc \in {"enter", "lock"}
  BY <1>i, FlowLock
<1>j. /\ {"check", "restoring"} \subseteq HoldPCs /\ "restoring" \notin StartPCs
      /\ {"check", "restoring"} \cap (Stopping \cup {"lock"}) = {}
  BY DEF HoldPCs, StartPCs, Stopping
<1>k. ASSUME task'[t] = Idle
      PROVE  /\ task'[t].pc \notin StartPCs \cup Stopping \cup {"lock", "restoring"}
             /\ task'[t].kind \notin Starts
  BY <1>f, <1>k
<1>n. {"enter", "lock"} \cap Stopping = {} /\ {"enter", "lock"} \cap StartPCs = {}
  BY DEF Stopping, StartPCs
\* A grant that begins a start, or does nothing.
<1>o. ASSUME Granted(t, s), UNCHANGED <<state, stopping, up, toAdopt>>,
             \/ task'[t] = Idle
             \/ /\ task'[t].pc = "check" /\ task'[t].kind = task[t].kind
                /\ state[s] \in Fallen
             \/ /\ task'[t].pc \in {"check", "restoring"} /\ task'[t].kind = task[t].kind
                /\ task[t].kind \in Starts
      PROVE  Goal
  <2>1. /\ task'[t].pc # "lock" /\ (task'[t].pc = "restoring" => task'[t].kind \in Starts)
        /\ task'[t].pc \notin Stopping
        /\ task'[t].kind \in Starts => task[t].kind \in Starts /\ task'[t].pc \in HoldPCs
        /\ task'[t].pc \in StartPCs => task[t].kind \in Starts \/ state[s] \in Fallen
    BY <1>0, <1>o, <1>k, <1>j
  <2> QED
    BY <1>a, <1>c, <1>d, <1>i, <1>n, <1>o, <2>1 DEF Goal
\* A step that ends at once and has not to do with a stop.
<1>p. ASSUME UNCHANGED <<lockq, state, stopping, up, toAdopt>>, task'[t] = Idle,
             task[t].pc \notin Stopping
      PROVE  Goal
  BY <1>b, <1>c, <1>d, <1>k, <1>p DEF Goal
<1>2. CASE GrantStart(t, s)
  <2>1. /\ BeginsStart(t, s) /\ Granted(t, s) /\ task[t].kind \in Starts
        /\ UNCHANGED <<state, stopping, up, toAdopt>>
    BY <1>2 DEF GrantStart, agentVars, Starts
  <2> QED
    BY <1>g, <1>o, <2>1
<1>3. CASE GrantLater(t, s)
  <2>1. /\ (BeginsStart(t, s) /\ state[s] \in Fallen) \/ Leaves(t, s)
        /\ Granted(t, s) /\ UNCHANGED <<state, stopping, up, toAdopt>>
    BY <1>3 DEF GrantLater, agentVars, Fallen
  <2> QED
    BY <1>e, <1>g, <1>o, <2>1
<1>4. CASE GrantQueued(t, s)
  <2>1. \/ task'[t] = Idle
        \/ task'[t].pc = "check" /\ task'[t].kind = task[t].kind /\ state[s] = "queued"
    BY <1>e, <1>4, FlowLock DEF GrantQueued, Moved
  <2>2. Granted(t, s) /\ UNCHANGED <<state, stopping, up, toAdopt>>
    BY <1>4 DEF GrantQueued, agentVars
  <2>3. "queued" \in Fallen
    BY DEF Fallen
  <2> QED
    BY <1>o, <2>1, <2>2, <2>3
<1>5. CASE GrantStopQueued(t, s)
  <2>1. PICK q \in Tasks : q = queued[s] /\ At(q, s, "slot")
    BY <1>5 DEF GrantStopQueued, SlotsInv, QueuedWait
  <2>2. q # t
    BY <1>i, <1>5, <2>1 DEF GrantStopQueued, At
  <2>3. \/ /\ task[t].kind = "restart"
           /\ task' = [task EXCEPT ![q] = Idle, ![t].pc = "check"]
        \/ task' = [task EXCEPT ![q] = Idle, ![t] = Idle]
    BY <1>5, <2>1 DEF GrantStopQueued
  <2>4. \/ task'[t] = Idle
        \/ task'[t].pc = "check" /\ task'[t].kind = task[t].kind /\ task[t].kind \in Starts
    <3>1. CASE task' = [task EXCEPT ![q] = Idle, ![t] = Idle]
      BY <3>1
    <3>2. CASE task[t].kind = "restart" /\ task' = [task EXCEPT ![q] = Idle, ![t].pc = "check"]
      BY <2>2, <3>2 DEF Activations, Starts
    <3> QED
      BY <2>3, <3>1, <3>2
  <2>5. /\ task'[t].pc # "lock" /\ (task'[t].pc = "restoring" => task'[t].kind \in Starts)
        /\ task'[t].pc \notin Stopping
        /\ task'[t].kind \in Starts => task[t].kind \in Starts /\ task'[t].pc \in HoldPCs
        /\ task'[t].pc \in StartPCs => task[t].kind \in Starts
    BY <1>0, <2>4, <1>k, <1>j
  <2>6. Granted(t, s) /\ state' = [state EXCEPT ![s] = "offline"]
        /\ UNCHANGED <<stopping, up, toAdopt>>
    BY <1>5 DEF GrantStopQueued, agentVars
  <2>7. DownTurn(t, s)
    BY <2>5, <2>6 DEF DownTurn
  <2> QED
    BY <1>a, <1>d, <1>i, <1>n, <2>5, <2>6, <2>7 DEF Goal
<1>6. CASE GrantStopIdle(t, s)
  <2>1. AfterStop(t, s) /\ Granted(t, s) /\ UNCHANGED <<state, stopping, up, toAdopt>>
    BY <1>6 DEF GrantStopIdle, agentVars
  <2> QED
    BY <1>h, <1>o, <2>1
<1>7. CASE GrantStopRunning(t, s)
  <2>1. task'[t].pc = "stopping" /\ task'[t].kind = task[t].kind
    BY <1>7 DEF GrantStopRunning, Activations
  <2>2. /\ Granted(t, s) /\ stopping' = [stopping EXCEPT ![s] = TRUE]
        /\ state' = [state EXCEPT ![s] = "stopping"] /\ UNCHANGED <<up, toAdopt>>
    BY <1>7 DEF GrantStopRunning, agentVars
  <2>3. LineTurn(t, s)
    BY <1>a, <1>0, <2>1, <2>2 DEF HoldPCs
  <2>4. DownTurn(t, s)
    BY <2>1, <2>2 DEF DownTurn, StartPCs, Fallen
  <2> QED
    BY <1>d, <1>i, <1>n, <2>2, <2>3, <2>4 DEF Goal
<1>8. CASE GrantKill(t, s)
  <2>1. task'[t] = Idle \/ (task'[t].pc = "killing" /\ task'[t].kind = "kill")
    BY <1>e, <1>8, FlowLock DEF GrantKill, Moved
  <2>2. /\ Granted(t, s) /\ stopping' \in {stopping, [stopping EXCEPT ![s] = TRUE]}
        /\ UNCHANGED <<state, up, toAdopt>>
    BY <1>8 DEF GrantKill, agentVars
  <2>3. LineTurn(t, s)
    BY <1>a, <1>k, <2>1, <2>2 DEF Starts
  <2>4. DownTurn(t, s)
    BY <1>k, <2>1, <2>2 DEF DownTurn, StartPCs, Stopping
  <2> QED
    BY <1>d, <1>i, <1>n, <2>2, <2>3, <2>4 DEF Goal
<1>9. CASE GrantRestore(t, s)
  <2>1. task'[t].pc = "restoring" /\ task'[t].kind = task[t].kind /\ task[t].kind \in Starts
    BY <1>9, FlowLock DEF GrantRestore, Moved, Starts
  <2>2. Granted(t, s) /\ UNCHANGED <<state, stopping, up, toAdopt>>
    BY <1>9 DEF GrantRestore, agentVars
  <2> QED
    BY <1>o, <2>1, <2>2
<1>10. CASE CheckRefused(t, s)
  <2>1. task'[t] = Idle /\ task[t].pc \notin Stopping /\ lockq' = lockq
    BY <1>e, <1>10 DEF CheckRefused, Resumes, Stopping
  <2>2. DownTurn(t, s)
    BY <1>10, <1>k, <2>1 DEF CheckRefused, DownTurn, agentVars
  <2> QED
    BY <1>b, <1>d, <1>k, <2>1, <2>2 DEF Goal
<1>11. CASE CheckLaunches(t, s)
  <2>1. task'[t].pc = "ports" /\ task'[t].kind = task[t].kind /\ task[t].pc \in {"check", "recheck"}
    BY <1>11, FlowLock DEF CheckLaunches, Resumes, Moved
  <2>2. UNCHANGED <<lockq, state, stopping, up, toAdopt>>
    BY <1>11 DEF CheckLaunches, agentVars
  <2> QED
    BY <1>0, <1>b, <1>c, <1>d, <2>1, <2>2 DEF Goal, HoldPCs, StartPCs, Stopping
<1>12. CASE CheckQueues(t, s)
  <2>1. task'[t].pc = "slot" /\ task'[t].kind = "startq" /\ task[t].pc = "check"
    BY <1>12 DEF CheckQueues, Resumes
  <2>2. UNCHANGED <<lockq, stopping, up, toAdopt>> /\ state' = [state EXCEPT ![s] = "queued"]
    BY <1>12 DEF CheckQueues, agentVars
  <2>3. DownTurn(t, s)
    BY <2>1, <2>2 DEF DownTurn, StartPCs, Stopping
  <2> QED
    BY <1>b, <1>d, <2>1, <2>2, <2>3 DEF Goal, Stopping, Starts
<1>13. CASE SlotRun(t, s)
  <2>1. ComesToLock(t, "startq", s) /\ task[t].pc = "slot"
    BY <1>13 DEF SlotRun, Resumes
  <2>2. /\ task'[t].kind = "startq" /\ task'[t].pc \in {"enter", "lock"}
        /\ \/ task'[t].pc = "enter" /\ lockq' = lockq
           \/ task'[t].pc = "lock" /\ lockq' = [lockq EXCEPT ![s] = Append(@, t)]
    BY <2>1 DEF ComesToLock
  <2>3. LineTurn(t, s)
    BY <2>2 DEF Queues, LineTurn, Starts
  <2>4. DownTurn(t, s)
    BY <1>c, <1>n, <1>13, <2>2 DEF SlotRun, agentVars
  <2> QED
    BY <1>d, <2>1, <2>3, <2>4 DEF Goal, Stopping
<1>14. CASE Launch(t, s)
  <2>1. task'[t].pc = "create" /\ task'[t].kind = task[t].kind /\ task[t].pc = "ports"
    BY <1>14, FlowLock DEF Launch, Resumes, Moved
  <2>2. /\ lockq' = lockq /\ stopping' = [stopping EXCEPT ![s] = FALSE]
        /\ state' = [state EXCEPT ![s] = "starting"] /\ UNCHANGED <<up, toAdopt>>
    BY <1>14 DEF Launch, agentVars
  <2>3. LineTurn(t, s)
    BY <1>0, <1>b, <2>1, <2>2 DEF HoldPCs
  <2>4. DownTurn(t, s)
    BY <2>1, <2>2 DEF DownTurn, StartPCs, Stopping
  <2> QED
    BY <1>d, <2>1, <2>3, <2>4 DEF Goal, Stopping
<1>15. CASE Create(t, s)
  <2>1. task'[t].pc = "attached" /\ task'[t].kind = task[t].kind /\ task[t].pc = "create"
    BY <1>15, FlowLock DEF Create, Resumes, Moved
  <2>2. UNCHANGED <<lockq, stopping, state, toAdopt>>
    BY <1>15 DEF Create, agentVars
  <2>3. LineTurn(t, s)
    BY <1>0, <1>b, <2>1, <2>2 DEF HoldPCs
  <2>4. DownTurn(t, s)
    BY <2>1, <2>2 DEF DownTurn, StartPCs, Stopping
  <2> QED
    BY <1>d, <2>1, <2>3, <2>4 DEF Goal, Stopping
<1>16. CASE CreateFails(t, s)
  <2>1. task'[t] = Idle /\ task[t].pc = "create"
    BY <1>e, <1>16 DEF CreateFails, Resumes
  <2>2. /\ UNCHANGED <<lockq, stopping, toAdopt>> /\ state' = [state EXCEPT ![s] = "offline"]
    BY <1>16 DEF CreateFails, agentVars
  <2>3. DownTurn(t, s)
    BY <1>k, <2>1, <2>2 DEF DownTurn
  <2> QED
    BY <1>b, <1>d, <1>k, <2>1, <2>2, <2>3 DEF Goal, Stopping
<1>17. CASE CreateTaken(t, s)
  <2>1. task'[t].pc = "recheck" /\ task'[t].kind = task[t].kind /\ task[t].pc = "create"
    BY <1>17, FlowLock DEF CreateTaken, Resumes, Moved
  <2>2. UNCHANGED <<lockq, stopping, up, toAdopt>> /\ state' = [state EXCEPT ![s] = "offline"]
    BY <1>17 DEF CreateTaken, agentVars
  <2>3. LineTurn(t, s)
    BY <1>0, <1>b, <2>1, <2>2 DEF HoldPCs
  <2>4. DownTurn(t, s)
    BY <2>1, <2>2 DEF DownTurn, StartPCs, Stopping
  <2> QED
    BY <1>d, <2>1, <2>3, <2>4 DEF Goal, Stopping
<1>18. CASE Attached(t, s)
  <2>1. task'[t].pc = "hold" /\ task'[t].kind = "hold" /\ task[t].pc = "attached"
    BY <1>18 DEF Attached, Resumes
  <2>2. UNCHANGED <<lockq, stopping, state, up, toAdopt>>
    BY <1>18 DEF Attached, agentVars
  <2> QED
    BY <1>b, <1>c, <1>d, <2>1, <2>2 DEF Goal, StartPCs, Stopping, Starts
<1>19. CASE HoldEnds(t, s)
  <2>1. /\ UNCHANGED <<lockq, state, stopping, up, toAdopt>> /\ task[t].pc \notin Stopping
        /\ Ends(t)
    BY <1>19 DEF HoldEnds, Resumes, Stopping, agentVars
  <2> QED
    BY <1>e, <1>p, <2>1
\* A stop that is over: the container has ended.
<1>q. ASSUME AfterStop(t, s), task[t].pc \in Stopping,
             UNCHANGED <<lockq, state, stopping, toAdopt>>, up' = up \/ ~up'[s],
             ~DockerMayFail => ~up'[s]
      PROVE  Goal
  <2>1. \/ task'[t] = Idle
        \/ /\ task'[t].pc \in {"check", "restoring"} /\ task'[t].kind = task[t].kind
           /\ task[t].kind \in Starts
    BY <1>h, <1>q
  <2>2. /\ task'[t].pc # "lock" /\ (task'[t].pc = "restoring" => task'[t].kind \in Starts)
        /\ task'[t].pc \notin Stopping
        /\ task'[t].kind \in Starts => task[t].kind \in Starts /\ task'[t].pc \in HoldPCs
        /\ task'[t].pc \in StartPCs => task[t].kind \in Starts
    BY <1>0, <2>1, <1>k, <1>j
  <2>3. DownTurn(t, s)
    BY <1>q, <2>2 DEF DownTurn
  <2>4. StopTurn(t, s)
    BY <1>q DEF StopTurn
  <2> QED
    BY <1>b, <1>q, <2>2, <2>3, <2>4 DEF Goal
<1>20. CASE StopSeen(t, s)
  <2>1. /\ AfterStop(t, s) /\ task[t].pc \in Stopping /\ task[t].srv = s /\ ~running[s]
        /\ UNCHANGED <<lockq, state, stopping, toAdopt, up>>
    BY <1>20 DEF StopSeen, Resumes, Stopping, agentVars
  <2>2. ASSUME ~DockerMayFail PROVE ~up[s]
    <3>1. HandleInv
      BY <2>2 DEF Found
    <3>2. s \notin toAdopt /\ ~Untouched(s)
      BY <2>1, <3>1 DEF HandleInv, Untouched, Stopping
    <3>3. \A u \in Tasks : ~At(u, s, "attached")
      <4>1. task[t].pc \in HoldPCs /\ task[t].pc # "attached"
        BY <2>1 DEF Stopping, HoldPCs
      <4>2. "attached" \in HoldPCs
        BY DEF HoldPCs
      <4> QED
        BY <2>1, <4>1, <4>2, Mutex DEF MutexInv, At
    <3> QED
      BY <2>1, <3>1, <3>2, <3>3 DEF HandleInv
  <2> QED
    BY <1>q, <2>1, <2>2
<1>21. CASE StopTimesOut(t, s)
  <2>1. task'[t].pc = "stopwait" /\ task'[t].kind = task[t].kind
        /\ task[t].pc = "stopping" /\ task[t].srv = s
    BY <1>21, FlowLock DEF StopTimesOut, Resumes, Moved
  <2>2. UNCHANGED <<lockq, stopping, state, toAdopt>> /\ (up' = up \/ up' = [up EXCEPT ![s] = FALSE])
    BY <1>21 DEF StopTimesOut, agentVars
  <2>3. LineTurn(t, s)
    BY <1>0, <1>b, <2>1, <2>2 DEF HoldPCs
  <2>4. DownTurn(t, s)
    BY <2>1, <2>2 DEF DownTurn, StartPCs, Stopping, StopsHold
  <2>5. StopTurn(t, s)
    BY <2>1 DEF StopTurn, Idle
  <2> QED
    BY <2>3, <2>4, <2>5 DEF Goal
<1>22. CASE StopKills(t, s)
  <2>1. /\ AfterStop(t, s) /\ task[t].pc \in Stopping
        /\ UNCHANGED <<lockq, state, stopping, toAdopt>>
        /\ up' = [up EXCEPT ![s] = FALSE] \/ (DockerMayFail /\ up' = up)
    BY <1>22 DEF StopKills, Resumes, Stopping, agentVars
  <2>2. (up' = up \/ ~up'[s]) /\ (~DockerMayFail => ~up'[s])
    BY <2>1
  <2> QED
    BY <1>q, <2>1, <2>2
<1>23. CASE StopFails(t, s)
  <2>1. /\ DockerMayFail /\ task'[t] = Idle
        /\ UNCHANGED <<lockq, state, stopping, up, toAdopt>>
    BY <1>e, <1>23 DEF StopFails, agentVars
  <2> QED
    BY <1>b, <1>c, <1>k, <2>1 DEF Goal, StopTurn
<1>24. CASE Killed(t, s)
  <2>1. /\ task'[t] = Idle /\ task[t].pc = "killing" /\ up' = [up EXCEPT ![s] = FALSE]
        /\ UNCHANGED <<lockq, state, stopping, toAdopt>>
    BY <1>e, <1>24 DEF Killed, Resumes, agentVars
  <2>2. DownTurn(t, s)
    BY <1>k, <2>1 DEF DownTurn
  <2> QED
    BY <1>b, <1>d, <1>k, <2>1, <2>2 DEF Goal, Stopping
<1>25. CASE RestoreEnds(t, s)
  <2>1. /\ BeginsStart(t, s) \/ Leaves(t, s)
        /\ task[t].pc = "restoring"
        /\ UNCHANGED <<lockq, state, stopping, up, toAdopt>>
    BY <1>25 DEF RestoreEnds, Resumes, agentVars
  <2>2. \/ task'[t] = Idle
        \/ task'[t].pc = "check" /\ task'[t].kind = task[t].kind /\ task[t].kind \in Starts
    BY <1>0, <1>e, <1>g, <2>1
  <2>3. /\ task'[t].pc # "lock" /\ (task'[t].pc = "restoring" => task'[t].kind \in Starts)
        /\ task'[t].pc \notin Stopping
        /\ task'[t].kind \in Starts => task[t].kind \in Starts /\ task'[t].pc \in HoldPCs
        /\ task'[t].pc \in StartPCs => task[t].kind \in Starts
    BY <2>2, <1>k, <1>j
  <2>4. task[t].pc \notin Stopping
    BY <2>1 DEF Stopping
  <2> QED
    BY <1>b, <1>c, <1>d, <2>1, <2>3, <2>4 DEF Goal
<1>26. CASE InstallBegins(t, s)
  <2>1. task'[t].pc = "installing" /\ task'[t].kind = task[t].kind /\ task[t].pc = "created"
    BY <1>26, FlowLock DEF InstallBegins, Resumes, Moved
  <2>2. UNCHANGED <<lockq, stopping, up, toAdopt>> /\ state' = [state EXCEPT ![s] = "installing"]
    BY <1>26 DEF InstallBegins, agentVars
  <2>3. task[t].kind \notin Starts
    BY <1>0, <2>1 DEF HoldPCs
  <2>4. LineTurn(t, s)
    BY <1>0, <1>b, <2>1, <2>2, <2>3
  <2>5. DownTurn(t, s)
    BY <2>1, <2>2 DEF DownTurn, StartPCs, Stopping
  <2> QED
    BY <1>d, <2>1, <2>4, <2>5 DEF Goal, Stopping
<1>27. CASE InstallEnds(t, s)
  <2>1. /\ task'[t] = Idle /\ task[t].pc = "installing"
        /\ UNCHANGED <<lockq, stopping, up, toAdopt>>
        /\ state' = state \/ state' = [state EXCEPT ![s] = "offline"]
    BY <1>e, <1>27 DEF InstallEnds, Resumes, agentVars
  <2>2. DownTurn(t, s)
    BY <1>k, <2>1 DEF DownTurn
  <2> QED
    BY <1>b, <1>d, <1>k, <2>1, <2>2 DEF Goal, Stopping
<1>28. CASE DeleteKilled(t, s)
  <2>1. task'[t].pc = "delremove" /\ task'[t].kind = task[t].kind /\ task[t].pc = "delkill"
    BY <1>28, FlowLock DEF DeleteKilled, Resumes, Moved
  <2>2. UNCHANGED <<lockq, state, stopping, toAdopt>> /\ up' = [up EXCEPT ![s] = FALSE]
    BY <1>28 DEF DeleteKilled, agentVars
  <2>3. task[t].kind \notin Starts
    BY <1>0, <2>1 DEF HoldPCs
  <2>4. LineTurn(t, s)
    BY <1>0, <1>b, <2>1, <2>2, <2>3
  <2>5. DownTurn(t, s)
    BY <2>1, <2>2 DEF DownTurn, StartPCs, Stopping
  <2> QED
    BY <1>d, <2>1, <2>4, <2>5 DEF Goal, Stopping
<1>29. CASE DeleteDone(t, s)
  <2>1. /\ task'[t] = Idle /\ task[t].pc = "delremove" /\ up' = [up EXCEPT ![s] = FALSE]
        /\ UNCHANGED <<lockq, state, stopping, toAdopt>>
    BY <1>e, <1>29 DEF DeleteDone, Resumes
  <2>2. DownTurn(t, s)
    BY <1>k, <2>1 DEF DownTurn
  <2> QED
    BY <1>b, <1>d, <1>k, <2>1, <2>2 DEF Goal, Stopping
<1>30. CASE DeleteFails(t, s)
  <2>1. /\ UNCHANGED <<lockq, state, stopping, up, toAdopt>> /\ task[t].pc \notin Stopping
        /\ Ends(t)
    BY <1>30 DEF DeleteFails, Resumes, Stopping, agentVars
  <2> QED
    BY <1>e, <1>p, <2>1
<1>31. CASE Adopted(t, s)
  <2>1. /\ task'[t] = Idle \/ (task'[t].pc = "hold" /\ task'[t].kind = "hold")
        /\ task[t].pc = "adopting"
    BY <1>e, <1>31 DEF Adopted, Resumes
  <2>2. /\ UNCHANGED <<lockq, stopping, up>> /\ toAdopt' \subseteq toAdopt
        /\ state'[s] \in {"starting", "running"}
    BY <1>31 DEF Adopted
  <2>3. /\ task'[t].pc \notin StartPCs \cup Stopping \cup {"lock", "restoring"}
        /\ task'[t].kind \notin Starts
    BY <1>k, <2>1 DEF StartPCs, Stopping, Starts
  <2>4. DownTurn(t, s)
    BY <2>2, <2>3 DEF DownTurn
  <2> QED
    BY <1>b, <1>d, <2>1, <2>2, <2>3, <2>4 DEF Goal, Stopping
<1>32. CASE AdoptFails(t, s)
  <2>1. /\ task'[t] = Idle /\ task[t].pc = "adopting" /\ state'[s] = "offline"
        /\ UNCHANGED <<lockq, stopping, up>> /\ toAdopt' \subseteq toAdopt
    BY <1>e, <1>32 DEF AdoptFails, Resumes
  <2>2. DownTurn(t, s)
    BY <1>k, <2>1 DEF DownTurn
  <2> QED
    BY <1>b, <1>d, <1>k, <2>1, <2>2 DEF Goal, Stopping
<1> QED
  BY <1>2, <1>3, <1>4, <1>5, <1>6, <1>7, <1>8, <1>9, <1>10, <1>11, <1>12, <1>13,
     <1>14, <1>15, <1>16, <1>17, <1>18, <1>19, <1>20, <1>21, <1>22, <1>23, <1>24, <1>25,
     <1>26, <1>27, <1>28, <1>29, <1>30, <1>31, <1>32
  DEF TaskStep, GrantStep, AwaitStep

\* The lines of the locks after such a step, or after something new arrives.
LEMMA TurnLines ==
  ASSUME BaseInv, Lined, NEW t \in Tasks, NEW s \in Servers, Turn(t, s), Queues(t, s),
         task'[t].kind \in Starts => task'[t].pc \in HoldPCs \cup {"lock"},
         task'[t].pc = "restoring" => task'[t].kind \in Starts
  PROVE  Lined'
<1> USE DEF BaseInv, TypeOK
<1>1. ASSUME NEW u \in Tasks, task'[u].pc = "lock"
      PROVE  /\ task'[u].srv \in Servers
             /\ \E i \in DOMAIN lockq'[task'[u].srv] : lockq'[task'[u].srv][i] = u
  <2>1. CASE u = t
    <3>1. task'[u].srv = s /\ lockq'[s] = Append(lockq[s], t)
      BY <1>1, <2>1 DEF Turn, Queues, Idle
    <3>2. Len(lockq[s]) + 1 \in DOMAIN lockq'[s] /\ lockq'[s][Len(lockq[s]) + 1] = t
      BY <3>1
    <3> QED
      BY <2>1, <3>1, <3>2
  <2>2. CASE u # t
    <3>1. task'[u] = task[u]
      BY <1>1, <2>2 DEF Turn, Idle
    <3>2. PICK r \in Servers : r = task[u].srv /\ \E i \in DOMAIN lockq[r] : lockq[r][i] = u
      BY <1>1, <3>1 DEF Lined
    <3>i. PICK i \in DOMAIN lockq[r] : lockq[r][i] = u
      BY <3>2
    <3>3. lockq[r] \in Seq(Tasks) /\ lockq[s] \in Seq(Tasks)
      OBVIOUS
    <3>4. CASE lockq'[r] = lockq[r]
      BY <3>1, <3>2, <3>i, <3>4
    <3>5. CASE r = s /\ lockq'[s] = Append(lockq[s], t)
      <4>1. i \in DOMAIN lockq'[s] /\ lockq'[s][i] = u
        BY <3>2, <3>i, <3>3, <3>5
      <4> QED
        BY <3>1, <3>2, <3>i, <3>5, <4>1
    <3>6. CASE r = s /\ lockq[s] # <<>> /\ lockq'[s] = Tail(lockq[s]) /\ Head(lockq[s]) = t
      <4>1. i # 1
        BY <2>2, <3>2, <3>i, <3>3, <3>6
      <4>2. i - 1 \in DOMAIN lockq'[s] /\ lockq'[s][i - 1] = u
        BY <3>2, <3>i, <3>3, <3>6, <4>1
      <4> QED
        BY <3>1, <3>2, <3>i, <3>6, <4>2
    <3> QED
      BY <3>4, <3>5, <3>6 DEF Queues
  <2> QED
    BY <2>1, <2>2
<1>2. ASSUME NEW u \in Tasks, u # t
      PROVE  /\ task'[u].kind \in Starts => task'[u].pc \in HoldPCs \cup {"lock"}
             /\ task'[u].pc = "restoring" => task'[u].kind \in Starts
  <2>1. CASE task'[u] = task[u]
    BY <2>1 DEF Lined
  <2>2. CASE task'[u] = Idle
    BY <2>2 DEF Idle, Starts
  <2> QED
    BY <1>2, <2>1, <2>2 DEF Turn
<1> QED
  BY <1>1, <1>2 DEF Lined

\* What a step of a task leaves true of stops and of what is down.
LEMMA TaskStepStays ==
  ASSUME BaseInv, Lined, StopsHold, Found, NEW t \in Tasks, NEW s \in Servers, TaskStep(t, s)
  PROVE  Lined' /\ StopsHold' /\ \A r \in Servers : Down(r) => Down(r)'
<1> USE DEF BaseInv, MutexInv
<1>1. OwnTurn(t, s) /\ Runs(t, s) /\ Elsewhere(s)
  BY TaskStepTurn, TaskStepRuns, TaskStepElsewhere
<1>2. LineTurn(t, s) /\ DownTurn(t, s)
  BY TaskStepHalts
<1>3. Lined'
  BY <1>1, <1>2, TurnLines DEF OwnTurn, LineTurn
<1>4. ASSUME NEW u \in Tasks, task'[u].pc \in Stopping
      PROVE  stopping'[task'[u].srv] /\ state'[task'[u].srv] \notin Fallen
  <2>1. CASE u = t
    BY <1>1, <1>2, <1>4, <2>1 DEF OwnTurn, Turn, DownTurn, Idle, Stopping
  <2>2. CASE u # t
    <3>1. task'[u] = task[u]
      BY <1>1, <1>4, <2>2 DEF OwnTurn, Turn, Idle, Stopping
    <3>2. /\ task[u].srv \in Servers /\ task[u].pc \in HoldPCs
          /\ stopping[task[u].srv] /\ state[task[u].srv] \notin Fallen
      BY <1>4, <3>1 DEF StopsHold, LockHeld, Stopping, HoldPCs
    <3>3. CASE task[u].srv = s
      <4>1. task[t].pc \notin {"ports", "check"}
        BY <1>1, <2>2, <3>2, <3>3, Mutex DEF OwnTurn, HoldPCs
      <4> QED
        BY <1>2, <3>1, <3>2, <3>3, <4>1 DEF DownTurn, Fallen
    <3>4. CASE task[u].srv # s
      BY <1>1, <1>2, <3>1, <3>2, <3>4 DEF DownTurn, Elsewhere
    <3> QED
      BY <3>3, <3>4
  <2> QED
    BY <2>1, <2>2
<1>5. ASSUME NEW r \in Servers, Down(r)
      PROVE  Down(r)'
  <2>1. \A u \in Tasks \ {t} : task'[u].srv = r => task'[u] = task[u]
    BY <1>1, ServersAssumption DEF OwnTurn, Turn, Idle
  <2>2. toAdopt' \subseteq toAdopt
    BY <1>2 DEF DownTurn
  <2>3. CASE r # s
    <3>1. task'[t].srv # r
      BY <1>1, <2>3, ServersAssumption DEF OwnTurn, Turn, Idle
    <3>2. /\ running'[r] = running[r] /\ state'[r] = state[r] /\ up'[r] = up[r]
          /\ stopping'[r] = stopping[r]
      BY <1>1, <1>2, <2>3 DEF Elsewhere, DownTurn
    <3> QED
      BY <1>5, <2>1, <2>2, <3>1, <3>2 DEF Down
  <2>4. CASE r = s
    <3>1. task[t].srv = s /\ task[t].kind \notin Starts /\ task[t].pc \notin StartPCs \cup {"adopting"}
      BY <1>1, <1>5, <2>4 DEF OwnTurn, Down
    <3>2. {"ports", "check", "create", "attached"} \subseteq StartPCs
      BY DEF StartPCs
    <3>3. state'[s] \notin Fallen
      BY <1>2, <1>5, <2>4, <3>1, <3>2 DEF DownTurn, Down, Fallen
    <3>4. stopping'[s] \/ ~running'[s]
      BY <1>1, <1>2, <1>5, <2>4, <3>1, <3>2 DEF DownTurn, Down, Runs
    <3>5. ~DockerMayFail => ~up'[s]
      BY <1>2, <1>5, <2>4, <3>1, <3>2 DEF DownTurn, Down
    <3>6. task'[t].kind \notin Starts /\ task'[t].pc \notin StartPCs \cup {"adopting"}
      BY <1>1, <1>2, <1>5, <2>4, <3>1 DEF LineTurn, DownTurn, Down, OwnTurn, Turn
    <3> QED
      BY <1>5, <2>1, <2>2, <2>4, <3>3, <3>4, <3>5, <3>6 DEF Down
  <2> QED
    BY <2>3, <2>4
<1> QED
  BY <1>3, <1>4, <1>5 DEF StopsHold

\* Something new arrives: nothing that is down is brought up but by a request.
LEMMA ArrivalStays ==
  ASSUME BaseInv, Lined, StopsHold, NEW t \in Tasks, NEW s \in Servers, ArrivalStep(t, s)
  PROVE  Lined' /\ StopsHold' /\ \A r \in Servers : Down(r) /\ ~Asked(r) => Down(r)'
<1> USE DEF BaseInv
<1>1. /\ Turn(t, s) /\ task'[t].pc \in ArrivalPCs
      /\ UNCHANGED <<state, running, up, toAdopt>>
  BY ArrivalTurn
<1>2. IsIdle(t)
  BY DEF ArrivalStep, TimerFires, InstallRequest, DeleteRequest, Request
<1>3. \A r \in Servers : stopping[r] => stopping'[r]
  BY DEF ArrivalStep, TimerFires, InstallRequest, DeleteRequest, Request, TypeOK
<1>4. Queues(t, s) /\ (task'[t].kind \in Starts => task'[t].pc \in HoldPCs \cup {"lock"})
  <2>1. ASSUME NEW k, ComesToLock(t, k, s)
        PROVE  /\ Queues(t, s) /\ task'[t].pc \in {"enter", "lock"}
    <3>1. \/ task'[t].pc = "enter" /\ lockq' = lockq
          \/ task'[t].pc = "lock" /\ lockq' = [lockq EXCEPT ![s] = Append(@, t)]
      BY <2>1 DEF ComesToLock, TypeOK
    <3> QED
      BY <3>1 DEF Queues, TypeOK
  <2>2. CASE InstallRequest(t, s)
    BY <2>2 DEF InstallRequest, Queues, TypeOK, Starts
  <2>3. CASE DeleteRequest(t, s)
    <3>1. lockq' = lockq
      BY <2>3 DEF DeleteRequest
    <3>2. task'[t].kind = "delete" /\ task'[t].pc \in {"delkill", "delremove"}
      <4> DEFINE next == [kind |-> "delete", srv |-> s, again |-> FALSE,
                          pc |-> IF running[s] THEN "delkill" ELSE "delremove"]
      <4>1. task'[t] = next
        <5>1. CASE queued[s] # NoTask
          <6>1. PICK q \in Tasks : q = queued[s]
            BY <5>1 DEF TypeOK
          <6>2. task' = [task EXCEPT ![q] = Idle, ![t] = next]
            BY <2>3, <5>1, <6>1 DEF DeleteRequest
          <6> HIDE DEF next
          <6> QED
            BY <6>2 DEF TypeOK
        <5>2. CASE queued[s] = NoTask
          <6>1. task' = [task EXCEPT ![t] = next]
            BY <2>3, <5>2 DEF DeleteRequest
          <6> HIDE DEF next
          <6> QED
            BY <6>1 DEF TypeOK
        <5> QED
          BY <5>1, <5>2
      <4> QED
        BY <4>1
    <3> QED
      BY <3>1, <3>2 DEF Queues, Starts
  <2>4. CASE TimerFires(t, s) \/ \E k \in Requests : Request(t, k, s)
    <3>1. \E k : ComesToLock(t, k, s)
      BY <2>4 DEF TimerFires, Request
    <3> QED
      BY <2>1, <3>1 DEF HoldPCs
  <2> QED
    BY <2>2, <2>3, <2>4 DEF ArrivalStep
<1>5. task'[t].pc \notin Stopping \cup StartPCs \cup {"adopting", "restoring"}
  BY <1>1 DEF ArrivalPCs, Stopping, StartPCs
<1>6. Lined'
  BY <1>1, <1>4, <1>5, TurnLines
<1>7. ASSUME NEW u \in Tasks, task'[u].pc \in Stopping
      PROVE  stopping'[task'[u].srv] /\ state'[task'[u].srv] \notin Fallen
  <2>1. task'[u] = task[u]
    BY <1>1, <1>5, <1>7 DEF Turn, Idle, Stopping
  <2>2. task[u].srv \in Servers
    BY <1>7, <2>1 DEF MutexInv, LockHeld, Stopping, HoldPCs
  <2> QED
    BY <1>1, <1>3, <1>7, <2>1, <2>2 DEF StopsHold
<1>8. ASSUME NEW r \in Servers, Down(r), ~Asked(r)
      PROVE  Down(r)'
  <2>1. \A u \in Tasks \ {t} : task'[u].srv = r => task'[u] = task[u]
    BY <1>1, ServersAssumption DEF Turn, Idle
  <2>2. task'[t].srv = r => task'[t].kind \notin Starts
    BY <1>2, <1>8 DEF Asked
  <2> QED
    BY <1>1, <1>3, <1>5, <1>8, <2>1, <2>2 DEF Down
<1> QED
  BY <1>6, <1>7, <1>8 DEF StopsHold

\* A server, or the agent, does something.
LEMMA OtherStays ==
  ASSUME BaseInv, Lined, StopsHold, Found, ~AgentRestarts \/ ~DockerMayFail,
         (\E s \in Servers : ServerStep(s)) \/ AgentStep \/ UNCHANGED vars
  PROVE  Lined' /\ StopsHold' /\ \A r \in Servers : Down(r) => Down(r)'
<1> USE DEF BaseInv
<1>a. \A u \in Tasks : task[u].pc \in Stopping => task[u].srv \in Servers
  BY DEF MutexInv, LockHeld, Stopping, HoldPCs
<1>b. ASSUME UNCHANGED <<task, lockq, state, running, stopping, up, toAdopt>>
      PROVE  Lined' /\ StopsHold' /\ \A r \in Servers : Down(r) => Down(r)'
  BY <1>b DEF Lined, StopsHold, Down
<1>1. ASSUME NEW s \in Servers, ServerStep(s)
      PROVE  Lined' /\ StopsHold' /\ \A r \in Servers : Down(r) => Down(r)'
  <2>1. UNCHANGED <<task, lockq, stopping, toAdopt>>
    BY <1>1 DEF ServerStep, ProcessDies, BootDone, ExitedClean, ExitedCrash, CrashForgotten,
                requestVars, agentVars
  <2>2. ASSUME NEW r \in Servers
        PROVE  /\ running'[r] => running[r]
               /\ up'[r] => up[r]
               /\ state'[r] \in Fallen => state[r] \in Fallen \/ (running[r] /\ ~stopping[r])
    BY <1>1, <2>2 DEF ServerStep, ProcessDies, BootDone, ExitedClean, ExitedCrash, ExitSeen,
                      CrashForgotten, TypeOK, Fallen
  <2>3. Lined'
    BY <2>1 DEF Lined
  <2>4. StopsHold'
    BY <1>a, <2>1, <2>2 DEF StopsHold
  <2> QED
    BY <2>1, <2>2, <2>3, <2>4 DEF Down
<1>2. CASE AgentStops
  <2>1. ~DockerMayFail
    BY <1>2 DEF AgentStops
  <2>2. /\ \A u \in Tasks : task'[u] = Idle
        /\ \A r \in Servers : state'[r] = "offline" /\ ~running'[r] /\ up'[r] = up[r]
        /\ \A r \in toAdopt' : up[r]
    BY <1>2, <2>1 DEF AgentStops
  <2>3. Lined' /\ StopsHold'
    BY <2>2 DEF Lined, StopsHold, Idle, Stopping, Starts
  <2> QED
    BY <2>1, <2>2, <2>3, ServersAssumption DEF Down, Idle, Fallen
<1>3. CASE AdoptTimesOut
  BY <1>3 DEF AdoptTimesOut, Found
<1>4. CASE AgentServes
  BY <1>b, <1>4 DEF AgentServes, requestVars
<1>5. ASSUME NEW t \in Tasks, NEW s \in Servers, AdoptBegins(t, s)
      PROVE  Lined' /\ StopsHold' /\ \A r \in Servers : Down(r) => Down(r)'
  <2>1. /\ Others(t) /\ task'[t].pc = "adopting" /\ task'[t].srv = s
        /\ task'[t].kind = "adopt"
    BY <1>5 DEF AdoptBegins, Others, TypeOK
  <2>2. /\ lock[s] = NoTask /\ s \in toAdopt /\ UNCHANGED <<lockq, running, up, toAdopt>>
        /\ \A r \in Servers \ {s} : state'[r] = state[r] /\ stopping'[r] = stopping[r]
    BY <1>5 DEF AdoptBegins, TypeOK, agentVars
  <2>3. Lined'
    BY <2>1, <2>2 DEF Lined, Others, Starts
  <2>4. ASSUME NEW u \in Tasks, task'[u].pc \in Stopping
        PROVE  stopping'[task'[u].srv] /\ state'[task'[u].srv] \notin Fallen
    <3>1. task'[u] = task[u]
      BY <2>1, <2>4 DEF Others, Stopping
    <3>2. task[u].srv \in Servers /\ lock[task[u].srv] = u
      BY <2>4, <3>1 DEF MutexInv, LockHeld, Stopping, HoldPCs
    <3>3. task[u].srv # s
      BY <2>2, <3>2, TasksAssumption
    <3> QED
      BY <2>2, <2>4, <3>1, <3>2, <3>3 DEF StopsHold
  <2>5. ASSUME NEW r \in Servers, Down(r)
        PROVE  Down(r)'
    <3>1. r # s
      BY <2>2, <2>5 DEF Down
    <3> QED
      BY <2>1, <2>2, <2>5, <3>1 DEF Down, Others
  <2> QED
    BY <2>3, <2>4, <2>5 DEF StopsHold
<1>6. CASE UNCHANGED vars
  BY <1>b, <1>6 DEF vars, requestVars, agentVars
<1> QED
  BY <1>1, <1>2, <1>3, <1>4, <1>5, <1>6 DEF AgentStep

LEMMA FoundStep ==
  ASSUME BaseInv, Lined, StopsHold, Found, ~AgentRestarts \/ ~DockerMayFail, [Next]_vars
  PROVE  Found'
<1>1. CASE ~DockerMayFail
  BY <1>1, HandleStep DEF Found
<1>2. CASE DockerMayFail
  <2>1. ASSUME NEW t \in Tasks, NEW s \in Servers, TaskStep(t, s)
        PROVE  toAdopt' \subseteq toAdopt
    BY <2>1, TaskStepHalts DEF DownTurn
  <2>2. ASSUME NEW t \in Tasks, NEW s \in Servers, ArrivalStep(t, s)
        PROVE  toAdopt' \subseteq toAdopt
    BY <2>2, ArrivalTurn DEF BaseInv
  <2>3. ASSUME NEW s \in Servers, ServerStep(s)
        PROVE  toAdopt' \subseteq toAdopt
    BY <2>3 DEF ServerStep, ProcessDies, BootDone, ExitedClean, ExitedCrash, CrashForgotten,
                agentVars
  <2>4. ASSUME AgentStep
        PROVE  toAdopt' \subseteq toAdopt
    BY <1>2, <2>4 DEF AgentStep, AgentStops, AdoptTimesOut, AgentServes, AdoptBegins, agentVars
  <2>5. ASSUME UNCHANGED vars
        PROVE  toAdopt' \subseteq toAdopt
    BY <2>5 DEF vars, agentVars
  <2> QED
    BY <1>2, <2>1, <2>2, <2>3, <2>4, <2>5 DEF Next, Found
<1> QED
  BY <1>1, <1>2

\* Nothing but the step of a stop ends a stop, while the agent serves.
LEMMA StopsEnd ==
  ASSUME BaseInv, [Next]_vars, NEW s \in Servers, Stopped(s, Stopping)
  PROVE  \E t \in Tasks : /\ TaskStep(t, s) /\ task[t].srv = s
                          /\ task[t].pc \in Stopping /\ task'[t] = Idle
<1> USE DEF BaseInv
<1>1. PICK u \in Tasks : /\ task[u].kind = "stop" /\ task[u].srv = s
                         /\ task[u].pc \in Stopping /\ task'[u] = Idle
  BY DEF Stopped
<1>2. task[u] # Idle /\ ~At(u, s, "slot")
  BY <1>1 DEF Idle, Stopping, At
<1>3. ASSUME NEW t \in Tasks, NEW r \in Servers, TaskStep(t, r)
      PROVE  u = t /\ r = s
  <2>1. OwnTurn(t, r)
    BY <1>3, TaskStepTurn DEF MutexInv
  <2> QED
    BY <1>1, <1>2, <2>1 DEF OwnTurn, Turn, At, Stopping
<1>4. ASSUME NEW t \in Tasks, NEW r \in Servers, ArrivalStep(t, r)
      PROVE  FALSE
  <2>1. Turn(t, r) /\ task'[t].pc \in ArrivalPCs
    BY <1>4, ArrivalTurn
  <2> QED
    BY <1>1, <1>2, <2>1 DEF Turn, At, ArrivalPCs, Idle, Stopping
<1>5. ASSUME NEW r \in Servers, ServerStep(r)
      PROVE  FALSE
  BY <1>1, <1>2, <1>5 DEF ServerStep, ProcessDies, BootDone, ExitedClean, ExitedCrash,
                          CrashForgotten, requestVars
<1>6. CASE AgentStops
  BY <1>6 DEF AgentStops, Stopped
<1>7. CASE AdoptTimesOut
  BY <1>1, <1>2, <1>7 DEF AdoptTimesOut
<1>8. CASE AgentServes
  BY <1>1, <1>2, <1>8 DEF AgentServes, requestVars
<1>9. ASSUME NEW t \in Tasks, NEW r \in Servers, AdoptBegins(t, r)
      PROVE  FALSE
  <2>1. task[t] = Idle /\ Others(t)
    BY <1>9 DEF AdoptBegins, IsIdle, Others, TypeOK
  <2> QED
    BY <1>1, <1>2, <2>1 DEF Others
<1>10. CASE UNCHANGED vars
  BY <1>1, <1>2, <1>10 DEF vars, requestVars
<1> QED
  BY <1>1, <1>3, <1>4, <1>5, <1>6, <1>7, <1>8, <1>9, <1>10 DEF Next, AgentStep

\* A server is down when a stop of it has been answered, unless somebody waits
\* to start it.
LEMMA StoppedIsDown ==
  ASSUME BaseInv, Lined, StopsHold, Found, [Next]_vars, Lined',
         NEW s \in Servers, Stopped(s, Stopping), ~StartWaits(s)
  PROVE  Down(s)'
<1> USE DEF BaseInv, MutexInv
<1>1. PICK t \in Tasks : /\ TaskStep(t, s) /\ task[t].srv = s
                         /\ task[t].pc \in Stopping /\ task'[t] = Idle
  BY StopsEnd
<1>2. OwnTurn(t, s) /\ DownTurn(t, s) /\ StopTurn(t, s)
  BY <1>1, TaskStepTurn, TaskStepHalts
<1>3. /\ lockq' = lockq /\ state' = state /\ stopping' = stopping
      /\ ~DockerMayFail => ~up'[s]
  BY <1>1, <1>2 DEF StopTurn
<1>4. stopping[s] /\ state[s] \notin Fallen
  BY <1>1 DEF StopsHold
<1>5. s \notin toAdopt
  <2>1. CASE DockerMayFail
    BY <2>1 DEF Found
  <2>2. CASE ~DockerMayFail
    BY <1>1, <2>2 DEF Found, HandleInv, Stopping
  <2> QED
    BY <2>1, <2>2
<1>6. ASSUME NEW u \in Tasks, task'[u].srv = s
      PROVE  task'[u].kind \notin Starts /\ task'[u].pc \notin StartPCs \cup {"adopting"}
  <2>1. u # t /\ task'[u] = task[u]
    BY <1>1, <1>2, <1>6, ServersAssumption DEF OwnTurn, Turn, Idle
  <2>2. task[u].pc \notin HoldPCs
    BY <1>1, <1>6, <2>1, Mutex DEF Stopping, HoldPCs
  <2>3. ASSUME task'[u].kind \in Starts
        PROVE  FALSE
    <3>1. task'[u].pc = "lock"
      BY <2>1, <2>2, <2>3 DEF Lined
    <3>2. PICK i \in DOMAIN lockq'[s] : lockq'[s][i] = u
      BY <1>6, <3>1 DEF Lined
    <3> QED
      BY <2>3, <3>2 DEF StartWaits
  <2> QED
    BY <2>1, <2>2, <2>3 DEF HoldPCs, StartPCs
<1> QED
  BY <1>2, <1>3, <1>4, <1>5, <1>6 DEF Down, DownTurn

LEMMA HaltStep ==
  ASSUME HaltInv, [HNext]_hvars, ~AgentRestarts \/ ~DockerMayFail
  PROVE  HaltInv'
<1> USE DEF HaltInv
<1>1. [Next]_vars
  BY DEF HNext, hvars
<1>2. BaseInv' /\ Found'
  BY <1>1, BaseStep, FoundStep
<1>3. Lined' /\ StopsHold' /\ \A r \in Servers : Down(r) /\ ~Asked(r) => Down(r)'
  BY <1>1, TaskStepStays, ArrivalStays, OtherStays DEF Next
<1>4. ASSUME NEW s \in Servers, verdict'[s] = "halted", HNext
      PROVE  Down(s)'
  <2>1. /\ ~Asked(s)
        /\ \/ verdict[s] = "halted"
           \/ Ruling(s) = "halted" /\ ~StartWaits(s)
    BY <1>4 DEF HNext
  <2>2. CASE verdict[s] = "halted"
    BY <1>3, <2>1, <2>2
  <2>3. CASE Ruling(s) = "halted" /\ ~StartWaits(s)
    <3>1. Stopped(s, Stopping)
      BY <2>3 DEF Ruling, Stopping
    <3> QED
      BY <1>1, <1>3, <2>3, <3>1, StoppedIsDown
  <2> QED
    BY <2>1, <2>2, <2>3
<1>5. ASSUME NEW s \in Servers, verdict'[s] = "halted", UNCHANGED hvars
      PROVE  Down(s)'
  <2>1. verdict[s] = "halted" /\ UNCHANGED vars
    BY <1>5 DEF hvars
  <2> QED
    BY <2>1, OtherStays
<1> QED
  BY <1>2, <1>3, <1>4, <1>5

\* A server somebody stopped while it ran is not started again until somebody
\* asks for it (HaltedStaysDown: module docstring, lines 4-5), for any number of
\* servers, tasks and requests, of crashes and of crash timers, and across
\* restarts of the agent -- as long as Docker answers or the agent lives on.
\* When both fail, a container whose kill was lost is found running by the next
\* agent, and it is adopted.
THEOREM HaltIsKept ==
  ASSUME ~AgentRestarts \/ ~DockerMayFail
  PROVE  HSpec => HaltedStaysDown
<1>1. HInit => HaltInv
  <2> SUFFICES ASSUME HInit PROVE HaltInv
    OBVIOUS
  <2>1. BaseInv /\ HandleInv /\ toAdopt = {}
    BY BaseInit, HandleInvInit DEF HInit, Init
  <2>2. Lined /\ StopsHold
    BY DEF HInit, Init, Lined, StopsHold, Idle, Stopping, Starts
  <2>3. \A s \in Servers : verdict[s] # "halted"
    BY DEF HInit
  <2> QED
    BY <2>1, <2>2, <2>3 DEF HaltInv, Found
<1>2. HaltInv /\ [HNext]_hvars => HaltInv'
  BY HaltStep
<1>3. HaltInv => [\A s \in Servers : Launches(s) => verdict[s] # "halted"]_hvars
  <2> SUFFICES ASSUME HaltInv, NEW s \in Servers, Launches(s), verdict[s] = "halted"
               PROVE  FALSE
    OBVIOUS
  <2>1. PICK t \in Tasks : At(t, s, "ports")
    BY DEF Launches
  <2> QED
    BY <2>1 DEF HaltInv, Down, At, StartPCs
<1> QED
  BY <1>1, <1>2, <1>3, PTL DEF HSpec, HaltedStaysDown
=============================================================================
