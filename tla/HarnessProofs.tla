---------------------------- MODULE HarnessProofs ----------------------------
(***************************************************************************)
(* Machine-checked proofs about module Harness, for every set of agents,   *)
(* conversations and events and every value of the other constants.        *)
(***************************************************************************)
EXTENDS Harness, TLAPS

-----------------------------------------------------------------------------
(* What the queue operations do to the locks *)

\* Queue r has the locks of queue k: who is in flight, until when.
SameMarks(k, r) ==
  /\ DOMAIN r = QueueFields
  /\ r.in_flight_channels = k.in_flight_channels
  /\ r.in_flight_deadlines = k.in_flight_deadlines

\* No deadline of a punctual conversation has passed.
NonePassed(k) ==
  /\ DOMAIN k.in_flight_deadlines = Conversations
  /\ \A c \in Punctual : k.in_flight_deadlines[c] # "passed"

\* enforce_routing_channel_cap evicts ready events and touches no lock.
LEMMA EnforceRoutingCapMarks ==
  ASSUME NEW k, DOMAIN k = QueueFields, NEW c
  PROVE  SameMarks(k, EnforceRoutingCap(k, c))
  BY DEF SameMarks, EnforceRoutingCap, QueueFields

\* A restore to a queue front touches no lock.
LEMMA RestoreFrontMarks ==
  ASSUME NEW k, DOMAIN k = QueueFields, NEW c, NEW s
  PROVE  SameMarks(k, RestoreFront(k, c, s))
<1> DEFINE whole == s \o k.queues[c]
           kept  == KeepFirst(whole, MaxPending)
           mid   == [k EXCEPT !.queues[c] = kept,
                              !.evicted = k.evicted \cup (Ids(whole) \ Ids(kept))]
<1>1. SameMarks(k, mid)
  BY DEF SameMarks, QueueFields
<1>2. SameMarks(mid, EnforceRoutingCap(mid, c))
  BY <1>1, EnforceRoutingCapMarks DEF SameMarks
<1>3. RestoreFront(k, c, s) = EnforceRoutingCap(mid, c)
  BY DEF RestoreFront
<1> QED
  BY <1>1, <1>2, <1>3 DEF SameMarks

\* push queues an event and touches no lock.
LEMMA PushMarks ==
  ASSUME NEW k, DOMAIN k = QueueFields, NEW e, NEW t, NEW x, NEW d
  PROVE  SameMarks(k, Push(k, e, t, x, d))
<1> DEFINE c     == ConvOf[e]
           entry == [id |-> e, received_at |-> t, hold_exempt |-> x, edited |-> d]
           kept  == KeepLast(k.queues[c], MaxPending - 1)
           mid   == [k EXCEPT !.queues[c] = Append(kept, entry),
                              !.evicted = (k.evicted \cup (Ids(k.queues[c]) \ Ids(kept))) \ {e}]
<1>1. SameMarks(k, mid)
  BY DEF SameMarks, QueueFields
<1>2. SameMarks(mid, EnforceRoutingCap(mid, c))
  BY <1>1, EnforceRoutingCapMarks DEF SameMarks
<1>3. Push(k, e, t, x, d) = EnforceRoutingCap(mid, c)
  BY DEF Push
<1> QED
  BY <1>1, <1>2, <1>3 DEF SameMarks

\* No requeue releases the conversation: its caller calls mark_complete.
LEMMA RequeueMarks ==
  ASSUME NEW k, DOMAIN k = QueueFields, NEW b, NEW r
  PROVE  /\ SameMarks(k, Requeue(k, b))
         /\ SameMarks(k, RequeuePreserveTimestamps(k, b))
         /\ SameMarks(k, RequeueAsCancelled(k, b, r))
         /\ SameMarks(k, TakeBusyNotice(k, r))
<1> DEFINE c   == b.channel_id
           mid == [k EXCEPT !.retry_counts[c] = @ + 1]
<1>1. SameMarks(k, Requeue(k, b))
  <2>1. SameMarks(k, mid)
    BY DEF SameMarks, QueueFields
  <2>2. SameMarks(mid, RestoreFront(mid, c, b.events))
    BY <2>1, RestoreFrontMarks DEF SameMarks
  <2>3. SameMarks(k, [RestoreFront(mid, c, b.events) EXCEPT !.retry_after[c] = "pending"])
    BY <2>1, <2>2 DEF SameMarks, QueueFields
  <2>4. SameMarks(k, [k EXCEPT !.retry_counts[c]  = 0,
                               !.retry_after[c]   = "none",
                               !.busy_notice_sent = @ \ {c}])
    BY DEF SameMarks, QueueFields
  <2> QED
    BY <2>3, <2>4 DEF Requeue
<1>2. SameMarks(k, RequeuePreserveTimestamps(k, b))
  BY RestoreFrontMarks DEF RequeuePreserveTimestamps
<1>3. SameMarks(k, RequeueAsCancelled(k, b, r))
  BY DEF SameMarks, QueueFields, RequeueAsCancelled
<1>4. SameMarks(k, TakeBusyNotice(k, r))
  BY DEF SameMarks, QueueFields, TakeBusyNotice
<1> QED
  BY <1>1, <1>2, <1>3, <1>4

\* Draining, throttle and edit operations touch no lock.
LEMMA EditMarks ==
  ASSUME NEW k, DOMAIN k = QueueFields, NEW c, NEW e, NEW cs
  PROVE  /\ SameMarks(k, ClearRetryAfter(k, c))
         /\ SameMarks(k, CompactExpiredState(k))
         /\ SameMarks(k, DrainChannels(k, cs))
         /\ SameMarks(k, RemoveEvent(k, c, e))
         /\ SameMarks(k, RemoveEventById(k, e))
         /\ SameMarks(k, PatchEvent(k, e))
<1>1. SameMarks(k, ClearRetryAfter(k, c))
  BY DEF SameMarks, QueueFields, ClearRetryAfter
<1>2. SameMarks(k, CompactExpiredState(k))
  BY DEF SameMarks, QueueFields, CompactExpiredState
<1>3. SameMarks(k, DrainChannels(k, cs))
  BY DEF SameMarks, QueueFields, DrainChannels
<1>4. \A d : SameMarks(k, RemoveEvent(k, d, e))
  BY DEF SameMarks, QueueFields, RemoveEvent
<1>5. SameMarks(k, RemoveEventById(k, e))
  BY <1>4 DEF RemoveEventById
<1>6. SameMarks(k, PatchEvent(k, e))
  BY DEF SameMarks, QueueFields, PatchEvent
<1> QED
  BY <1>1, <1>2, <1>3, <1>4, <1>5, <1>6

\* Withholding and releasing a steered event touches no lock.
LEMMA SteerMarks ==
  ASSUME NEW k, DOMAIN k = QueueFields, NEW c, NEW e
  PROVE  /\ SameMarks(k, MarkNativeSteerPending(k, c, e))
         /\ SameMarks(k, ReleaseNativeSteer(k, c, e))
<1>1. SameMarks(k, MarkNativeSteerPending(k, c, e))
  BY DEF SameMarks, QueueFields, MarkNativeSteerPending
<1>2. SameMarks(k, ReleaseNativeSteer(k, c, e))
  <2> DEFINE w   == k.withheld_native_steer[c]
             i   == Position(w, e)
             mid == [k EXCEPT !.withheld_native_steer[c] = RemoveAt(w, i)]
  <2>1. SameMarks(k, mid)
    BY DEF SameMarks, QueueFields
  <2>2. SameMarks(mid, RestoreFront(mid, c, <<w[i]>>))
    BY <2>1, RestoreFrontMarks DEF SameMarks
  <2>3. ReleaseNativeSteer(k, c, e) = IF e \notin Ids(w) THEN k ELSE RestoreFront(mid, c, <<w[i]>>)
    BY DEF ReleaseNativeSteer
  <2> QED
    BY <2>1, <2>2, <2>3 DEF SameMarks
<1> QED
  BY <1>1, <1>2

\* flush_next locks the conversation it returns.
LEMMA FlushedMarks ==
  ASSUME NEW k, DOMAIN k = QueueFields, NonePassed(k), NEW m, NEW c \in Conversations
  PROVE  /\ DOMAIN Flushed(k, m, c) = QueueFields
         /\ Flushed(k, m, c).in_flight_channels = k.in_flight_channels \cup {c}
         /\ NonePassed(Flushed(k, m, c))
  BY DEF QueueFields, Flushed, NonePassed, Punctual

\* mark_complete unlocks the conversation it is given, and no other.
LEMMA MarkCompleteMarks ==
  ASSUME NEW k, DOMAIN k = QueueFields, NonePassed(k), NEW c \in Conversations
  PROVE  /\ DOMAIN MarkComplete(k, c) = QueueFields
         /\ MarkComplete(k, c).in_flight_channels = k.in_flight_channels \ {c}
         /\ NonePassed(MarkComplete(k, c))
  BY DEF QueueFields, MarkComplete, NonePassed, Punctual

\* A successful steer moves the deadline and unlocks nothing.
LEMMA ExtendMarks ==
  ASSUME NEW k, DOMAIN k = QueueFields, NonePassed(k), NEW c
  PROVE  /\ DOMAIN ExtendInFlightDeadline(k, c) = QueueFields
         /\ ExtendInFlightDeadline(k, c).in_flight_channels = k.in_flight_channels
         /\ NonePassed(ExtendInFlightDeadline(k, c))
  BY DEF QueueFields, ExtendInFlightDeadline, NonePassed, Punctual

-----------------------------------------------------------------------------
(* Steps that neither start nor end a turn *)

TaskFields == {"phase", "conv", "batch", "control", "steers", "outcome", "returned"}

\* The shape of the task table.
TasksOK ==
  /\ DOMAIN tasks = Agents
  /\ \A a \in Agents : /\ DOMAIN tasks[a] = TaskFields
                        /\ tasks[a].phase \in Phases
                        /\ tasks[a].conv \in Conversations \cup {Heartbeat}

\* Every agent is as busy as before, and with the same conversation.
SameTurns ==
  /\ TasksOK'
  /\ \A a \in Agents : /\ (Busy(a)' <=> Busy(a))
                        /\ tasks'[a].conv = tasks[a].conv

\* Then every conversation has the same turns.
LEMMA SameTurnsOf ==
  ASSUME SameTurns, NEW c
  PROVE  TurnsOf(c)' = TurnsOf(c)
<1>1. \A a \in Agents : (Busy(a) /\ tasks[a].conv = c)' <=> (Busy(a) /\ tasks[a].conv = c)
  BY DEF SameTurns
<1> QED
  BY <1>1 DEF TurnsOf

\* A control signal only changes the control field of one task.
LEMMA SendSignalTurns ==
  ASSUME TasksOK, NEW targets \in SUBSET Agents, NEW s, SendSignal(targets, s)
  PROVE  SameTurns
  BY DEF TasksOK, SameTurns, SendSignal, Signalled, Busy, TaskFields

\* Signals go to prompt tasks.
LEMMA TargetsAreAgents ==
  ASSUME NEW c, NEW ch
  PROVE  SignalTargets(c, ch) \in SUBSET Agents /\ TurnsOf(c) \in SUBSET Agents
  BY DEF SignalTargets, TurnsOf

\* A relay event, even one that steers or interrupts, starts and ends no turn.
LEMMA IngestTurns ==
  ASSUME TasksOK, NEW e, NEW x, Ingest(e, x)
  PROVE  SameTurns
<1>1. CASE UNCHANGED tasks
  BY <1>1 DEF TasksOK, SameTurns, Busy
<1>2. CASE SendSignal(SignalTargets(ConvOf[e], Routing[ConvOf[e]]), "Interrupt")
  BY <1>2, TargetsAreAgents, SendSignalTurns
<1>3. CASE \E a \in TurnsOf(ConvOf[e]) : tasks' = [tasks EXCEPT ![a].steers = @ \cup {e}]
  BY <1>3 DEF TasksOK, SameTurns, Busy, TaskFields, TurnsOf
<1> QED
  BY <1>1, <1>2, <1>3 DEF Ingest, NativeSteer

\* The end of a prompt, a panic and a steer answer stay inside the task until the
\* main loop handles them.
LEMMA TaskTurns ==
  ASSUME TasksOK, NEW a \in Agents, NEW e, NEW kind,
         FinishTurn(a) \/ PanicTurn(a) \/ AnswerSteer(a, e, kind)
  PROVE  SameTurns
<1>1. CASE FinishTurn(a)
  <2>1. PICK end : tasks' = [tasks EXCEPT ![a] = Ended(@, end)]
    BY <1>1 DEF FinishTurn
  <2>2. Ended(tasks[a], end).phase = "done"
    BY DEF Ended, TasksOK, TaskFields
  <2>3. Ended(tasks[a], end).conv = tasks[a].conv
    BY DEF Ended, TasksOK, TaskFields
  <2>4. DOMAIN Ended(tasks[a], end) = TaskFields
    BY DEF Ended, TasksOK, TaskFields
  <2>5. tasks[a].phase = "running"
    BY <1>1 DEF FinishTurn
  <2> QED
    BY <2>1, <2>2, <2>3, <2>4, <2>5 DEF TasksOK, SameTurns, Busy, Phases
<1>2. CASE PanicTurn(a)
  BY <1>2 DEF PanicTurn, TasksOK, SameTurns, Busy, TaskFields, Phases
<1>3. CASE AnswerSteer(a, e, kind)
  BY <1>3 DEF AnswerSteer, TasksOK, SameTurns, Busy, TaskFields
<1> QED
  BY <1>1, <1>2, <1>3

\* An owner's control and a steer ack only signal.
LEMMA SignalTurns ==
  ASSUME TasksOK, NEW c, NEW s, NEW k, OwnerControl(c, s) \/ HandleSteerAck(k)
  PROVE  SameTurns
<1>1. CASE OwnerControl(c, s)
  <2>1. CASE UNCHANGED tasks
    BY <2>1 DEF TasksOK, SameTurns, Busy
  <2>2. CASE \E r : SendSignal(SignalTargets(c, Routing[c]), r) \/ SendSignal(TurnsOf(c), r)
    BY <2>2, TargetsAreAgents, SendSignalTurns
  <2>3. \/ UNCHANGED tasks
        \/ \E r : SendSignal(SignalTargets(c, Routing[c]), r) \/ SendSignal(TurnsOf(c), r)
    BY <1>1 DEF OwnerControl, OwnerCommand, ObserverCancel, ObserverSwitchModel
  <2> QED
    BY <2>1, <2>2, <2>3
<1>2. CASE HandleSteerAck(k)
  <2>1. CASE UNCHANGED tasks
    BY <2>1 DEF TasksOK, SameTurns, Busy
  <2> QED
    BY <1>2, <2>1, TargetsAreAgents, SendSignalTurns DEF HandleSteerAck
<1> QED
  BY <1>1, <1>2

\* A claimed agent turns busy with the conversation it was claimed for.
LEMMA StartTurnTurns ==
  ASSUME TasksOK, NEW a \in Agents, NEW c \in Conversations \cup {Heartbeat}, NEW b, NEW ctl,
         StartTurn(a, c, b, ctl)
  PROVE  /\ TasksOK'
         /\ Busy(a)' /\ tasks'[a].conv = c
         /\ \A d \in Agents \ {a} : tasks'[d] = tasks[d]
  BY DEF TasksOK, StartTurn, Busy, NoTask, TaskFields, Phases

\* A handled task frees its agent.
LEMMA EndTurns ==
  ASSUME TasksOK, NEW a \in Agents, tasks' = [tasks EXCEPT ![a] = NoTask]
  PROVE  /\ TasksOK'
         /\ ~Busy(a)'
         /\ \A d \in Agents \ {a} : tasks'[d] = tasks[d]
  BY DEF TasksOK, Busy, NoTask, TaskFields, Phases

-----------------------------------------------------------------------------
(* Slots and the heartbeat *)

\* The inductive invariant behind SlotExclusive and HeartbeatFlagExact: both, with
\* the shape of the task table.
PoolInv ==
  /\ TasksOK
  /\ idle \subseteq Agents
  /\ respawning \subseteq Agents
  /\ SlotExclusive
  /\ HeartbeatFlagExact

\* A step that starts and ends no turn and moves no slot keeps PoolInv.
LEMMA QuietPool ==
  ASSUME PoolInv, SameTurns, UNCHANGED <<idle, respawning, heartbeatInFlight>>
  PROVE  PoolInv'
<1>1. SlotExclusive'
  BY DEF PoolInv, SameTurns, SlotExclusive
<1>2. TurnsOf(Heartbeat)' = TurnsOf(Heartbeat)
  BY SameTurnsOf
<1>3. HeartbeatFlagExact'
  BY <1>2 DEF PoolInv, HeartbeatFlagExact
<1> QED
  BY <1>1, <1>3 DEF PoolInv, SameTurns

\* The same for a step that leaves the tasks alone.
LEMMA IdlePool ==
  ASSUME PoolInv, UNCHANGED <<idle, respawning, heartbeatInFlight, tasks>>
  PROVE  PoolInv'
  BY DEF PoolInv, SlotExclusive, HeartbeatFlagExact, TurnsOf, Busy, TasksOK

\* dispatch_pending claims idle agents only.
LEMMA DispatchPool ==
  ASSUME PoolInv, NEW c \in Conversations, DispatchBatch(c)
  PROVE  PoolInv'
<1>1. UNCHANGED <<respawning, heartbeatInFlight>>
  BY DEF DispatchBatch, slotVars
<1>2. CASE UNCHANGED poolVars
  BY <1>1, <1>2, IdlePool DEF poolVars
<1>3. CASE \E a \in ClaimChoices(c) : StartTurn(a, c, BatchFor(q, matured, c), "open")
  <2>1. PICK a \in idle : StartTurn(a, c, BatchFor(q, matured, c), "open")
    BY <1>3 DEF ClaimChoices
  <2>2. /\ TasksOK'
        /\ Busy(a)' /\ tasks'[a].conv = c
        /\ \A d \in Agents \ {a} : tasks'[d] = tasks[d]
    BY <2>1, StartTurnTurns DEF PoolInv
  <2>3. idle' = idle \ {a} /\ a \in Agents /\ ~Busy(a)
    BY <2>1 DEF StartTurn, PoolInv, SlotExclusive
  <2>4. c # Heartbeat
    BY HarnessAssumption
  <2>5. SlotExclusive'
    BY <1>1, <2>2, <2>3 DEF PoolInv, SlotExclusive, Busy
  <2>6. HeartbeatFlagExact'
    BY <1>1, <2>2, <2>3, <2>4 DEF PoolInv, HeartbeatFlagExact, TurnsOf, Busy
  <2> QED
    BY <1>1, <2>2, <2>3, <2>5, <2>6 DEF PoolInv
<1> QED
  BY <1>2, <1>3 DEF DispatchBatch

\* dispatch_heartbeat claims an idle agent and sets the flag with it.
LEMMA HeartbeatPool ==
  ASSUME PoolInv, HeartbeatFlush
  PROVE  PoolInv'
<1>1. UNCHANGED respawning
  BY DEF HeartbeatFlush, slotVars
<1>2. CASE UNCHANGED <<poolVars, heartbeatInFlight>>
  BY <1>1, <1>2, IdlePool DEF poolVars
<1>3. CASE /\ ~heartbeatInFlight
           /\ \E a \in idle : StartTurn(a, Heartbeat, NoBatch(Blank), "closed")
           /\ heartbeatInFlight' = TRUE
  <2>1. PICK a \in idle : StartTurn(a, Heartbeat, NoBatch(Blank), "closed")
    BY <1>3
  <2>2. /\ TasksOK'
        /\ Busy(a)' /\ tasks'[a].conv = Heartbeat
        /\ \A d \in Agents \ {a} : tasks'[d] = tasks[d]
    BY <2>1, StartTurnTurns DEF PoolInv
  <2>3. idle' = idle \ {a} /\ a \in Agents /\ ~Busy(a)
    BY <2>1 DEF StartTurn, PoolInv, SlotExclusive
  <2>4. SlotExclusive'
    BY <1>1, <2>2, <2>3 DEF PoolInv, SlotExclusive, Busy
  <2>5. HeartbeatFlagExact'
    BY <1>3, <2>2, <2>3 DEF PoolInv, HeartbeatFlagExact, TurnsOf, Busy
  <2> QED
    BY <1>1, <2>2, <2>3, <2>4, <2>5 DEF PoolInv
<1> QED
  BY <1>2, <1>3 DEF HeartbeatFlush

\* A result and a panic free the slot they report on: the agent goes back to the
\* pool, to a respawn, or nowhere.
LEMMA EndPool ==
  ASSUME PoolInv, NEW a \in Agents, HandleResult(a) \/ RecoverPanic(a)
  PROVE  PoolInv'
<1>1. Busy(a) /\ tasks' = [tasks EXCEPT ![a] = NoTask]
  BY DEF HandleResult, RecoverPanic, Busy
<1>2. /\ TasksOK'
      /\ ~Busy(a)'
      /\ \A d \in Agents \ {a} : tasks'[d] = tasks[d]
  BY <1>1, EndTurns DEF PoolInv
<1>3. a \notin idle /\ a \notin respawning
  BY <1>1 DEF PoolInv, SlotExclusive
<1>4. \/ idle' = idle \cup {a} /\ respawning' = respawning
      \/ idle' = idle /\ respawning' = respawning
      \/ idle' = idle /\ respawning' = respawning \cup {a}
  BY DEF HandleResult, RecoverPanic, CrashSlot, slotVars
<1>5. heartbeatInFlight' = IF tasks[a].conv = Heartbeat THEN FALSE ELSE heartbeatInFlight
  BY DEF HandleResult, RecoverPanic, Complete
<1>6. SlotExclusive'
  BY <1>2, <1>3, <1>4 DEF PoolInv, SlotExclusive, Busy
<1>7. HeartbeatFlagExact'
  BY <1>1, <1>2, <1>5 DEF PoolInv, HeartbeatFlagExact, TurnsOf, Busy
<1> QED
  BY <1>2, <1>4, <1>6, <1>7 DEF PoolInv

\* Maintenance starts respawns for dead slots only.
LEMMA MaintainPool ==
  ASSUME PoolInv, Maintain
  PROVE  PoolInv'
<1>1. UNCHANGED <<tasks, heartbeatInFlight>>
  BY DEF Maintain, poolVars
<1>2. TasksOK' /\ HeartbeatFlagExact'
  BY <1>1 DEF PoolInv, TasksOK, HeartbeatFlagExact, TurnsOf, Busy
<1> QED
  BY <1>1, <1>2 DEF Maintain, Refillable, PoolInv, SlotExclusive, Busy, poolVars

\* A respawn ends in the slot it was started for.
LEMMA RespawnPool ==
  ASSUME PoolInv, NEW a \in Agents, NEW success, CollectRespawn(a, success)
  PROVE  PoolInv'
<1>1. UNCHANGED <<tasks, heartbeatInFlight>>
  BY DEF CollectRespawn
<1>2. TasksOK' /\ HeartbeatFlagExact'
  BY <1>1 DEF PoolInv, TasksOK, HeartbeatFlagExact, TurnsOf, Busy
<1> QED
  BY <1>1, <1>2 DEF CollectRespawn, PoolInv, SlotExclusive, Busy

\* The pool starts full, with no turn and no respawn.
LEMMA PoolInit == Init => PoolInv
<1> SUFFICES ASSUME Init PROVE PoolInv
  OBVIOUS
<1>1. TasksOK
  BY DEF Init, TasksOK, NoTask, TaskFields, Phases
<1>2. \A a \in Agents : ~Busy(a)
  BY DEF Init, Busy, NoTask
<1>3. SlotExclusive /\ HeartbeatFlagExact
  BY <1>2 DEF Init, SlotExclusive, HeartbeatFlagExact, TurnsOf
<1> QED
  BY <1>1, <1>3 DEF Init, PoolInv

\* Every step keeps the slots apart.
LEMMA PoolStep == PoolInv /\ [Next]_vars => PoolInv'
<1> SUFFICES ASSUME PoolInv, [Next]_vars PROVE PoolInv'
  OBVIOUS
<1> USE DEF queueVars, poolVars, slotVars, loopVars
<1>1. CASE UNCHANGED vars
  BY <1>1, IdlePool DEF vars
<1>2. ASSUME NEW e \in Events, NEW x \in BOOLEAN, Ingest(e, x) PROVE PoolInv'
  <2>1. SameTurns
    BY <1>2, IngestTurns DEF PoolInv
  <2>2. UNCHANGED <<idle, respawning, heartbeatInFlight>>
    BY <1>2 DEF Ingest
  <2> QED
    BY <2>1, <2>2, QuietPool
<1>3. ASSUME NEW e \in Events, NEW edit \in Edits, EditMessage(e, edit) PROVE PoolInv'
  BY <1>3, IdlePool DEF EditMessage
<1>4. ASSUME NEW e \in Events, RetryTurn(e) PROVE PoolInv'
  BY <1>4, IdlePool DEF RetryTurn
<1>5. ASSUME NEW e, NEW a \in Agents, NEW kind,
             FinishTurn(a) \/ PanicTurn(a) \/ AnswerSteer(a, e, kind)
      PROVE  PoolInv'
  <2>1. SameTurns
    BY <1>5, TaskTurns DEF PoolInv
  <2>2. UNCHANGED <<idle, respawning, heartbeatInFlight>>
    BY <1>5 DEF FinishTurn, PanicTurn, AnswerSteer
  <2> QED
    BY <2>1, <2>2, QuietPool
<1>6. ASSUME NEW c, NEW s, NEW k, OwnerControl(c, s) \/ HandleSteerAck(k)
      PROVE  PoolInv'
  <2>1. SameTurns
    BY <1>6, SignalTurns DEF PoolInv
  <2>2. UNCHANGED <<idle, respawning, heartbeatInFlight>>
    BY <1>6
    DEF OwnerControl, OwnerCommand, ObserverCancel, ObserverSwitchModel, HandleSteerAck
  <2> QED
    BY <2>1, <2>2, QuietPool
<1>7. ASSUME NEW c \in Conversations, Expire(c) \/ RetryElapses(c) PROVE PoolInv'
  BY <1>7, IdlePool DEF Expire, RetryElapses
<1>8. ASSUME NEW c \in Conversations, DispatchBatch(c) PROVE PoolInv'
  BY <1>8, DispatchPool
<1>9. ASSUME NEW ch \in Membership, RemoveChannel(ch) \/ AddChannel(ch) PROVE PoolInv'
  BY <1>9, IdlePool DEF RemoveChannel, AddChannel
<1>10. ASSUME NEW a \in Agents, HandleResult(a) \/ RecoverPanic(a) PROVE PoolInv'
  BY <1>10, EndPool
<1>11. ASSUME NEW a \in Agents, NEW success \in BOOLEAN, CollectRespawn(a, success) PROVE PoolInv'
  BY <1>11, RespawnPool
<1>12. ASSUME NEW a \in Agents, DeadlinePasses(a) \/ CoolDown(a) \/ CrashAges(a) PROVE PoolInv'
  BY <1>12, IdlePool DEF DeadlinePasses, CoolDown, CrashAges
<1>13. CASE DispatchDone \/ RequeueWaiting \/ DrainDone
  BY <1>13, IdlePool DEF DispatchDone, RequeueWaiting, DrainDone
<1>14. CASE Maintain
  BY <1>14, MaintainPool
<1>15. CASE MaintainFlush \/ HeartbeatTick \/ HoldElapses \/ HoldWake
  BY <1>15, IdlePool DEF MaintainFlush, HeartbeatTick, HoldElapses, HoldWake
<1>16. CASE HeartbeatFlush
  BY <1>16, HeartbeatPool
<1> QED
  BY <1>1, <1>2, <1>3, <1>4, <1>5, <1>6, <1>7, <1>8, <1>9, <1>10, <1>11, <1>12, <1>13, <1>14, <1>15,
     <1>16
  DEF Next

\* PoolInv is an invariant of the harness, for every configuration.
LEMMA PoolInvariant == Spec => []PoolInv
  BY PoolInit, PoolStep, PTL DEF Spec

-----------------------------------------------------------------------------
(* Conversation locks *)

\* The inductive invariant behind AtMostOneTurn and InFlightExact, which need each
\* other: a flush sees a conversation unlocked and must know it has no turn, a
\* completion unlocks it and must know the turn was the only one.  Only deadlines of
\* Overruns pass, so the expiry sweep unlocks no punctual conversation.
LockInv ==
  /\ DOMAIN q = QueueFields
  /\ NonePassed(q)
  /\ q.in_flight_channels \subseteq Conversations
  /\ \E S : waiting \in Seq(S)
  /\ \A i \in DOMAIN waiting : waiting[i].channel_id \in Conversations
  /\ AtMostOneTurn
  /\ InFlightExact

\* The locks of q' are those of q.
LocksKept ==
  /\ DOMAIN q' = QueueFields
  /\ q'.in_flight_channels = q.in_flight_channels
  /\ NonePassed(q')

\* A queue operation that touches no lock keeps the locks.
LEMMA SameMarksKept ==
  ASSUME LockInv, SameMarks(q, q')
  PROVE  LocksKept
  BY DEF LockInv, SameMarks, LocksKept, NonePassed

\* A step that keeps the turns, the locks and the parked batches keeps LockInv.
LEMMA QuietLock ==
  ASSUME LockInv, SameTurns, LocksKept, UNCHANGED waiting
  PROVE  LockInv'
<1>1. \A c : TurnsOf(c)' = TurnsOf(c)
  BY SameTurnsOf
<1>2. InFlightExact'
  BY <1>1 DEF LockInv, LocksKept, InFlightExact, Holding
<1>3. AtMostOneTurn'
  BY DEF LockInv, SameTurns, AtMostOneTurn
<1> QED
  BY <1>2, <1>3 DEF LockInv, LocksKept

\* A step that leaves the tasks alone keeps the turns.
LEMMA IdleTurns ==
  ASSUME TasksOK, UNCHANGED tasks
  PROVE  SameTurns
  BY DEF TasksOK, SameTurns, Busy

\* The same for a step that leaves the tasks and the queue alone.
LEMMA IdleLock ==
  ASSUME LockInv, TasksOK, UNCHANGED <<q, tasks, waiting>>
  PROVE  LockInv'
<1>1. LocksKept
  BY DEF LockInv, LocksKept
<1> QED
  BY <1>1, IdleTurns, QuietLock

\* Relay events, edits, retries, controls, membership changes and compaction.
LEMMA QueueLock ==
  ASSUME LockInv, NEW e, NEW x, NEW edit, NEW c, NEW s, NEW ch,
         \/ Ingest(e, x) \/ EditMessage(e, edit) \/ RetryTurn(e) \/ OwnerControl(c, s)
         \/ RemoveChannel(ch) \/ Maintain \/ RetryElapses(c)
  PROVE  LocksKept
<1> SUFFICES SameMarks(q, q')
  BY SameMarksKept
<1>0. DOMAIN q = QueueFields /\ SameMarks(q, q)
  BY DEF LockInv, SameMarks
<1>1. CASE Ingest(e, x)
  <2> DEFINE pushed == Push(q, e, clock + 1, x, FALSE)
  <2>1. SameMarks(q, pushed)
    BY <1>0, PushMarks
  <2>4. DOMAIN pushed = QueueFields
    BY <2>1 DEF SameMarks
  <2>2. SameMarks(pushed, MarkNativeSteerPending(pushed, ConvOf[e], e))
    BY <2>4, SteerMarks
  <2>3. q' \in {q, pushed, MarkNativeSteerPending(pushed, ConvOf[e], e)}
    BY <1>1 DEF Ingest, NativeSteer
  <2> QED
    BY <1>0, <2>1, <2>2, <2>3 DEF SameMarks
<1>2. CASE EditMessage(e, edit)
  BY <1>0, <1>2, EditMarks DEF EditMessage
<1>3. CASE RetryTurn(e)
  <2> DEFINE q1     == ClearRetryAfter(q, ConvOf[e])
             pushed == Push(q1, e, clock + 1, TRUE, FALSE)
  <2>1. SameMarks(q, q1)
    BY <1>0, EditMarks
  <2>4. DOMAIN q1 = QueueFields
    BY <2>1 DEF SameMarks
  <2>2. SameMarks(q1, pushed)
    BY <2>4, PushMarks
  <2>3. q' \in {q1, pushed}
    BY <1>3 DEF RetryTurn
  <2> QED
    BY <2>1, <2>2, <2>3 DEF SameMarks
<1>4. CASE OwnerControl(c, s)
  <2>1. q' \in {q, DrainChannels(q, {c})}
    BY <1>4 DEF OwnerControl, OwnerCommand, ObserverCancel, ObserverSwitchModel, queueVars
  <2>2. SameMarks(q, DrainChannels(q, {c}))
    BY <1>0, EditMarks
  <2> QED
    BY <1>0, <2>1, <2>2
<1>5. CASE RemoveChannel(ch)
  BY <1>0, <1>5, EditMarks DEF RemoveChannel
<1>6. CASE Maintain
  BY <1>0, <1>6, EditMarks DEF Maintain
<1>7. CASE RetryElapses(c)
  BY <1>0, <1>7 DEF RetryElapses, SameMarks, QueueFields
<1> QED
  BY <1>1, <1>2, <1>3, <1>4, <1>5, <1>6, <1>7

\* A steer ack removes or releases its event.
LEMMA AckLock ==
  ASSUME LockInv, NEW k, HandleSteerAck(k)
  PROVE  LocksKept
<1> DEFINE c   == k.channel_id
           ext == ExtendInFlightDeadline(q, c)
<1>1. DOMAIN ext = QueueFields /\ ext.in_flight_channels = q.in_flight_channels /\ NonePassed(ext)
  BY ExtendMarks DEF LockInv
<1>2. SameMarks(ext, RemoveEvent(ext, c, k.event_id))
  BY <1>1, EditMarks
<1>3. SameMarks(q, ReleaseNativeSteer(q, c, k.event_id))
  BY SteerMarks DEF LockInv
<1>4. q' = RemoveEvent(ext, c, k.event_id) \/ q' = ReleaseNativeSteer(q, c, k.event_id)
  BY DEF HandleSteerAck
<1> QED
  BY <1>1, <1>2, <1>3, <1>4, SameMarksKept DEF LocksKept, SameMarks, NonePassed

\* dispatch_pending parks, dispatches or gives up a conversation nobody holds.
LEMMA DispatchLock ==
  ASSUME LockInv, PoolInv, NEW c \in Conversations, DispatchBatch(c)
  PROVE  LockInv'
<1> DEFINE b       == BatchFor(q, matured, c)
           flushed == Flushed(q, matured, c)
<1>1. c \notin q.in_flight_channels
  BY DEF DispatchBatch, FlushChoices, Candidates, CancelledOnly
<1>2. c \notin Overruns => ~Holding(c)
  BY <1>1 DEF LockInv, InFlightExact, Punctual
<1>3. c \notin Overruns => /\ \A a \in Agents : Busy(a) => tasks[a].conv # c
                           /\ \A i \in DOMAIN waiting : waiting[i].channel_id # c
  BY <1>2 DEF Holding, TurnsOf
<1>4. /\ DOMAIN flushed = QueueFields
      /\ flushed.in_flight_channels = q.in_flight_channels \cup {c}
      /\ NonePassed(flushed)
  BY FlushedMarks DEF LockInv
<1>5. b.channel_id = c
  BY DEF BatchFor
<1>6. CASE /\ q' = flushed
           /\ waiting' = Append(waiting, b)
           /\ UNCHANGED poolVars
  <2>1. \A d : TurnsOf(d)' = TurnsOf(d)
    BY <1>6 DEF poolVars, TurnsOf, Busy
  <2>2. PICK S : waiting \in Seq(S)
    BY DEF LockInv
  <2>3. waiting \in Seq(S \cup {b}) /\ b \in S \cup {b}
    BY <2>2
  <2>4. /\ waiting' \in Seq(S \cup {b})
        /\ DOMAIN waiting' = DOMAIN waiting \cup {Len(waiting) + 1}
        /\ \A i \in DOMAIN waiting : waiting'[i] = waiting[i]
        /\ waiting'[Len(waiting) + 1] = b
        /\ Len(waiting) + 1 \notin DOMAIN waiting
    BY <1>6, <2>3
  <2>5. AtMostOneTurn'
    BY <1>3, <1>5, <1>6, <2>4 DEF LockInv, AtMostOneTurn, poolVars, Busy
  <2>6. Holding(c)' /\ \A d \in Conversations \ {c} : Holding(d)' <=> Holding(d)
    BY <1>5, <2>1, <2>4 DEF Holding
  <2>8. InFlightExact'
    BY <1>4, <1>6, <2>6 DEF LockInv, InFlightExact, Punctual
  <2>7. \A i \in DOMAIN waiting' : waiting'[i].channel_id \in Conversations
    BY <1>5, <2>4 DEF LockInv
  <2> QED
    BY <1>4, <1>6, <2>4, <2>5, <2>7, <2>8 DEF LockInv
<1>7. CASE /\ q' = flushed
           /\ \E a \in ClaimChoices(c) : StartTurn(a, c, b, "open")
           /\ UNCHANGED loopVars
  <2>1. PICK a \in idle : StartTurn(a, c, b, "open")
    BY <1>7 DEF ClaimChoices
  <2>2. a \in Agents /\ ~Busy(a)
    BY DEF PoolInv, SlotExclusive
  <2>3. /\ Busy(a)' /\ tasks'[a].conv = c
        /\ \A d \in Agents \ {a} : tasks'[d] = tasks[d]
    BY <2>1, <2>2, StartTurnTurns DEF PoolInv
  <2>4. waiting' = waiting
    BY <1>7 DEF loopVars
  <2>5. AtMostOneTurn'
    BY <1>3, <2>2, <2>3, <2>4 DEF LockInv, AtMostOneTurn, Busy
  <2>6. a \in TurnsOf(c)' /\ \A d \in Conversations \ {c} : TurnsOf(d)' = TurnsOf(d)
    BY <2>2, <2>3 DEF TurnsOf, Busy
  <2>8. Holding(c)' /\ \A d \in Conversations \ {c} : Holding(d)' <=> Holding(d)
    BY <2>4, <2>6 DEF Holding
  <2>7. InFlightExact'
    BY <1>4, <1>7, <2>8 DEF LockInv, InFlightExact, Punctual
  <2> QED
    BY <1>4, <1>7, <2>4, <2>5, <2>7 DEF LockInv
<1>8. CASE /\ q' = MarkComplete(RequeuePreserveTimestamps(flushed, b), c)
           /\ UNCHANGED <<poolVars, waiting>>
  <2> DEFINE back == RequeuePreserveTimestamps(flushed, b)
  <2>1. SameMarks(flushed, back)
    BY <1>4, RequeueMarks
  <2>2. /\ DOMAIN back = QueueFields /\ NonePassed(back)
        /\ back.in_flight_channels = q.in_flight_channels \cup {c}
    BY <1>4, <2>1 DEF SameMarks, NonePassed
  <2>5. /\ DOMAIN MarkComplete(back, c) = QueueFields
        /\ MarkComplete(back, c).in_flight_channels = back.in_flight_channels \ {c}
        /\ NonePassed(MarkComplete(back, c))
    BY <2>2, MarkCompleteMarks
  <2>6. (q.in_flight_channels \cup {c}) \ {c} = q.in_flight_channels
    BY <1>1
  <2>3. LocksKept
    BY <1>8, <2>2, <2>5, <2>6 DEF LocksKept
  <2>4. SameTurns
    BY <1>8, IdleTurns DEF poolVars, PoolInv
  <2> QED
    BY <1>8, <2>3, <2>4, QuietLock
<1> QED
  BY <1>6, <1>7, <1>8 DEF DispatchBatch

\* A parked batch goes back to its queue and gives up its lock.
LEMMA WaitingLock ==
  ASSUME LockInv, PoolInv, RequeueWaiting
  PROVE  LockInv'
<1>1. CASE waiting = <<>>
  BY <1>1, IdleLock DEF RequeueWaiting, poolVars, PoolInv
<1>2. CASE waiting # <<>>
  <2> DEFINE b    == Head(waiting)
             back == RequeuePreserveTimestamps(q, b)
  <2>1. /\ q' = MarkComplete(back, b.channel_id)
        /\ waiting' = Tail(waiting)
        /\ UNCHANGED tasks
    BY <1>2 DEF RequeueWaiting, poolVars
  <2>2. PICK S : waiting \in Seq(S)
    BY DEF LockInv
  <2>3. /\ 1 \in DOMAIN waiting /\ b = waiting[1]
        /\ waiting' \in Seq(S)
        /\ \A i \in DOMAIN waiting' : i + 1 \in DOMAIN waiting /\ waiting'[i] = waiting[i + 1]
        /\ \A i \in DOMAIN waiting : i # 1 => i - 1 \in DOMAIN waiting' /\ waiting'[i - 1] = waiting[i]
    BY <1>2, <2>1, <2>2
  <2>4. b.channel_id \in Conversations
    BY <2>3 DEF LockInv
  <2>5. SameMarks(q, back)
    BY RequeueMarks DEF LockInv
  <2>6. DOMAIN back = QueueFields /\ NonePassed(back)
        /\ back.in_flight_channels = q.in_flight_channels
    BY <2>5 DEF SameMarks, NonePassed, LockInv
  <2>7. /\ DOMAIN q' = QueueFields
        /\ q'.in_flight_channels = q.in_flight_channels \ {b.channel_id}
        /\ NonePassed(q')
    BY <2>1, <2>4, <2>6, MarkCompleteMarks
  <2>8. \A d : TurnsOf(d)' = TurnsOf(d)
    BY <2>1 DEF TurnsOf, Busy
  <2>9. DOMAIN waiting \subseteq Nat /\ DOMAIN waiting' \subseteq Nat
    BY <2>2, <2>3
  <2>10. AtMostOneTurn'
    BY <2>1, <2>3, <2>9 DEF LockInv, AtMostOneTurn, Busy
  <2>15. PICK c : c = b.channel_id
    OBVIOUS
  <2>11. c \notin Overruns => ~Holding(c)'
    <3>1. c \notin Overruns => TurnsOf(c) = {}
      BY <2>3, <2>15 DEF LockInv, AtMostOneTurn, TurnsOf
    <3>2. ASSUME NEW i \in DOMAIN waiting', waiting'[i].channel_id = c PROVE c \in Overruns
      <4>1. i \in Nat \ {0} /\ i + 1 \in DOMAIN waiting /\ waiting[i + 1].channel_id = c
        BY <2>3, <3>2
      <4>2. i + 1 # 1
        BY <4>1
      <4> QED
        BY <2>3, <2>15, <4>1, <4>2 DEF LockInv, AtMostOneTurn
    <3> QED
      BY <2>8, <3>1, <3>2 DEF Holding
  <2>12. \A d : d # c => (Holding(d)' <=> Holding(d))
    BY <2>3, <2>8, <2>15 DEF Holding
  <2>13. InFlightExact'
    BY <2>7, <2>11, <2>12, <2>15 DEF LockInv, InFlightExact, Punctual
  <2>14. \A i \in DOMAIN waiting' : waiting'[i].channel_id \in Conversations
    BY <2>3 DEF LockInv
  <2> QED
    BY <2>3, <2>7, <2>10, <2>13, <2>14 DEF LockInv
<1> QED
  BY <1>1, <1>2

\* What a result or a panic does with its batch keeps the locks, up to mark_complete.
LEMMA RequeuedMarks ==
  ASSUME LockInv, NEW t, NEW b
  PROVE  SameMarks(q, RequeueResult(t)) /\ SameMarks(q, Requeue(q, b)) /\ SameMarks(q, q)
<1>1. DOMAIN q = QueueFields /\ SameMarks(q, q)
  BY DEF LockInv, SameMarks
<1>2. DOMAIN TakeBusyNotice(q, t.conv) = QueueFields
  BY <1>1, RequeueMarks DEF SameMarks
<1>3. SameMarks(q, TakeBusyNotice(q, t.conv))
  BY <1>1, RequeueMarks
<1>4. SameMarks(TakeBusyNotice(q, t.conv), Requeue(TakeBusyNotice(q, t.conv), t.batch))
  BY <1>2, RequeueMarks
<1>5. SameMarks(q, Requeue(TakeBusyNotice(q, t.conv), t.batch))
  BY <1>3, <1>4 DEF SameMarks
<1>6. \A x, r : SameMarks(q, Requeue(q, x)) /\ SameMarks(q, RequeueAsCancelled(q, x, r))
  BY <1>1, RequeueMarks
<1> QED
  BY <1>1, <1>5, <1>6 DEF RequeueResult

\* A handled task unlocks its conversation, after its batch is back in the queue.
LEMMA EndLock ==
  ASSUME LockInv, PoolInv, NEW a \in Agents, HandleResult(a) \/ RecoverPanic(a)
  PROVE  LockInv'
<1>0. PICK conv : conv = tasks[a].conv
  OBVIOUS
<1>1. Busy(a) /\ tasks' = [tasks EXCEPT ![a] = NoTask] /\ waiting' = waiting
  BY DEF HandleResult, RecoverPanic, Busy
<1>2. /\ ~Busy(a)'
      /\ \A d \in Agents \ {a} : tasks'[d] = tasks[d]
  BY <1>1, EndTurns DEF PoolInv
<1>3. PICK back : SameMarks(q, back) /\ Complete(conv, back)
  <2>1. CASE HandleResult(a)
    BY <1>0, <2>1, RequeuedMarks DEF HandleResult
  <2>2. CASE RecoverPanic(a)
    BY <1>0, <2>2, RequeuedMarks DEF RecoverPanic
  <2> QED
    BY <2>1, <2>2
<1>4. AtMostOneTurn'
  BY <1>1, <1>2 DEF LockInv, AtMostOneTurn, Busy
<1>5. CASE conv = Heartbeat
  <2>1. q' = q
    BY <1>3, <1>5 DEF Complete
  <2>2. \A d \in Conversations : TurnsOf(d)' = TurnsOf(d)
    BY <1>0, <1>2, <1>5, HarnessAssumption DEF TurnsOf, Busy
  <2>4. \A d \in Conversations : Holding(d)' <=> Holding(d)
    BY <1>1, <2>2 DEF Holding
  <2>3. InFlightExact'
    BY <2>1, <2>4 DEF LockInv, InFlightExact, Punctual
  <2> QED
    BY <1>1, <1>4, <2>1, <2>3 DEF LockInv
<1>6. CASE conv # Heartbeat
  <2>1. conv \in Conversations
    BY <1>0, <1>6 DEF PoolInv, TasksOK
  <2>2. DOMAIN back = QueueFields /\ NonePassed(back)
        /\ back.in_flight_channels = q.in_flight_channels
    BY <1>3 DEF SameMarks, NonePassed, LockInv
  <2>3. q' = MarkComplete(back, conv)
    BY <1>3, <1>6 DEF Complete
  <2>4. /\ DOMAIN q' = QueueFields
        /\ q'.in_flight_channels = q.in_flight_channels \ {conv}
        /\ NonePassed(q')
    BY <2>1, <2>2, <2>3, MarkCompleteMarks
  <2>5. conv \notin Overruns => TurnsOf(conv)' = {}
    BY <1>0, <1>1, <1>2 DEF LockInv, AtMostOneTurn, TurnsOf, Busy
  <2>6. conv \notin Overruns => \A i \in DOMAIN waiting : waiting[i].channel_id # conv
    BY <1>0, <1>1 DEF LockInv, AtMostOneTurn
  <2>7. \A d : d # conv => TurnsOf(d)' = TurnsOf(d)
    BY <1>0, <1>1, <1>2 DEF TurnsOf, Busy
  <2>9. /\ conv \notin Overruns => ~Holding(conv)'
        /\ \A d : d # conv => (Holding(d)' <=> Holding(d))
    BY <1>1, <2>5, <2>6, <2>7 DEF Holding
  <2>8. InFlightExact'
    BY <2>4, <2>9 DEF LockInv, InFlightExact, Punctual
  <2> QED
    BY <1>1, <1>4, <2>4, <2>8 DEF LockInv
<1> QED
  BY <1>5, <1>6

\* A heartbeat turn takes no conversation.
LEMMA HeartbeatLock ==
  ASSUME LockInv, PoolInv, HeartbeatFlush
  PROVE  LockInv'
<1>1. UNCHANGED <<q, waiting>>
  BY DEF HeartbeatFlush, queueVars
<1>2. CASE UNCHANGED poolVars
  BY <1>1, <1>2, IdleLock DEF poolVars, PoolInv
<1>3. CASE ~heartbeatInFlight /\ \E a \in idle : StartTurn(a, Heartbeat, NoBatch(Blank), "closed")
  <2>1. PICK a \in idle : StartTurn(a, Heartbeat, NoBatch(Blank), "closed")
    BY <1>3
  <2>2. a \in Agents /\ ~Busy(a)
    BY DEF PoolInv, SlotExclusive
  <2>3. /\ Busy(a)' /\ tasks'[a].conv = Heartbeat
        /\ \A d \in Agents \ {a} : tasks'[d] = tasks[d]
    BY <2>1, <2>2, StartTurnTurns DEF PoolInv
  <2>4. \A d \in Agents : Busy(d) => tasks[d].conv # Heartbeat
    BY <1>3 DEF PoolInv, HeartbeatFlagExact, TurnsOf
  <2>5. \A i \in DOMAIN waiting : waiting[i].channel_id # Heartbeat
    BY HarnessAssumption DEF LockInv
  <2>6. AtMostOneTurn'
    BY <1>1, <2>2, <2>3, <2>4, <2>5 DEF LockInv, AtMostOneTurn, Busy
  <2>7. \A d \in Conversations : TurnsOf(d)' = TurnsOf(d)
    BY <2>2, <2>3, HarnessAssumption DEF TurnsOf, Busy
  <2>9. \A d \in Conversations : Holding(d)' <=> Holding(d)
    BY <1>1, <2>7 DEF Holding
  <2>8. InFlightExact'
    BY <1>1, <2>9 DEF LockInv, InFlightExact, Punctual
  <2> QED
    BY <1>1, <2>6, <2>8 DEF LockInv
<1> QED
  BY <1>2, <1>3 DEF HeartbeatFlush

\* Nothing is locked at the start.
LEMMA LockInit == Init => LockInv
<1> SUFFICES ASSUME Init PROVE LockInv
  OBVIOUS
<1>1. DOMAIN q = QueueFields /\ NonePassed(q) /\ q.in_flight_channels = {}
  BY DEF Init, NewQueue, QueueFields, NonePassed, Punctual
<1>2. waiting \in Seq({}) /\ DOMAIN waiting = {}
  BY DEF Init
<1>3. \A a \in Agents : ~Busy(a)
  BY DEF Init, Busy, NoTask
<1>4. AtMostOneTurn
  BY <1>2, <1>3 DEF AtMostOneTurn
<1>5. InFlightExact
  BY <1>1, <1>2, <1>3 DEF InFlightExact, Holding, TurnsOf
<1> QED
  BY <1>1, <1>2, <1>4, <1>5 DEF LockInv

\* The sweep unlocks a conversation whose deadline has passed, and no other.
LEMMA ExpireLock ==
  ASSUME LockInv, PoolInv, NEW c \in Conversations, Expire(c)
  PROVE  LockInv'
<1> DEFINE released == [q EXCEPT !.in_flight_channels       = @ \ {c},
                                 !.in_flight_event_ids[c]   = {},
                                 !.in_flight_deadlines[c]   = "none",
                                 !.withheld_native_steer[c] = <<>>]
<1>1. c \in Overruns
  BY DEF Expire, LockInv, NonePassed, Punctual
<1>2. /\ DOMAIN released = QueueFields
      /\ released.in_flight_channels = q.in_flight_channels \ {c}
      /\ NonePassed(released)
  BY DEF LockInv, QueueFields, NonePassed, Punctual
<1>3. SameMarks(released, RestoreFront(released, c, q.withheld_native_steer[c]))
  BY <1>2, RestoreFrontMarks
<1>4. q' = released \/ q' = RestoreFront(released, c, q.withheld_native_steer[c])
  BY DEF Expire, ExpireInFlight
<1> HIDE DEF released
<1>5. /\ DOMAIN q' = QueueFields
      /\ q'.in_flight_channels = q.in_flight_channels \ {c}
      /\ NonePassed(q')
  BY <1>2, <1>3, <1>4 DEF SameMarks, NonePassed
<1>6. UNCHANGED <<tasks, waiting>>
  BY DEF Expire, poolVars, loopVars
<1>7. AtMostOneTurn'
  BY <1>6 DEF LockInv, AtMostOneTurn, Busy
<1>8. \A d : Holding(d)' <=> Holding(d)
  BY <1>6 DEF Holding, TurnsOf, Busy
<1>9. InFlightExact'
  BY <1>1, <1>5, <1>8 DEF LockInv, InFlightExact, Punctual
<1> QED
  BY <1>5, <1>6, <1>7, <1>9 DEF LockInv

\* A deadline that passes unlocks nothing yet.
LEMMA DeadlineLock ==
  ASSUME LockInv, PoolInv, NEW a \in Agents, DeadlinePasses(a)
  PROVE  LockInv'
<1>1. LocksKept
  BY DEF DeadlinePasses, LockInv, LocksKept, QueueFields, NonePassed, Punctual
<1>2. SameTurns /\ UNCHANGED waiting
  BY IdleTurns DEF DeadlinePasses, poolVars, loopVars, PoolInv
<1> QED
  BY <1>1, <1>2, QuietLock

\* Every step keeps the locks.
LEMMA LockStep == PoolInv /\ LockInv /\ [Next]_vars => LockInv'
<1> SUFFICES ASSUME PoolInv, LockInv, [Next]_vars PROVE LockInv'
  OBVIOUS
<1> USE DEF queueVars, poolVars, slotVars, loopVars
<1>0. TasksOK
  BY DEF PoolInv
<1>1. CASE UNCHANGED vars
  BY <1>0, <1>1, IdleLock DEF vars
<1>2. ASSUME NEW e \in Events, NEW x \in BOOLEAN, Ingest(e, x) PROVE LockInv'
  <2>1. LocksKept
    BY <1>2, QueueLock
  <2>2. SameTurns
    BY <1>0, <1>2, IngestTurns
  <2> QED
    BY <1>2, <2>1, <2>2, QuietLock DEF Ingest
<1>3. ASSUME NEW e \in Events, NEW edit \in Edits, EditMessage(e, edit) PROVE LockInv'
  <2>1. LocksKept
    BY <1>3, QueueLock
  <2> QED
    BY <1>0, <1>3, <2>1, IdleTurns, QuietLock DEF EditMessage
<1>4. ASSUME NEW e \in Events, RetryTurn(e) PROVE LockInv'
  <2>1. LocksKept
    BY <1>4, QueueLock
  <2> QED
    BY <1>0, <1>4, <2>1, IdleTurns, QuietLock DEF RetryTurn
<1>5. ASSUME NEW e, NEW a \in Agents, NEW kind,
             FinishTurn(a) \/ PanicTurn(a) \/ AnswerSteer(a, e, kind)
      PROVE  LockInv'
  <2>1. SameTurns
    BY <1>0, <1>5, TaskTurns
  <2>2. UNCHANGED <<q, waiting>>
    BY <1>5 DEF FinishTurn, PanicTurn, AnswerSteer
  <2>3. LocksKept
    BY <2>2 DEF LockInv, LocksKept
  <2> QED
    BY <2>1, <2>2, <2>3, QuietLock
<1>6. ASSUME NEW c \in Conversations, NEW s \in OwnerSignals, OwnerControl(c, s) PROVE LockInv'
  <2>1. LocksKept
    BY <1>6, QueueLock
  <2>2. SameTurns
    BY <1>0, <1>6, SignalTurns
  <2> QED
    BY <1>6, <2>1, <2>2, QuietLock
    DEF OwnerControl, OwnerCommand, ObserverCancel, ObserverSwitchModel
<1>7. ASSUME NEW k \in acks, HandleSteerAck(k) PROVE LockInv'
  <2>1. LocksKept
    BY <1>7, AckLock
  <2>2. SameTurns
    BY <1>0, <1>7, SignalTurns
  <2> QED
    BY <1>7, <2>1, <2>2, QuietLock DEF HandleSteerAck
<1>8. ASSUME NEW c \in Conversations, Expire(c) PROVE LockInv'
  BY <1>8, ExpireLock
<1>9. ASSUME NEW c \in Conversations, RetryElapses(c) PROVE LockInv'
  <2>1. LocksKept
    BY <1>9, QueueLock
  <2> QED
    BY <1>0, <1>9, <2>1, IdleTurns, QuietLock DEF RetryElapses
<1>10. ASSUME NEW c \in Conversations, DispatchBatch(c) PROVE LockInv'
  BY <1>10, DispatchLock
<1>11. ASSUME NEW ch \in Membership, RemoveChannel(ch) PROVE LockInv'
  <2>1. LocksKept
    BY <1>11, QueueLock
  <2> QED
    BY <1>0, <1>11, <2>1, IdleTurns, QuietLock DEF RemoveChannel
<1>12. ASSUME NEW ch \in Membership, AddChannel(ch) PROVE LockInv'
  BY <1>0, <1>12, IdleLock DEF AddChannel
<1>13. ASSUME NEW a \in Agents, HandleResult(a) \/ RecoverPanic(a) PROVE LockInv'
  BY <1>13, EndLock
<1>14. ASSUME NEW a \in Agents, NEW success \in BOOLEAN, CollectRespawn(a, success) PROVE LockInv'
  BY <1>0, <1>14, IdleLock DEF CollectRespawn
<1>21. ASSUME NEW a \in Agents, DeadlinePasses(a) PROVE LockInv'
  BY <1>21, DeadlineLock
<1>15. ASSUME NEW a \in Agents, CoolDown(a) \/ CrashAges(a) PROVE LockInv'
  BY <1>0, <1>15, IdleLock DEF CoolDown, CrashAges
<1>16. CASE DispatchDone \/ DrainDone
  BY <1>0, <1>16, IdleLock DEF DispatchDone, DrainDone
<1>17. CASE RequeueWaiting
  BY <1>17, WaitingLock
<1>18. CASE Maintain
  <2>1. LocksKept
    BY <1>18, QueueLock
  <2> QED
    BY <1>0, <1>18, <2>1, IdleTurns, QuietLock DEF Maintain
<1>19. CASE MaintainFlush \/ HeartbeatTick \/ HoldElapses \/ HoldWake
  BY <1>0, <1>19, IdleLock DEF MaintainFlush, HeartbeatTick, HoldElapses, HoldWake
<1>20. CASE HeartbeatFlush
  BY <1>20, HeartbeatLock
<1> QED
  BY <1>1, <1>2, <1>3, <1>4, <1>5, <1>6, <1>7, <1>8, <1>9, <1>10, <1>11, <1>12, <1>13, <1>14, <1>15,
     <1>16, <1>17, <1>18, <1>19, <1>20, <1>21
  DEF Next

-----------------------------------------------------------------------------
(* Session ownership *)

\* The inductive invariant behind OneSessionOwner: a turn may give its agent a
\* session only for its own conversation, and while it runs no other agent has one,
\* if that conversation is punctual.
SessionInv ==
  /\ sessions \in [Agents -> SUBSET Conversations]
  /\ checkedOut \in [Agents -> SUBSET Conversations]
  /\ \A a \in Agents : a \notin idle /\ ~Busy(a) => sessions[a] = {}
  /\ \A a \in Agents : Busy(a) => sessions[a] \subseteq checkedOut[a] \cup {tasks[a].conv}
  /\ \A a, b \in Agents :
       a # b /\ Busy(a) /\ tasks[a].conv \in sessions[b] => tasks[a].conv \in Overruns
  /\ OneSessionOwner

\* Sessions may be dropped.
SessionsShrink ==
  /\ sessions' \in [Agents -> SUBSET Conversations]
  /\ \A a \in Agents : sessions'[a] \subseteq sessions[a]

\* Dropping sessions while the turns go on keeps SessionInv.
LEMMA QuietSession ==
  ASSUME SessionInv, SameTurns, SessionsShrink, UNCHANGED <<idle, checkedOut>>
  PROVE  SessionInv'
<1>1. \A a \in Agents : a \notin idle' /\ ~Busy(a)' => sessions'[a] = {}
  BY DEF SessionInv, SameTurns, SessionsShrink
<1>2. \A a \in Agents : Busy(a)' => sessions'[a] \subseteq checkedOut'[a] \cup {tasks'[a].conv}
  BY DEF SessionInv, SameTurns, SessionsShrink
<1>3. \A a, b \in Agents :
        a # b /\ Busy(a)' /\ tasks'[a].conv \in sessions'[b] => tasks'[a].conv \in Overruns
  BY DEF SessionInv, SameTurns, SessionsShrink
<1>4. OneSessionOwner'
  BY DEF SessionInv, SessionsShrink, OneSessionOwner
<1> QED
  BY <1>1, <1>2, <1>3, <1>4 DEF SessionInv, SessionsShrink

\* A step that leaves the pool alone keeps SessionInv.
LEMMA IdleSession ==
  ASSUME SessionInv, TasksOK, UNCHANGED poolVars
  PROVE  SessionInv'
<1>1. SessionsShrink
  BY DEF SessionInv, SessionsShrink, poolVars
<1> QED
  BY <1>1, IdleTurns, QuietSession DEF poolVars

\* A turn may give its agent a session for its own conversation, and no other.
LEMMA TurnEndsSessions ==
  ASSUME NEW t, NEW S
  PROVE  /\ \A end \in TurnEnds(t, S) : end.sessions \subseteq S \cup {t.conv}
         /\ \A end \in HeartbeatEnds(S) : end.sessions \subseteq S
<1>1. \A end \in TurnEnds(t, S) : end.sessions \subseteq S \cup {t.conv}
  BY DEF TurnEnds, SetupEnds, SessionEnds, PromptEnds, StopEnds, End
<1>2. \A end \in HeartbeatEnds(S) : end.sessions \subseteq S
  BY DEF HeartbeatEnds
<1> QED
  BY <1>1, <1>2

\* The end of a prompt.
LEMMA FinishSession ==
  ASSUME SessionInv, LockInv, PoolInv, NEW a \in Agents, FinishTurn(a)
  PROVE  SessionInv'
<1>1. SameTurns
  BY TaskTurns DEF PoolInv
<1>2. Busy(a) /\ UNCHANGED <<idle, checkedOut>>
  BY DEF FinishTurn, Busy
<1>3. PICK S : /\ sessions' = [sessions EXCEPT ![a] = S]
               /\ S \subseteq sessions[a] \cup {tasks[a].conv}
               /\ tasks[a].conv = Heartbeat => S \subseteq sessions[a]
  <2>1. PICK end \in IF tasks[a].conv = Heartbeat THEN HeartbeatEnds(sessions[a])
                     ELSE TurnEnds(tasks[a], sessions[a]) :
               sessions' = [sessions EXCEPT ![a] = end.sessions]
    BY DEF FinishTurn
  <2>2. end.sessions \subseteq sessions[a] \cup {tasks[a].conv}
    BY <2>1, TurnEndsSessions
  <2>3. tasks[a].conv = Heartbeat => end.sessions \subseteq sessions[a]
    BY <2>1, TurnEndsSessions
  <2> QED
    BY <2>1, <2>2, <2>3
<1>4. S \subseteq Conversations
  BY <1>3 DEF SessionInv, PoolInv, TasksOK
<1>5. sessions' \in [Agents -> SUBSET Conversations]
  BY <1>3, <1>4 DEF SessionInv
<1>6. /\ sessions'[a] = S
      /\ \A b \in Agents \ {a} : sessions'[b] = sessions[b]
  BY <1>3 DEF SessionInv
<1>7. \A b \in Agents : b \notin idle' /\ ~Busy(b)' => sessions'[b] = {}
  BY <1>1, <1>2, <1>6 DEF SessionInv, SameTurns
<1>8. \A b \in Agents : Busy(b)' => sessions'[b] \subseteq checkedOut'[b] \cup {tasks'[b].conv}
  BY <1>1, <1>2, <1>3, <1>6 DEF SessionInv, SameTurns
<1>9. \A b \in Agents \ {a} : Busy(b) /\ tasks[b].conv \in S => tasks[b].conv \in Overruns
  <2>1. SUFFICES ASSUME NEW b \in Agents \ {a}, Busy(b), tasks[b].conv \in S,
                        tasks[b].conv \notin Overruns
                 PROVE  FALSE
    OBVIOUS
  <2>2. tasks[b].conv \notin sessions[a]
    BY <2>1 DEF SessionInv
  <2>3. tasks[b].conv = tasks[a].conv /\ tasks[a].conv # Heartbeat
    BY <1>3, <2>1, <2>2
  <2> QED
    BY <1>2, <2>1, <2>3 DEF LockInv, AtMostOneTurn
<1>10. \A b, d \in Agents :
         b # d /\ Busy(b)' /\ tasks'[b].conv \in sessions'[d] => tasks'[b].conv \in Overruns
  BY <1>1, <1>6, <1>9 DEF SessionInv, SameTurns
<1>11. \A b \in Agents \ {a} : S \cap sessions[b] \subseteq Overruns
  BY <1>2, <1>3 DEF SessionInv, OneSessionOwner
<1>12. OneSessionOwner'
  BY <1>6, <1>11 DEF SessionInv, OneSessionOwner
<1> QED
  BY <1>2, <1>5, <1>7, <1>8, <1>10, <1>12 DEF SessionInv

\* dispatch_pending: the claimed agent is the only one that may have the session.
LEMMA DispatchSession ==
  ASSUME SessionInv, LockInv, PoolInv, NEW c \in Conversations, DispatchBatch(c)
  PROVE  SessionInv'
<1>1. CASE UNCHANGED poolVars
  BY <1>1, IdleSession DEF PoolInv
<1>2. CASE ~SessionOwnerBusy(c) /\ \E a \in ClaimChoices(c) : StartTurn(a, c, BatchFor(q, matured, c), "open")
  <2>1. PICK a \in ClaimChoices(c) : StartTurn(a, c, BatchFor(q, matured, c), "open")
    BY <1>2
  <2>2. a \in Agents /\ ~Busy(a) /\ a \in idle
    BY <2>1 DEF ClaimChoices, PoolInv, SlotExclusive
  <2>3. /\ Busy(a)' /\ tasks'[a].conv = c
        /\ \A d \in Agents \ {a} : tasks'[d] = tasks[d]
    BY <2>1, <2>2, StartTurnTurns DEF PoolInv
  <2>4. /\ idle' = idle \ {a}
        /\ sessions' = sessions
        /\ checkedOut' = [checkedOut EXCEPT ![a] = sessions[a]]
    BY <2>1 DEF StartTurn
  <2>5. c \notin q.in_flight_channels
    BY DEF DispatchBatch, FlushChoices, Candidates, CancelledOnly
  <2>6. c \notin Overruns => \A d \in Agents : Busy(d) => tasks[d].conv # c
    BY <2>5 DEF LockInv, InFlightExact, Punctual, Holding, TurnsOf
  <2>7. \A d \in Agents \ {a} : c \in sessions[d] => c \in Overruns
    <3>1. SUFFICES ASSUME NEW d \in Agents \ {a}, c \in sessions[d], c \notin Overruns PROVE FALSE
      OBVIOUS
    <3>2. c \notin sessions[a]
      BY <2>2, <3>1 DEF SessionInv, OneSessionOwner
    <3>3. d \notin idle
      BY <2>1, <3>1, <3>2 DEF ClaimChoices
    <3>4. Busy(d)
      BY <3>1, <3>3 DEF SessionInv
    <3>5. c \in checkedOut[d]
      BY <2>6, <3>1, <3>4 DEF SessionInv
    <3> QED
      BY <1>2, <3>3, <3>4, <3>5 DEF SessionOwnerBusy
  <2>8. checkedOut' \in [Agents -> SUBSET Conversations]
    BY <2>4 DEF SessionInv
  <2>9. \A d \in Agents : d \notin idle' /\ ~Busy(d)' => sessions'[d] = {}
    BY <2>3, <2>4 DEF SessionInv, Busy
  <2>10. \A d \in Agents : Busy(d)' => sessions'[d] \subseteq checkedOut'[d] \cup {tasks'[d].conv}
    BY <2>3, <2>4 DEF SessionInv, Busy
  <2>11. \A b, d \in Agents :
           b # d /\ Busy(b)' /\ tasks'[b].conv \in sessions'[d] => tasks'[b].conv \in Overruns
    BY <2>3, <2>4, <2>7 DEF SessionInv, Busy
  <2>12. OneSessionOwner'
    BY <2>4 DEF SessionInv, OneSessionOwner
  <2> QED
    BY <2>4, <2>8, <2>9, <2>10, <2>11, <2>12 DEF SessionInv
<1> QED
  BY <1>1, <1>2 DEF DispatchBatch

\* A heartbeat turn owns no conversation's session.
LEMMA HeartbeatSession ==
  ASSUME SessionInv, PoolInv, HeartbeatFlush
  PROVE  SessionInv'
<1>1. CASE UNCHANGED poolVars
  BY <1>1, IdleSession DEF PoolInv
<1>2. CASE \E a \in idle : StartTurn(a, Heartbeat, NoBatch(Blank), "closed")
  <2>1. PICK a \in idle : StartTurn(a, Heartbeat, NoBatch(Blank), "closed")
    BY <1>2
  <2>2. a \in Agents
    BY DEF PoolInv
  <2>3. /\ Busy(a)' /\ tasks'[a].conv = Heartbeat
        /\ \A d \in Agents \ {a} : tasks'[d] = tasks[d]
    BY <2>1, <2>2, StartTurnTurns DEF PoolInv
  <2>4. /\ idle' = idle \ {a}
        /\ sessions' = sessions
        /\ checkedOut' = [checkedOut EXCEPT ![a] = sessions[a]]
    BY <2>1 DEF StartTurn
  <2>5. \A d \in Agents : Heartbeat \notin sessions[d]
    BY HarnessAssumption DEF SessionInv
  <2>6. checkedOut' \in [Agents -> SUBSET Conversations]
    BY <2>4 DEF SessionInv
  <2>7. \A d \in Agents : d \notin idle' /\ ~Busy(d)' => sessions'[d] = {}
    BY <2>3, <2>4 DEF SessionInv, Busy
  <2>8. \A d \in Agents : Busy(d)' => sessions'[d] \subseteq checkedOut'[d] \cup {tasks'[d].conv}
    BY <2>3, <2>4 DEF SessionInv, Busy
  <2>9. \A b, d \in Agents :
          b # d /\ Busy(b)' /\ tasks'[b].conv \in sessions'[d] => tasks'[b].conv \in Overruns
    BY <2>3, <2>4, <2>5 DEF SessionInv, Busy
  <2>10. OneSessionOwner'
    BY <2>4 DEF SessionInv, OneSessionOwner
  <2> QED
    BY <2>4, <2>6, <2>7, <2>8, <2>9, <2>10 DEF SessionInv
<1> QED
  BY <1>1, <1>2 DEF HeartbeatFlush

\* A handled agent returns with fewer sessions, or is gone with all of them.
LEMMA EndSession ==
  ASSUME SessionInv, PoolInv, NEW a \in Agents, HandleResult(a) \/ RecoverPanic(a)
  PROVE  SessionInv'
<1>1. Busy(a) /\ tasks' = [tasks EXCEPT ![a] = NoTask]
  BY DEF HandleResult, RecoverPanic, Busy
<1>2. /\ ~Busy(a)'
      /\ \A d \in Agents \ {a} : tasks'[d] = tasks[d]
  BY <1>1, EndTurns DEF PoolInv
<1>3. /\ \/ sessions' = [sessions EXCEPT ![a] = {}] /\ idle' = idle
         \/ sessions' = [sessions EXCEPT ![a] = @ \ SessionsIn(removed)] /\ idle' = idle \cup {a}
      /\ checkedOut' = [checkedOut EXCEPT ![a] = {}] \/ checkedOut' = checkedOut
  BY DEF HandleResult, RecoverPanic, Stripped
<1>4. /\ SessionsShrink
      /\ checkedOut' \in [Agents -> SUBSET Conversations]
      /\ \A d \in Agents \ {a} : checkedOut'[d] = checkedOut[d] /\ (d \in idle' <=> d \in idle)
  BY <1>3 DEF SessionInv, SessionsShrink
<1>5. \A d \in Agents : d \notin idle' /\ ~Busy(d)' => sessions'[d] = {}
  BY <1>2, <1>3, <1>4 DEF SessionInv, SessionsShrink, Busy
<1>6. \A d \in Agents : Busy(d)' => sessions'[d] \subseteq checkedOut'[d] \cup {tasks'[d].conv}
  BY <1>2, <1>4 DEF SessionInv, SessionsShrink, Busy
<1>7. \A b, d \in Agents :
        b # d /\ Busy(b)' /\ tasks'[b].conv \in sessions'[d] => tasks'[b].conv \in Overruns
  BY <1>2, <1>4 DEF SessionInv, SessionsShrink, Busy
<1>8. OneSessionOwner'
  BY <1>4 DEF SessionInv, SessionsShrink, OneSessionOwner
<1> QED
  BY <1>4, <1>5, <1>6, <1>7, <1>8 DEF SessionInv, SessionsShrink

\* A fresh agent has no session.
LEMMA RespawnSession ==
  ASSUME SessionInv, PoolInv, NEW a \in Agents, NEW success, CollectRespawn(a, success)
  PROVE  SessionInv'
<1>1. UNCHANGED tasks
  BY DEF CollectRespawn
<1>2. a \notin idle /\ ~Busy(a)
  BY DEF CollectRespawn, PoolInv, SlotExclusive
<1>3. CASE UNCHANGED <<idle, sessions, checkedOut>>
  BY <1>1, <1>3, IdleSession DEF poolVars, PoolInv
<1>4. CASE /\ idle' = idle \cup {a}
           /\ sessions' = [sessions EXCEPT ![a] = {}]
           /\ checkedOut' = [checkedOut EXCEPT ![a] = {}]
  <2>1. SessionsShrink
    BY <1>4 DEF SessionInv, SessionsShrink
  <2>2. checkedOut' \in [Agents -> SUBSET Conversations]
    BY <1>4 DEF SessionInv
  <2>3. \A d \in Agents : d \notin idle' /\ ~Busy(d)' => sessions'[d] = {}
    BY <1>1, <1>4 DEF SessionInv, Busy
  <2>4. \A d \in Agents : Busy(d)' => sessions'[d] \subseteq checkedOut'[d] \cup {tasks'[d].conv}
    BY <1>1, <1>2, <1>4 DEF SessionInv, Busy
  <2>5. \A b, d \in Agents :
          b # d /\ Busy(b)' /\ tasks'[b].conv \in sessions'[d] => tasks'[b].conv \in Overruns
    BY <1>1, <2>1 DEF SessionInv, SessionsShrink, Busy
  <2>6. OneSessionOwner'
    BY <2>1 DEF SessionInv, SessionsShrink, OneSessionOwner
  <2> QED
    BY <2>1, <2>2, <2>3, <2>4, <2>5, <2>6 DEF SessionInv, SessionsShrink
<1> QED
  BY <1>3, <1>4 DEF CollectRespawn

\* No agent has a session at the start.
LEMMA SessionInit == Init => SessionInv
<1> SUFFICES ASSUME Init PROVE SessionInv
  OBVIOUS
<1>1. \A a \in Agents : ~Busy(a)
  BY DEF Init, Busy, NoTask
<1> QED
  BY <1>1 DEF Init, SessionInv, OneSessionOwner

\* Every step keeps the sessions apart, given the locks.
LEMMA SessionStep == PoolInv /\ LockInv /\ SessionInv /\ [Next]_vars => SessionInv'
<1> SUFFICES ASSUME PoolInv, LockInv, SessionInv, [Next]_vars PROVE SessionInv'
  OBVIOUS
<1> USE DEF queueVars, slotVars, loopVars
<1>0. TasksOK
  BY DEF PoolInv
<1>1. CASE UNCHANGED vars
  BY <1>0, <1>1, IdleSession DEF vars
<1>2. ASSUME NEW e \in Events, NEW x \in BOOLEAN, Ingest(e, x) PROVE SessionInv'
  <2>1. SameTurns
    BY <1>0, <1>2, IngestTurns
  <2>2. UNCHANGED <<idle, sessions, checkedOut>>
    BY <1>2 DEF Ingest
  <2>3. SessionsShrink
    BY <2>2 DEF SessionInv, SessionsShrink
  <2> QED
    BY <2>1, <2>2, <2>3, QuietSession
<1>3. ASSUME NEW e \in Events, NEW edit \in Edits, EditMessage(e, edit) PROVE SessionInv'
  BY <1>0, <1>3, IdleSession DEF EditMessage
<1>4. ASSUME NEW e \in Events, RetryTurn(e) PROVE SessionInv'
  BY <1>0, <1>4, IdleSession DEF RetryTurn
<1>5. ASSUME NEW e, NEW a \in Agents, NEW kind, PanicTurn(a) \/ AnswerSteer(a, e, kind)
      PROVE  SessionInv'
  <2>1. SameTurns
    BY <1>0, <1>5, TaskTurns
  <2>2. UNCHANGED <<idle, sessions, checkedOut>>
    BY <1>5 DEF PanicTurn, AnswerSteer
  <2>3. SessionsShrink
    BY <2>2 DEF SessionInv, SessionsShrink
  <2> QED
    BY <2>1, <2>2, <2>3, QuietSession
<1>6. ASSUME NEW a \in Agents, FinishTurn(a) PROVE SessionInv'
  BY <1>6, FinishSession
<1>7. ASSUME NEW c \in Conversations, NEW s \in OwnerSignals, OwnerControl(c, s) PROVE SessionInv'
  <2>1. SameTurns
    BY <1>0, <1>7, SignalTurns
  <2>2. UNCHANGED <<idle, checkedOut>>
    BY <1>7
    DEF OwnerControl, OwnerCommand, ObserverCancel, ObserverSwitchModel
  <2>3. SessionsShrink
    BY <1>7
    DEF OwnerControl, OwnerCommand, ObserverCancel, ObserverSwitchModel, SessionInv, SessionsShrink, Forget
  <2> QED
    BY <2>1, <2>2, <2>3, QuietSession
<1>8. ASSUME NEW k \in acks, HandleSteerAck(k) PROVE SessionInv'
  <2>1. SameTurns
    BY <1>0, <1>8, SignalTurns
  <2>2. UNCHANGED <<idle, sessions, checkedOut>>
    BY <1>8 DEF HandleSteerAck
  <2>3. SessionsShrink
    BY <2>2 DEF SessionInv, SessionsShrink
  <2> QED
    BY <2>1, <2>2, <2>3, QuietSession
<1>9. ASSUME NEW c \in Conversations, Expire(c) \/ RetryElapses(c) PROVE SessionInv'
  BY <1>0, <1>9, IdleSession DEF Expire, RetryElapses
<1>10. ASSUME NEW c \in Conversations, DispatchBatch(c) PROVE SessionInv'
  BY <1>10, DispatchSession
<1>11. ASSUME NEW ch \in Membership, RemoveChannel(ch) PROVE SessionInv'
  <2>1. SameTurns
    BY <1>0, <1>11, IdleTurns DEF RemoveChannel
  <2>2. UNCHANGED <<idle, checkedOut>>
    BY <1>11 DEF RemoveChannel
  <2>3. SessionsShrink
    BY <1>11 DEF RemoveChannel, SessionInv, SessionsShrink, Forget
  <2> QED
    BY <2>1, <2>2, <2>3, QuietSession
<1>12. ASSUME NEW ch \in Membership, AddChannel(ch) PROVE SessionInv'
  BY <1>0, <1>12, IdleSession DEF AddChannel
<1>13. ASSUME NEW a \in Agents, HandleResult(a) \/ RecoverPanic(a) PROVE SessionInv'
  BY <1>13, EndSession
<1>14. ASSUME NEW a \in Agents, NEW success \in BOOLEAN, CollectRespawn(a, success) PROVE SessionInv'
  BY <1>14, RespawnSession
<1>15. ASSUME NEW a \in Agents, DeadlinePasses(a) \/ CoolDown(a) \/ CrashAges(a) PROVE SessionInv'
  BY <1>0, <1>15, IdleSession DEF DeadlinePasses, CoolDown, CrashAges
<1>16. CASE DispatchDone \/ DrainDone \/ RequeueWaiting \/ Maintain
  BY <1>0, <1>16, IdleSession DEF DispatchDone, DrainDone, RequeueWaiting, Maintain
<1>17. CASE MaintainFlush \/ HeartbeatTick \/ HoldElapses \/ HoldWake
  BY <1>0, <1>17, IdleSession DEF MaintainFlush, HeartbeatTick, HoldElapses, HoldWake
<1>18. CASE HeartbeatFlush
  BY <1>18, HeartbeatSession
<1> QED
  BY <1>1, <1>2, <1>3, <1>4, <1>5, <1>6, <1>7, <1>8, <1>9, <1>10, <1>11, <1>12, <1>13, <1>14, <1>15,
     <1>16, <1>17, <1>18
  DEF Next

-----------------------------------------------------------------------------
(* Membership *)

\* The inductive invariant behind RemovedSessionsStripped.
StripInv ==
  /\ sessions \in [Agents -> SUBSET Conversations]
  /\ RemovedSessionsStripped

\* A step under which no agent returns, no idle agent gains a session and no
\* channel is removed keeps StripInv.
LEMMA QuietStrip ==
  ASSUME StripInv, PoolInv, idle' \subseteq idle, removed' \subseteq removed,
         sessions' \in [Agents -> SUBSET Conversations],
         \A a \in idle : sessions'[a] \subseteq sessions[a]
  PROVE  StripInv'
<1>1. SessionsIn(removed') \subseteq SessionsIn(removed)
  BY DEF SessionsIn
<1>2. RemovedSessionsStripped'
  BY <1>1 DEF StripInv, PoolInv, RemovedSessionsStripped
<1> QED
  BY <1>2 DEF StripInv

\* A step that leaves the idle agents, the sessions and the memberships alone
\* keeps StripInv.
LEMMA IdleStrip ==
  ASSUME StripInv, PoolInv, UNCHANGED <<idle, sessions, removed>>
  PROVE  StripInv'
  BY QuietStrip DEF StripInv

\* At the start no agent has a session and no channel is removed.
LEMMA StripInit == Init => StripInv
  BY DEF Init, StripInv, RemovedSessionsStripped

\* A removal strips the idle agents, and a returning agent is stripped of every
\* channel removed so far.
LEMMA StripStep == PoolInv /\ StripInv /\ [Next]_vars => StripInv'
<1> SUFFICES ASSUME PoolInv, StripInv, [Next]_vars PROVE StripInv'
  OBVIOUS
<1> USE DEF queueVars, poolVars, slotVars, loopVars
<1>1. CASE UNCHANGED vars
  BY <1>1, IdleStrip DEF vars
<1>2. ASSUME NEW e \in Events, NEW x \in BOOLEAN, Ingest(e, x) PROVE StripInv'
  BY <1>2, IdleStrip DEF Ingest
<1>3. ASSUME NEW e \in Events, NEW edit \in Edits, EditMessage(e, edit) PROVE StripInv'
  BY <1>3, IdleStrip DEF EditMessage
<1>4. ASSUME NEW e \in Events, RetryTurn(e) PROVE StripInv'
  BY <1>4, IdleStrip DEF RetryTurn
<1>5. ASSUME NEW e, NEW a \in Agents, NEW kind, PanicTurn(a) \/ AnswerSteer(a, e, kind)
      PROVE  StripInv'
  BY <1>5, IdleStrip DEF PanicTurn, AnswerSteer
<1>6. ASSUME NEW a \in Agents, FinishTurn(a) PROVE StripInv'
  <2>1. PICK end \in IF tasks[a].conv = Heartbeat THEN HeartbeatEnds(sessions[a])
                     ELSE TurnEnds(tasks[a], sessions[a]) :
               sessions' = [sessions EXCEPT ![a] = end.sessions]
    BY <1>6 DEF FinishTurn
  <2>2. /\ end.sessions \subseteq sessions[a] \cup {tasks[a].conv}
        /\ tasks[a].conv = Heartbeat => end.sessions \subseteq sessions[a]
    BY <2>1, TurnEndsSessions
  <2>3. end.sessions \subseteq Conversations
    BY <2>2 DEF StripInv, PoolInv, TasksOK
  <2>4. a \notin idle /\ UNCHANGED <<idle, removed>>
    BY <1>6 DEF FinishTurn, Busy, PoolInv, SlotExclusive
  <2> QED
    BY <2>1, <2>3, <2>4, QuietStrip DEF StripInv, PoolInv
<1>7. ASSUME NEW c \in Conversations, NEW s \in OwnerSignals, OwnerControl(c, s) PROVE StripInv'
  BY <1>7, QuietStrip
  DEF OwnerControl, OwnerCommand, ObserverCancel, ObserverSwitchModel, StripInv, PoolInv, Forget
<1>8. ASSUME NEW k \in acks, HandleSteerAck(k) PROVE StripInv'
  BY <1>8, IdleStrip DEF HandleSteerAck
<1>9. ASSUME NEW c \in Conversations, Expire(c) \/ RetryElapses(c) PROVE StripInv'
  BY <1>9, IdleStrip DEF Expire, RetryElapses
<1>10. ASSUME NEW c \in Conversations, DispatchBatch(c) PROVE StripInv'
  <2>1. UNCHANGED <<sessions, removed>> /\ idle' \subseteq idle
    BY <1>10 DEF DispatchBatch, StartTurn
  <2> QED
    BY <2>1, QuietStrip DEF StripInv
<1>11. ASSUME NEW ch \in Membership, RemoveChannel(ch) PROVE StripInv'
  <2>1. SessionsIn(removed') = SessionsIn(removed) \cup SessionsIn({ch})
    BY <1>11 DEF RemoveChannel, SessionsIn, Forget
  <2>2. /\ sessions' \in [Agents -> SUBSET Conversations]
        /\ idle' = idle
        /\ \A a \in idle : sessions'[a] = sessions[a] \ SessionsIn({ch})
    BY <1>11 DEF RemoveChannel, StripInv, PoolInv, Forget
  <2> QED
    BY <2>1, <2>2 DEF StripInv, RemovedSessionsStripped
<1>12. ASSUME NEW ch \in Membership, AddChannel(ch) PROVE StripInv'
  BY <1>12, QuietStrip DEF AddChannel, StripInv
<1>13. ASSUME NEW a \in Agents, HandleResult(a) \/ RecoverPanic(a) PROVE StripInv'
  <2>1. /\ \/ sessions' = [sessions EXCEPT ![a] = {}] /\ idle' = idle
           \/ sessions' = [sessions EXCEPT ![a] = @ \ SessionsIn(removed)] /\ idle' = idle \cup {a}
        /\ UNCHANGED removed
    BY <1>13 DEF HandleResult, RecoverPanic, Stripped
  <2> QED
    BY <2>1 DEF StripInv, RemovedSessionsStripped, PoolInv
<1>14. ASSUME NEW a \in Agents, NEW success \in BOOLEAN, CollectRespawn(a, success) PROVE StripInv'
  BY <1>14 DEF CollectRespawn, StripInv, RemovedSessionsStripped, PoolInv
<1>15. ASSUME NEW a \in Agents, DeadlinePasses(a) \/ CoolDown(a) \/ CrashAges(a) PROVE StripInv'
  BY <1>15, IdleStrip DEF DeadlinePasses, CoolDown, CrashAges
<1>16. CASE DispatchDone \/ DrainDone \/ RequeueWaiting \/ Maintain
  BY <1>16, IdleStrip DEF DispatchDone, DrainDone, RequeueWaiting, Maintain
<1>17. CASE MaintainFlush \/ HeartbeatTick \/ HoldElapses \/ HoldWake
  BY <1>17, IdleStrip DEF MaintainFlush, HeartbeatTick, HoldElapses, HoldWake
<1>18. CASE HeartbeatFlush
  <2>1. UNCHANGED <<sessions, removed>> /\ idle' \subseteq idle
    BY <1>18 DEF HeartbeatFlush, StartTurn
  <2> QED
    BY <2>1, QuietStrip DEF StripInv
<1> QED
  BY <1>1, <1>2, <1>3, <1>4, <1>5, <1>6, <1>7, <1>8, <1>9, <1>10, <1>11, <1>12, <1>13, <1>14, <1>15,
     <1>16, <1>17, <1>18
  DEF Next

-----------------------------------------------------------------------------
(* The theorems *)

\* Agent slots: never two of idle, running a turn, and being respawned, whatever
\* crashes, panics and refills happen (return_agent, spawn_respawn_task).
THEOREM SlotsApart == Spec => []SlotExclusive
<1>1. PoolInv => SlotExclusive
  BY DEF PoolInv
<1> QED
  BY <1>1, PoolInvariant, PTL

\* The heartbeat flag is exact (dispatch_heartbeat, handle_prompt_result,
\* recover_panicked_agent).
THEOREM HeartbeatExact == Spec => []HeartbeatFlagExact
<1>1. PoolInv => HeartbeatFlagExact
  BY DEF PoolInv
<1> QED
  BY <1>1, PoolInvariant, PTL

\* LockInv is an invariant of the harness.
LEMMA LockInvariant == Spec => []LockInv
<1>1. Init => LockInv
  BY LockInit
<1>2. PoolInv /\ LockInv /\ [Next]_vars => LockInv'
  BY LockStep
<1> QED
  BY <1>1, <1>2, PoolInvariant, PTL DEF Spec

\* A conversation whose turns keep their deadlines has at most one turn or parked
\* batch, whatever expires beside it (flush_next, dispatch_pending, handle_prompt_result).
THEOREM OneTurnPerConversation == Spec => []AtMostOneTurn
<1>1. LockInv => AtMostOneTurn
  BY DEF LockInv
<1> QED
  BY <1>1, LockInvariant, PTL

\* No path leaves the lock of a conversation behind, expiries included, and none
\* loses the lock of a punctual one (mark_complete and its callers, flush_next).
THEOREM LocksExact == Spec => []InFlightExact
<1>1. LockInv => InFlightExact
  BY DEF LockInv
<1> QED
  BY <1>1, LockInvariant, PTL

\* A punctual conversation has its ACP session in at most one agent (try_claim,
\* session_owner_busy).
THEOREM SessionsApart == Spec => []OneSessionOwner
<1>1. Init => SessionInv
  BY SessionInit
<1>2. PoolInv /\ LockInv /\ SessionInv /\ [Next]_vars => SessionInv'
  BY SessionStep
<1>3. SessionInv => OneSessionOwner
  BY DEF SessionInv
<1> QED
  BY <1>1, <1>2, <1>3, PoolInvariant, LockInvariant, PTL DEF Spec

\* An idle agent has no session of a channel the agent was removed from, even if it
\* was out when the removal arrived (member-removed arm, handle_prompt_result).
THEOREM RemovedStripped == Spec => []RemovedSessionsStripped
<1>1. StripInv => RemovedSessionsStripped
  BY DEF StripInv
<1> QED
  BY <1>1, StripInit, StripStep, PoolInvariant, PTL DEF Spec
=============================================================================
