------------------------------- MODULE Harness -------------------------------
(***************************************************************************)
(* The agent harness of crates/buzz-acp: the main loop of lib.rs with its  *)
(* event queue (module EventQueue), its pool of agent processes (pool.rs)  *)
(* and the prompt tasks that run turns concurrently with it.               *)
(*                                                                         *)
(* The main loop alone owns the queue and the pool.  Every arm of its      *)
(* select! is one action taken at pc = "select"; most arms end by calling  *)
(* dispatch_pending, which is the sequence of steps at pc = "dispatch" and *)
(* pc = "requeue", one per iteration, so that tasks and clocks move in     *)
(* between but no other arm does.  Prompt tasks report through a result    *)
(* channel, a JoinSet (panics) and a steer-ack channel; a task and its     *)
(* TaskMeta entry live in tasks[a] until the main loop has handled the     *)
(* result.                                                                 *)
(***************************************************************************)
EXTENDS EventQueue

CONSTANTS
  Agents,        \* slots of the pool
  Handling,      \* MultipleEventHandling: "Queue", "Steer", "Interrupt", "OwnerInterrupt"
  Outcomes,      \* the PromptOutcomes explored
  OwnerSignals,  \* the owner controls explored, a subset of {"Cancel", "Rotate", "SwitchModel"}
  Overruns,      \* conversations whose turns may outlast their in-flight deadline
  Heartbeats,    \* the heartbeat timer is configured
  Edits,         \* the message edits explored, a subset of {"patch", "drop"}
  ManualRetry,   \* the observer's retry control is used
  Membership,    \* channels the agent may be removed from and added to
  CrashLimit,    \* CIRCUIT_BREAKER_THRESHOLD
  MaxPushes      \* bound on accepted pushes, the arrival clock

Heartbeat == "heartbeat"       \* PromptSource::Heartbeat

ReturningOutcomes == {"ok", "workspace_busy", "indeterminate", "app_error", "auth_error", "cancelled"}
FatalOutcomes == {"transport", "exited", "idle_timeout", "hard_timeout", "hard_timeout_active",
                  "drain_timeout"}
Signals   == {"Cancel", "Rotate", "SwitchModel", "Interrupt", "Steer"}
Phases    == {"free", "running", "done", "panicked"}
Controls  == {"closed", "open", "taken"} \cup Signals
AckKinds  == {"success", "release", "fallback"}
LoopSteps == {"select", "drain", "dispatch", "requeue", "maintain", "heartbeat"}

ASSUME HarnessAssumption ==
  /\ Conversations # {}
  /\ Heartbeat \notin Conversations
  /\ Handling \in {"Queue", "Steer", "Interrupt", "OwnerInterrupt"}
  /\ Outcomes \subseteq ReturningOutcomes \cup FatalOutcomes
  /\ OwnerSignals \subseteq {"Cancel", "Rotate", "SwitchModel"}
  /\ Overruns \subseteq Conversations
  /\ Heartbeats \in BOOLEAN /\ ManualRetry \in BOOLEAN
  /\ Edits \subseteq {"patch", "drop"}
  /\ Membership \subseteq Channels
  /\ CrashLimit \in Nat \ {0}
  /\ MaxPushes \in Nat

VARIABLES
  q,            \* the EventQueue
  clock,        \* arrival stamp of the last accepted push
  matured,      \* the youngest stamp past the dispatch hold
  idle,         \* slots whose agent sits in the pool: agents[a].is_some()
  sessions,     \* conversations agent a has an ACP session for
  checkedOut,   \* checked_out_sessions: the sessions of a when it was claimed
  tasks,        \* the prompt task of slot a and its TaskMeta
  circuits,     \* crash_history[a]
  respawning,   \* slots with respawn_in_flight
  acks,         \* steer acks on their way to the main loop
  removed,      \* removed_channels
  heartbeatInFlight,
  pc,           \* where the main loop is
  waiting       \* waiting_for_owner, local to dispatch_pending

queueVars == <<q, clock, matured>>
poolVars  == <<idle, sessions, checkedOut, tasks>>
slotVars  == <<circuits, respawning>>
loopVars  == <<pc, waiting>>
vars == <<queueVars, poolVars, slotVars, acks, removed, heartbeatInFlight, loopVars>>

NoBatch(c) == [channel_id |-> c, events |-> <<>>, cancelled_events |-> <<>>, cancel_reason |-> "none"]
Blank      == CHOOSE c \in Conversations : TRUE
NoTask     == [phase |-> "free", conv |-> Heartbeat, batch |-> NoBatch(Blank), control |-> "closed",
               steers |-> {}, outcome |-> "none", returned |-> FALSE]

Init ==
  /\ q = NewQueue
  /\ clock = 0
  /\ matured = 0
  /\ idle = Agents
  /\ sessions = [a \in Agents |-> {}]
  /\ checkedOut = [a \in Agents |-> {}]
  /\ tasks = [a \in Agents |-> NoTask]
  /\ circuits = [a \in Agents |-> [crashes |-> 0, state |-> "closed"]]
  /\ respawning = {}
  /\ acks = {}
  /\ removed = {}
  /\ heartbeatInFlight = FALSE
  /\ pc = "select"
  /\ waiting = <<>>

-----------------------------------------------------------------------------
(* The pool *)

Busy(a)    == tasks[a].phase # "free"
TurnsOf(c) == {a \in Agents : Busy(a) /\ tasks[a].conv = c}

\* Mutation: the owner is looked for among the idle agents.
SessionOwnerIdle(c) == \E a \in idle : c \in checkedOut[a] /\ Busy(a)

\* session_owner_busy
SessionOwnerBusy(c) == \E a \in Agents : c \in checkedOut[a] /\ a \notin idle /\ Busy(a)

\* try_claim prefers the agent that has the conversation's session.  The code
\* takes the lowest such slot; slots are interchangeable, so any of them is.
ClaimChoices(c) ==
  IF \E a \in idle : c \in sessions[a] THEN {a \in idle : c \in sessions[a]} ELSE idle

\* take_slot and the spawn of the prompt task on it.
StartTurn(a, c, b, control) ==
  /\ idle' = idle \ {a}
  /\ checkedOut' = [checkedOut EXCEPT ![a] = sessions[a]]
  /\ tasks' = [tasks EXCEPT ![a] = [NoTask EXCEPT !.phase = "running", !.conv = c, !.batch = b,
                                                  !.control = control]]
  /\ UNCHANGED sessions

\* The sessions of channels chs, as SessionState::invalidate_routing_channel drops them.
SessionsIn(chs) == {c \in Conversations : Routing[c] \in chs}

\* The sessions once the agents in as have dropped those of conversations cs.
Forget(as, cs) == [a \in Agents |-> IF a \in as THEN sessions[a] \ cs ELSE sessions[a]]

\* record_crash: the circuit after a crash, and whether a respawn is spawned.
RecordCrash(k) ==
  CASE k.state = "cooled" -> [crashes |-> CrashLimit - 1, state |-> "closed"]
    [] k.state = "open"   -> k
    [] OTHER -> IF k.crashes + 1 >= CrashLimit
                THEN [crashes |-> CrashLimit, state |-> "open"]
                ELSE [crashes |-> k.crashes + 1, state |-> "closed"]

CrashSlot(a) ==
  /\ circuits' = [circuits EXCEPT ![a] = RecordCrash(@)]
  /\ respawning' = IF RecordCrash(circuits[a]).state = "open" THEN respawning
                   ELSE respawning \cup {a}

-----------------------------------------------------------------------------
(* Signals to running turns *)

\* signal_in_flight_task: the conversation's own turn, otherwise the only turn
\* of the routing channel; none when that is ambiguous.
SignalTargets(c, ch) ==
  LET routed == {a \in Agents : Busy(a) /\ tasks[a].conv # Heartbeat /\ Routing[tasks[a].conv] = ch}
  IN  IF TurnsOf(c) # {} THEN TurnsOf(c)
      ELSE IF Cardinality(routed) = 1 THEN routed ELSE {}

\* The oneshot is taken once; a turn that has ended no longer listens.
Signalled(t, s) ==
  [t EXCEPT !.control = IF @ # "open" THEN @ ELSE IF t.phase = "running" THEN s ELSE "taken"]

SendSignal(targets, s) ==
  \/ targets = {} /\ UNCHANGED tasks
  \/ \E a \in targets : tasks' = [tasks EXCEPT ![a] = Signalled(@, s)]

\* The turn's control receiver accepted the signal.
Fired(s) == \E a \in Agents : tasks[a].control = "open" /\ tasks'[a].control = s

-----------------------------------------------------------------------------
(* Relay events (the relay arm of the main loop) *)

\* try_native_steer for the freshly pushed event e: withheld when the turn's
\* capacity-1 steer channel takes it (one more request may be in the write),
\* left in the queue when it does not.
NativeSteer(pushed, c, e) ==
  \/ \E a \in TurnsOf(c) :
       /\ tasks[a].phase = "running"
       /\ Cardinality(tasks[a].steers) < 2
       /\ tasks' = [tasks EXCEPT ![a].steers = @ \cup {e}]
       /\ q' = MarkNativeSteerPending(pushed, c, e)
  \/ /\ \A a \in TurnsOf(c) : tasks[a].phase # "running" \/ tasks[a].steers # {}
     /\ q' = pushed
     /\ UNCHANGED tasks

\* ingress.push, steer_or_interrupt, then dispatch_pending.
Ingest(e, exempt) ==
  LET c      == ConvOf[e]
      pushed == Push(q, e, clock + 1, exempt, FALSE)
      midTurn == c \in q.in_flight_channels
  IN  /\ pc = "select"
      /\ clock < MaxPushes
      /\ \/ /\ ~PushAccepts(q, e)
            /\ UNCHANGED <<q, clock, tasks>>
         \/ /\ PushAccepts(q, e)
            /\ clock' = clock + 1
            /\ \/ /\ ~midTurn \/ Handling \in {"Queue", "OwnerInterrupt"}
                  /\ q' = pushed
                  /\ UNCHANGED tasks
               \/ /\ midTurn /\ Handling \in {"Interrupt", "OwnerInterrupt"}
                  /\ q' = pushed
                  /\ SendSignal(SignalTargets(c, Routing[c]), "Interrupt")
               \/ /\ midTurn /\ Handling = "Steer"
                  /\ NativeSteer(pushed, c, e)
      /\ pc' = "dispatch"
      /\ UNCHANGED <<matured, idle, sessions, checkedOut, slotVars, acks, removed,
                     heartbeatInFlight, waiting>>

\* handle_queued_message_edit: patch the queued event, or drop it when the
\* edit removes this agent's mention.  Nothing is dispatched.
EditMessage(e, edit) ==
  /\ pc = "select"
  /\ q' = IF edit = "drop" THEN RemoveEventById(q, e) ELSE PatchEvent(q, e)
  /\ UNCHANGED <<clock, matured, poolVars, slotVars, acks, removed, heartbeatInFlight, loopVars>>

\* retry_turn::handle on one event, from the observer-control arm.  Nothing is
\* dispatched: the next arm that flushes runs the work again.
RetryTurn(e) ==
  LET c  == ConvOf[e]
      q1 == ClearRetryAfter(q, c)
  IN  /\ ManualRetry
      /\ pc = "select"
      /\ clock < MaxPushes
      /\ c \notin q.in_flight_channels
      /\ TurnsOf(c) = {}
      /\ IF PushAccepts(q1, e)
         THEN q' = Push(q1, e, clock + 1, TRUE, FALSE) /\ clock' = clock + 1
         ELSE q' = q1 /\ UNCHANGED clock
      /\ UNCHANGED <<matured, poolVars, slotVars, acks, removed, heartbeatInFlight, loopVars>>

\* The owner's !cancel and !rotate.  A rotation that reaches no turn makes the
\* idle agents forget the sessions of the channel.
OwnerCommand(c, s) ==
  /\ pc = "select"
  /\ s \in {"Cancel", "Rotate"}
  /\ SendSignal(SignalTargets(c, Routing[c]), s)
  /\ sessions' = IF s = "Rotate" /\ ~Fired(s) THEN Forget(idle, SessionsIn({Routing[c]})) ELSE sessions
  /\ UNCHANGED <<queueVars, idle, checkedOut, slotVars, acks, removed, heartbeatInFlight, loopVars>>

\* The observer's cancel_turn: one exact turn, or the conversation, whose queued
\* events are drained when no turn takes the signal.
ObserverCancel(c) ==
  /\ pc = "select"
  /\ \/ TurnsOf(c) # {} /\ SendSignal(TurnsOf(c), "Cancel") /\ UNCHANGED q
     \/ /\ SendSignal(SignalTargets(c, Routing[c]), "Cancel")
        /\ q' = IF Fired("Cancel") THEN q ELSE DrainChannels(q, {c})
  /\ UNCHANGED <<clock, matured, idle, sessions, checkedOut, slotVars, acks, removed,
                 heartbeatInFlight, loopVars>>

\* The observer's switch_model: signal the turn, or make one idle agent forget the
\* conversation's session (the channel's, when the request names no conversation).
ObserverSwitchModel(c) ==
  LET SwitchIdle(cs) == \E a \in idle : /\ sessions[a] \cap cs # {}
                                        /\ sessions' = Forget({a}, cs)
                                        /\ UNCHANGED tasks
  IN  /\ pc = "select"
      /\ \/ TurnsOf(c) # {} /\ SendSignal(TurnsOf(c), "SwitchModel") /\ UNCHANGED sessions
         \/ TurnsOf(c) = {} /\ SwitchIdle({c})
         \/ SwitchIdle(SessionsIn({Routing[c]}))
      /\ UNCHANGED <<queueVars, idle, checkedOut, slotVars, acks, removed, heartbeatInFlight, loopVars>>

OwnerControl(c, s) ==
  \/ OwnerCommand(c, s)
  \/ s = "Cancel" /\ ObserverCancel(c)
  \/ s = "SwitchModel" /\ ObserverSwitchModel(c)

\* The member-removed notification.
RemoveChannel(ch) ==
  /\ pc = "select"
  /\ q' = DrainChannels(q, RoutedWork(q, ch))
  /\ sessions' = Forget(idle, SessionsIn({ch}))
  /\ removed' = removed \cup {ch}
  /\ UNCHANGED <<clock, matured, idle, checkedOut, tasks, slotVars, acks, heartbeatInFlight,
                 loopVars>>

\* The member-added notification.
AddChannel(ch) ==
  /\ pc = "select"
  /\ ch \in removed
  /\ removed' = removed \ {ch}
  /\ UNCHANGED <<queueVars, poolVars, slotVars, acks, heartbeatInFlight, loopVars>>

-----------------------------------------------------------------------------
(* The prompt task *)

\* One way a turn may end: the outcome, whether the result carries the batch back
\* and with which cancel reason, and the agent's sessions afterwards.
End(outcome, back, reason, sess) ==
  [outcome |-> outcome, returned |-> back, reason |-> reason, sessions |-> sess]

\* requeue_batch_if_queue
KeepsBatch == DedupMode = "Queue"

\* The turn never gets a workspace: it is refused, its project is undecided, its
\* checkout is leased (the batch comes back in either dedup mode) or failed.
SetupEnds(t, S) ==
  LET reason   == t.batch.cancel_reason
      Sessions == {S, S \ {t.conv}}
  IN  {End("ok", FALSE, reason, sess) : sess \in Sessions}
      \cup {End("indeterminate", KeepsBatch, reason, S)}
      \cup {End("workspace_busy", TRUE, reason, sess) : sess \in Sessions}
      \cup {End("app_error", KeepsBatch, reason, sess) : sess \in Sessions}

\* It gets no session, or the session's first message fails.
SessionEnds(t, S) ==
  LET reason == t.batch.cancel_reason
  IN  {End(o, KeepsBatch, reason, sess) :
         o \in {"app_error", "auth_error"}, sess \in {S, S \cup {t.conv}, S \ {t.conv}}}
      \cup {End(o, KeepsBatch, reason, {}) :
              o \in {"transport", "exited", "idle_timeout", "hard_timeout", "hard_timeout_active"}}

\* The prompt itself returns; the session may have been rotated or invalidated.
PromptEnds(t, S) ==
  LET reason   == t.batch.cancel_reason
      Sessions == {S \cup {t.conv}, S \ {t.conv}}
  IN  {End("ok", FALSE, reason, sess) : sess \in Sessions}
      \cup {End(o, KeepsBatch, reason, sess) : o \in {"app_error", "auth_error"}, sess \in Sessions}
      \cup {End(o, KeepsBatch, reason, {}) :
              o \in {"transport", "exited", "idle_timeout", "hard_timeout", "hard_timeout_active"}}

\* A control signal cancels the prompt (requeue_cancelled_batch,
\* classify_control_cancel_failure): Cancel and Rotate drop the batch.
StopEnds(t, S) ==
  LET kept   == KeepsBatch /\ t.control \notin {"Cancel", "Rotate"}
      reason == IF t.control = "Steer" THEN "Steer" ELSE "Interrupt"
  IN  IF t.control \notin Signals THEN {}
      ELSE {End(o, kept, reason, S \ {t.conv}) : o \in {"cancelled", "app_error", "auth_error"}}
           \cup {End(o, kept, reason, {}) :
                   o \in {"drain_timeout", "exited", "idle_timeout", "transport"}}

\* How a turn on batch t.batch may end.
TurnEnds(t, S) ==
  SetupEnds(t, S) \cup SessionEnds(t, S) \cup PromptEnds(t, S) \cup StopEnds(t, S)

\* A heartbeat carries no batch and takes no signal.
HeartbeatEnds(S) ==
  {[outcome |-> o, returned |-> FALSE, reason |-> "none",
    sessions |-> IF o \in FatalOutcomes THEN {} ELSE S] :
     o \in {"ok", "app_error"} \cup (FatalOutcomes \ {"drain_timeout"})}

\* Mutation: a dying turn forgets its steer requests.
NoNeutral(a) == {}

\* The steer requests a dying turn leaves behind are acked neutrally, by the
\* read loop or by the watcher when the request is dropped.
Neutral(a) ==
  {[channel_id |-> tasks[a].conv, event_id |-> e, kind |-> "release"] : e \in tasks[a].steers}

Ended(t, end) ==
  [t EXCEPT !.phase = "done", !.outcome = end.outcome, !.returned = end.returned, !.steers = {},
            !.batch.cancel_reason = end.reason]

\* send_prompt_result
FinishTurn(a) ==
  /\ tasks[a].phase = "running"
  /\ \E end \in IF tasks[a].conv = Heartbeat THEN HeartbeatEnds(sessions[a])
                 ELSE TurnEnds(tasks[a], sessions[a]) :
       /\ end.outcome \in Outcomes
       /\ tasks' = [tasks EXCEPT ![a] = Ended(@, end)]
       /\ sessions' = [sessions EXCEPT ![a] = end.sessions]
  /\ acks' = acks \cup Neutral(a)
  /\ UNCHANGED <<queueVars, idle, checkedOut, slotVars, removed, heartbeatInFlight, loopVars>>

\* The task panics: no result, its agent and the agent's sessions are gone.
PanicTurn(a) ==
  /\ "exited" \in Outcomes
  /\ tasks[a].phase = "running"
  /\ tasks' = [tasks EXCEPT ![a].phase = "panicked", ![a].steers = {}]
  /\ acks' = acks \cup Neutral(a)
  /\ UNCHANGED <<queueVars, idle, sessions, checkedOut, slotVars, removed, heartbeatInFlight, loopVars>>

\* The read loop resolves one steer request.
AnswerSteer(a, e, kind) ==
  /\ tasks[a].phase = "running"
  /\ e \in tasks[a].steers
  /\ tasks' = [tasks EXCEPT ![a].steers = @ \ {e}]
  /\ acks' = acks \cup {[channel_id |-> tasks[a].conv, event_id |-> e, kind |-> kind]}
  /\ UNCHANGED <<queueVars, idle, sessions, checkedOut, slotVars, removed, heartbeatInFlight,
                 loopVars>>

-----------------------------------------------------------------------------
(* dispatch_pending *)

NoneExpired == \A c \in Conversations : q.in_flight_deadlines[c] # "passed"

\* The expiry sweep that opens flush_next and has_flushable_work.
Expire(c) ==
  /\ pc \in {"dispatch", "maintain", "heartbeat"}
  /\ q.in_flight_deadlines[c] = "passed"
  /\ q' = ExpireInFlight(q, c)
  /\ UNCHANGED <<clock, matured, poolVars, slotVars, acks, removed, heartbeatInFlight, loopVars>>

\* One iteration that flushed conversation c: park the batch while the agent
\* with its session is out, start the turn, or give up for want of an agent.
DispatchBatch(c) ==
  /\ pc = "dispatch"
  /\ NoneExpired
  /\ c \in FlushChoices(q, matured)
  /\ \E b \in {BatchFor(q, matured, c)}, flushed \in {Flushed(q, matured, c)} :
       \/ /\ SessionOwnerBusy(c)
          /\ q' = flushed
          /\ waiting' = Append(waiting, b)
          /\ UNCHANGED <<poolVars, pc>>
       \/ /\ ~SessionOwnerBusy(c)
          /\ q' = flushed
          /\ \E a \in ClaimChoices(c) : StartTurn(a, c, b, "open")
          /\ UNCHANGED loopVars
       \/ /\ ~SessionOwnerBusy(c)
          /\ idle = {}
          /\ q' = MarkComplete(RequeuePreserveTimestamps(flushed, b), c)
          /\ pc' = "requeue"
          /\ UNCHANGED <<poolVars, waiting>>
  /\ UNCHANGED <<clock, matured, slotVars, acks, removed, heartbeatInFlight>>

\* flush_next returned None.
DispatchDone ==
  /\ pc = "dispatch"
  /\ NoneExpired
  /\ FlushChoices(q, matured) = {}
  /\ pc' = "requeue"
  /\ UNCHANGED <<queueVars, poolVars, slotVars, acks, removed, heartbeatInFlight, waiting>>

\* The loop over waiting_for_owner after the dispatch loop.
RequeueWaiting ==
  /\ pc = "requeue"
  /\ IF waiting = <<>>
     THEN pc' = "select" /\ UNCHANGED <<q, waiting>>
     ELSE LET b == Head(waiting)
          IN  /\ q' = MarkComplete(RequeuePreserveTimestamps(q, b), b.channel_id)
              /\ waiting' = Tail(waiting)
              /\ UNCHANGED pc
  /\ UNCHANGED <<clock, matured, poolVars, slotVars, acks, removed, heartbeatInFlight>>

-----------------------------------------------------------------------------
(* Results, panics and steer acks *)

\* What handle_prompt_result does with the batch a result carries.
RequeueResult(t) ==
  LET b == t.batch
  IN  IF ~t.returned \/ Routing[t.conv] \in removed THEN q
      ELSE CASE t.outcome \in {"cancelled", "drain_timeout"} ->
                  RequeueAsCancelled(q, b, IF b.cancel_reason = "none" THEN "Steer" ELSE b.cancel_reason)
             [] t.outcome \in {"hard_timeout", "auth_error"} -> q
             [] t.outcome = "workspace_busy" -> Requeue(TakeBusyNotice(q, t.conv), b)
             [] OTHER -> Requeue(q, b)

\* Mutation: the heartbeat flag is left set.
CompleteEventsOnly(conv, requeued) ==
  /\ q' = IF conv = Heartbeat THEN q ELSE MarkComplete(requeued, conv)
  /\ UNCHANGED heartbeatInFlight

\* mark_complete, or the heartbeat flag when the source was a heartbeat.
Complete(conv, requeued) ==
  IF conv = Heartbeat
  THEN q' = q /\ heartbeatInFlight' = FALSE
  ELSE q' = MarkComplete(requeued, conv) /\ UNCHANGED heartbeatInFlight

\* Mutation: a returning agent keeps all its sessions.
KeepSessions(S) == S

\* The sessions a returning agent keeps.
Stripped(S) == S \ SessionsIn(removed)

\* handle_prompt_result: requeue, complete, then give the agent back without
\* the sessions of removed channels, or respawn it.
HandleResult(a) ==
  LET t == tasks[a]
  IN  /\ pc = "select"
      /\ t.phase = "done"
      /\ Complete(t.conv, IF t.conv = Heartbeat THEN q ELSE RequeueResult(t))
      /\ tasks' = [tasks EXCEPT ![a] = NoTask]
      /\ IF t.outcome \in ReturningOutcomes
         THEN /\ idle' = idle \cup {a}
              /\ sessions' = [sessions EXCEPT ![a] = Stripped(@)]
              /\ checkedOut' = [checkedOut EXCEPT ![a] = {}]
              /\ UNCHANGED slotVars
         ELSE /\ sessions' = [sessions EXCEPT ![a] = {}]
              /\ CrashSlot(a)
              /\ UNCHANGED <<idle, checkedOut>>
      /\ pc' = "drain"
      /\ UNCHANGED <<clock, matured, acks, removed, waiting>>

\* recover_panicked_agent, from its own arm or from drain_ready_join_results.
RecoverPanic(a) ==
  LET t == tasks[a]
      recoverable == DedupMode = "Queue" /\ t.conv # Heartbeat
  IN  /\ pc \in {"select", "drain"}
      /\ t.phase = "panicked"
      /\ Complete(t.conv, IF recoverable /\ Routing[t.conv] \notin removed
                          THEN Requeue(q, t.batch) ELSE q)
      /\ tasks' = [tasks EXCEPT ![a] = NoTask]
      /\ sessions' = [sessions EXCEPT ![a] = {}]
      /\ CrashSlot(a)
      /\ pc' = IF pc = "select" THEN "dispatch" ELSE "drain"
      /\ UNCHANGED <<clock, matured, idle, checkedOut, acks, removed, waiting>>

\* drain_ready_join_results finds no further panic ready.
DrainDone ==
  /\ pc = "drain"
  /\ pc' = "dispatch"
  /\ UNCHANGED <<queueVars, poolVars, slotVars, acks, removed, heartbeatInFlight, waiting>>

\* The steer-ack arm, by steer_ack_disposition.
HandleSteerAck(k) ==
  LET c == k.channel_id
  IN  /\ pc = "select"
      /\ acks' = acks \ {k}
      /\ q' = IF k.kind = "success"
              THEN RemoveEvent(ExtendInFlightDeadline(q, c), c, k.event_id)
              ELSE ReleaseNativeSteer(q, c, k.event_id)
      /\ IF k.kind = "fallback" THEN SendSignal(TurnsOf(c), "Steer") ELSE UNCHANGED tasks
      /\ pc' = "dispatch"
      /\ UNCHANGED <<clock, matured, idle, sessions, checkedOut, slotVars, removed,
                     heartbeatInFlight, waiting>>

-----------------------------------------------------------------------------
(* Maintenance, respawns and the heartbeat *)

\* Mutations: an agent that is out counts as dead; dead slots are not refilled.
RefillableBusyToo(a) == a \notin idle \cup respawning /\ circuits[a].state # "open"
RefillableNever(a)   == FALSE

\* slot_alive and can_refill.
Refillable(a) ==
  /\ a \notin idle /\ ~Busy(a)
  /\ a \notin respawning
  /\ circuits[a].state # "open"

\* The maintenance tick: compact the queue, refill dead slots whose circuit
\* allows it, then dispatch if something can be flushed.
Maintain ==
  LET refill == {a \in Agents : Refillable(a)}
  IN  /\ pc = "select"
      /\ q' = CompactExpiredState(q)
      /\ respawning' = respawning \cup refill
      /\ circuits' = [a \in Agents |->
                        IF a \in refill /\ circuits[a].state = "cooled"
                        THEN [crashes |-> CrashLimit - 1, state |-> "closed"] ELSE circuits[a]]
      /\ pc' = "maintain"
      /\ UNCHANGED <<clock, matured, poolVars, acks, removed, heartbeatInFlight, waiting>>

MaintainFlush ==
  /\ pc = "maintain"
  /\ NoneExpired
  /\ pc' = IF HasFlushableWork(q, matured) THEN "dispatch" ELSE "select"
  /\ UNCHANGED <<queueVars, poolVars, slotVars, acks, removed, heartbeatInFlight, waiting>>

\* A respawn ends and the main loop collects it: a fresh agent, or an open circuit.
CollectRespawn(a, success) ==
  /\ pc = "select"
  /\ a \in respawning
  /\ respawning' = respawning \ {a}
  /\ IF success
     THEN /\ idle' = idle \cup {a}
          /\ sessions' = [sessions EXCEPT ![a] = {}]
          /\ checkedOut' = [checkedOut EXCEPT ![a] = {}]
          /\ pc' = "dispatch"
          /\ UNCHANGED circuits
     ELSE /\ circuits' = [circuits EXCEPT ![a].state = "open"]
          /\ UNCHANGED <<idle, sessions, checkedOut, pc>>
  /\ UNCHANGED <<queueVars, tasks, acks, removed, heartbeatInFlight, waiting>>

HeartbeatTick ==
  /\ Heartbeats
  /\ pc = "select"
  /\ pc' = "heartbeat"
  /\ UNCHANGED <<queueVars, poolVars, slotVars, acks, removed, heartbeatInFlight, waiting>>

\* Events first; otherwise dispatch_heartbeat on an idle agent.
HeartbeatFlush ==
  /\ pc = "heartbeat"
  /\ NoneExpired
  /\ \/ /\ HasFlushableWork(q, matured)
        /\ pc' = "dispatch"
        /\ UNCHANGED <<poolVars, heartbeatInFlight>>
     \/ /\ ~HasFlushableWork(q, matured)
        /\ ~heartbeatInFlight
        /\ \E a \in idle : StartTurn(a, Heartbeat, NoBatch(Blank), "closed")
        /\ heartbeatInFlight' = TRUE
        /\ pc' = "select"
     \/ /\ ~HasFlushableWork(q, matured)
        /\ heartbeatInFlight \/ idle = {}
        /\ pc' = "select"
        /\ UNCHANGED <<poolVars, heartbeatInFlight>>
  /\ UNCHANGED <<queueVars, slotVars, acks, removed, waiting>>

-----------------------------------------------------------------------------
(* The passage of time *)

RetryElapses(c) ==
  /\ q.retry_after[c] = "pending"
  /\ q' = [q EXCEPT !.retry_after[c] = "elapsed"]
  /\ UNCHANGED <<clock, matured, poolVars, slotVars, acks, removed, heartbeatInFlight, loopVars>>

HoldElapses ==
  /\ HoldEnabled
  /\ matured < clock
  /\ matured' = matured + 1
  /\ UNCHANGED <<q, clock, poolVars, slotVars, acks, removed, heartbeatInFlight, loopVars>>

\* The hold of the oldest held head runs out and wakes the main loop.
HoldWake ==
  /\ pc = "select"
  /\ matured + 1 \in HeldHeads(q, matured)
  /\ matured' = matured + 1
  /\ pc' = "dispatch"
  /\ UNCHANGED <<q, clock, poolVars, slotVars, acks, removed, heartbeatInFlight, waiting>>

\* The in-flight deadline is max_turn_duration and a margin of 100 s after the
\* flush.  The hard cap of max_turn_duration does not keep every turn within it: it
\* bounds one session/prompt, and a new session's initial message is a prompt of its
\* own; session/load and session/new come before it, with 90 s each; and it starts
\* again when a user has answered an elicitation.  Which conversations meet this is
\* Overruns; the result of an overrunning turn may also be waiting to be handled.
DeadlinePasses(a) ==
  /\ Busy(a) /\ tasks[a].conv \in Overruns
  /\ q.in_flight_deadlines[tasks[a].conv] = "running"
  /\ q' = [q EXCEPT !.in_flight_deadlines[tasks[a].conv] = "passed"]
  /\ UNCHANGED <<clock, matured, poolVars, slotVars, acks, removed, heartbeatInFlight, loopVars>>

CoolDown(a) ==
  /\ circuits[a].state = "open"
  /\ circuits' = [circuits EXCEPT ![a].state = "cooled"]
  /\ UNCHANGED <<queueVars, poolVars, respawning, acks, removed, heartbeatInFlight, loopVars>>

\* Crashes older than CIRCUIT_BREAKER_WINDOW no longer count.
CrashAges(a) ==
  /\ circuits[a].state = "closed" /\ circuits[a].crashes > 0
  /\ circuits' = [circuits EXCEPT ![a].crashes = @ - 1]
  /\ UNCHANGED <<queueVars, poolVars, respawning, acks, removed, heartbeatInFlight, loopVars>>

-----------------------------------------------------------------------------
(* The specification *)

Next ==
  \/ \E e \in Events :
       \/ \E exempt \in (IF HoldEnabled THEN BOOLEAN ELSE {FALSE}) : Ingest(e, exempt)
       \/ \E edit \in Edits : EditMessage(e, edit)
       \/ RetryTurn(e)
       \/ \E a \in Agents, kind \in AckKinds : AnswerSteer(a, e, kind)
  \/ \E c \in Conversations :
       \/ \E s \in OwnerSignals : OwnerControl(c, s)
       \/ Expire(c)
       \/ DispatchBatch(c)
       \/ RetryElapses(c)
  \/ \E ch \in Membership : RemoveChannel(ch) \/ AddChannel(ch)
  \/ \E a \in Agents :
       \/ FinishTurn(a)
       \/ PanicTurn(a)
       \/ HandleResult(a)
       \/ RecoverPanic(a)
       \/ \E success \in BOOLEAN : CollectRespawn(a, success)
       \/ DeadlinePasses(a)
       \/ CoolDown(a)
       \/ CrashAges(a)
  \/ \E k \in acks : HandleSteerAck(k)
  \/ DispatchDone
  \/ RequeueWaiting
  \/ DrainDone
  \/ Maintain
  \/ MaintainFlush
  \/ HeartbeatTick
  \/ HeartbeatFlush
  \/ HoldElapses
  \/ HoldWake

Spec == Init /\ [][Next]_vars

\* What the runtime guarantees: a step of the main loop that has begun goes on;
\* results, panics, acks and respawns are not starved (they are the first arms of
\* the biased select, or come before it); a turn ends, each of its prompts at the
\* latest by its hard cap; timers run.  Maintenance and the collection of respawns
\* open every iteration of the loop and have no timer of their own: the typing and
\* presence timers, which are on by default, keep the iterations coming.  Nothing is
\* assumed about how turns end, and a respawn retried for ever succeeds at last.
Fairness ==
  /\ WF_vars(DispatchDone \/ RequeueWaiting \/ DrainDone \/ MaintainFlush \/ HeartbeatFlush)
  /\ \A c \in Conversations : WF_vars(Expire(c)) /\ WF_vars(DispatchBatch(c)) /\ WF_vars(RetryElapses(c))
  /\ \A a \in Agents : /\ WF_vars(FinishTurn(a))
                       /\ SF_vars(HandleResult(a))
                       /\ SF_vars(RecoverPanic(a))
                       /\ SF_vars(CollectRespawn(a, TRUE))
                       /\ WF_vars(CoolDown(a))
  /\ SF_vars(\E k \in acks : HandleSteerAck(k))
  /\ SF_vars(Maintain)
  /\ WF_vars(HoldElapses)

FairSpec == Spec /\ Fairness

-----------------------------------------------------------------------------
(* Invariants *)

TaskType ==
  [phase : Phases, conv : Conversations \cup {Heartbeat}, batch : FlushBatch, control : Controls,
   steers : SUBSET Events, outcome : ReturningOutcomes \cup FatalOutcomes \cup {"none"},
   returned : BOOLEAN]

QueueType(k) ==
  /\ DOMAIN k = QueueFields
  /\ k.queues \in [Conversations -> Seq(Entry)]
  /\ k.in_flight_channels \subseteq Conversations
  /\ k.in_flight_deadlines \in [Conversations -> Deadlines]
  /\ k.in_flight_event_ids \in [Conversations -> SUBSET Events]
  /\ k.retry_after \in [Conversations -> Throttles]
  /\ k.retry_counts \in [Conversations -> 0 .. MaxRetries]
  /\ k.busy_notice_sent \subseteq Conversations
  /\ k.cancelled_batches \in [Conversations -> Seq(Entry)]
  /\ k.cancel_reasons \in [Conversations -> CancelReasons \cup {"none"}]
  /\ k.withheld_native_steer \in [Conversations -> Seq(Entry)]
  /\ k.evicted \subseteq Events

\* Every variable has its type; the retry counter never exceeds MAX_RETRIES.
TypeOK ==
  /\ QueueType(q)
  /\ clock \in Nat /\ matured \in 0 .. clock
  /\ idle \subseteq Agents
  /\ sessions \in [Agents -> SUBSET Conversations]
  /\ checkedOut \in [Agents -> SUBSET Conversations]
  /\ tasks \in [Agents -> TaskType]
  /\ circuits \in [Agents -> [crashes : 0 .. CrashLimit, state : {"closed", "open", "cooled"}]]
  /\ respawning \subseteq Agents
  /\ acks \subseteq [channel_id : Conversations, event_id : Events, kind : AckKinds]
  /\ removed \subseteq Channels
  /\ heartbeatInFlight \in BOOLEAN
  /\ pc \in LoopSteps
  /\ waiting \in Seq(FlushBatch)

\* Conversations whose turns all end, and are handled, before their deadline.
Punctual == Conversations \ Overruns

\* Each punctual conversation has at most one prompt in flight, and so has the
\* heartbeat: no two prompt tasks, no two parked batches, and no task and parked
\* batch serve it together, whatever expires in the conversations beside it.
AtMostOneTurn ==
  /\ \A a, b \in Agents :
       Busy(a) /\ Busy(b) /\ tasks[a].conv = tasks[b].conv => a = b \/ tasks[a].conv \in Overruns
  /\ \A i, j \in DOMAIN waiting :
       waiting[i].channel_id = waiting[j].channel_id => i = j \/ waiting[i].channel_id \in Overruns
  /\ \A a \in Agents, i \in DOMAIN waiting :
       Busy(a) /\ tasks[a].conv = waiting[i].channel_id => tasks[a].conv \in Overruns

\* "Each channel has at most one prompt in flight" (crates/buzz-acp/README.md),
\* with no exception for a turn that outlasts its deadline.
OnePromptInFlight ==
  \A a, b \in Agents : Busy(a) /\ Busy(b) /\ tasks[a].conv = tasks[b].conv => a = b

\* A task or the dispatch loop holds a batch of conversation c.
Holding(c) == TurnsOf(c) # {} \/ \E i \in DOMAIN waiting : waiting[i].channel_id = c

\* A conversation is marked in flight only while a task or the dispatch loop holds
\* its batch, so no early return, requeue, crash, panic or expiry leaves it locked
\* for ever; and a punctual one is marked all that time, so nothing, another
\* conversation's expiry included, unlocks it under a running turn.
InFlightExact ==
  /\ \A c \in q.in_flight_channels : Holding(c)
  /\ \A c \in Punctual : Holding(c) => c \in q.in_flight_channels

\* Where event e is: queue positions, batches and withheld steers.
Copies(e) ==
  LET c == ConvOf[e]
      At(s) == {i \in DOMAIN s : s[i].id = e}
      InBatch(b) == Cardinality(At(b.events)) + Cardinality(At(b.cancelled_events))
      out == {a \in Agents : Busy(a) /\ e \in BatchIds(tasks[a].batch)}
      parked == {i \in DOMAIN waiting : e \in BatchIds(waiting[i])}
  IN  /\ Cardinality(At(q.queues[c])) + Cardinality(At(q.cancelled_batches[c]))
           + Cardinality(At(q.withheld_native_steer[c]))
           + Cardinality(out) + Cardinality(parked) <= 1
      /\ \A a \in out : InBatch(tasks[a].batch) = 1
      /\ \A i \in parked : InBatch(waiting[i]) = 1

\* However the relay redelivers it and however turns are cancelled, requeued or
\* steered, an event of a punctual conversation is in one place only: it cannot be
\* handed to an agent twice at a time, nor be queued while a turn on it runs.
EventInOnePlace == \A e \in Events : ConvOf[e] \in Punctual => Copies(e)

\* The ready queues of the conversations of one channel hold at most
\* MAX_PENDING_PER_CHANNEL events together, whichever path put them there.
RoutingCap ==
  \A ch \in Channels : Cardinality(Positions(q.queues, ch)) <= MaxPending

\* No withheld event is stranded: each still has a steer request in a running
\* turn, or an ack on its way that will release or remove it.
WithheldHasAck ==
  \A c \in Conversations : \A e \in Ids(q.withheld_native_steer[c]) :
    \/ \E a \in TurnsOf(c) : e \in tasks[a].steers
    \/ \E k \in acks : k.channel_id = c /\ k.event_id = e

\* A message the running turn has taken in by a steer is not prompted again: while
\* the success ack is on its way the event is neither ready nor in a batch, however
\* the ack and the turn's result overtake each other.  An expiry of the turn itself
\* would release the event, so this is about punctual conversations.
SteeredNotPrompted ==
  \A k \in acks : k.kind = "success" /\ k.channel_id \in Punctual =>
    /\ k.event_id \notin Ids(q.queues[k.channel_id]) \cup Ids(q.cancelled_batches[k.channel_id])
    /\ \A a \in Agents : Busy(a) => k.event_id \notin BatchIds(tasks[a].batch)

\* A punctual conversation never has ACP sessions in two agents, so a thread's
\* history is not split: a free agent is not claimed while the session's owner is out.
OneSessionOwner ==
  \A a, b \in Agents : a # b => sessions[a] \cap sessions[b] \subseteq Overruns

\* A slot is idle, running a turn, or being respawned, never two of these: the
\* branch of return_agent that reports an occupied slot is unreachable, and no
\* respawn replaces a live agent.
SlotExclusive ==
  /\ idle \cap respawning = {}
  /\ \A a \in Agents : Busy(a) => a \notin idle \cup respawning

\* An agent back in the pool keeps no session of a channel it was removed from,
\* even if it was out when the removal arrived.
RemovedSessionsStripped ==
  \A a \in idle : sessions[a] \cap SessionsIn(removed) = {}

\* heartbeat_in_flight is set exactly while one heartbeat turn exists, so a
\* crashed or panicked heartbeat neither blocks the next one nor doubles it.
HeartbeatFlagExact ==
  /\ (heartbeatInFlight <=> TurnsOf(Heartbeat) # {})
  /\ \A a, b \in TurnsOf(Heartbeat) : a = b

-----------------------------------------------------------------------------
(* Liveness *)

\* Events the queue still has to hand to an agent.
Pending(e) == e \in HeldIds(q, ConvOf[e])

\* Nothing waits for ever: an event in the queue, in a cancelled batch or withheld
\* for a steer is in the end handed to an agent or dropped.
EveryEventMoves == \A e \in Events : []<>~Pending(e)

\* A dead slot comes back: crashes and failed respawns never lose it for good.
SlotsRecover == \A a \in Agents : []<>(a \in idle \/ Busy(a))
=============================================================================
