--------------------------- MODULE PoolLifecycle ---------------------------
(***************************************************************************)
(* The lazy agent pool of the harness: crates/buzz-acp/src/pool_lifecycle  *)
(* (Listening, Waking, Ready, Draining, Failed) and the arms of the main   *)
(* loop in lib.rs that drive it: the wake at the top of the loop, slot     *)
(* filling on demand, maintenance, and the idle reaper that drains the     *)
(* pool.  Queue and turns are counted, not identified: Harness models      *)
(* them.                                                                   *)
(*                                                                         *)
(* While the pool is ready the main loop holds it in a variable and the    *)
(* lifecycle is back at Listening (take_ready): ready is what tells the    *)
(* two apart.                                                              *)
(***************************************************************************)
EXTENDS Integers, FiniteSets

CONSTANTS
    Slots,        \* agent slots, by number: parallelism
    MaxEvents,    \* bound: events that arrive
    MaxFailures   \* bound: failing wakes, spawns and turns

ASSUME LifecycleAssumption ==
    /\ Slots \subseteq Nat /\ Slots # {} /\ IsFiniteSet(Slots)
    /\ MaxEvents \in Nat /\ MaxFailures \in Nat

VARIABLES
    pc,         \* where the main loop is: parts of its top, then "select"
    lifecycle,  \* the PoolLifecycle state machine
    ready,      \* pool_ready
    slot,       \* the pool: never filled, idle, in a turn, or lost
    spawn,      \* per slot, a spawn in the background and its result
    demand,     \* fill_demand of the pool
    wakes,      \* wake tasks, and results not yet received
    drain,      \* the teardown task of the last pool, and its message
    queue,      \* queued events: flushable, held, and throttled by a retry
    seen,       \* lazy_wake_work_pending, as the top of the loop computed it
    arrived, failures

env == <<arrived, failures>>

lvars == <<pc, lifecycle, ready, slot, spawn, demand, wakes, drain, queue,
           seen, arrived, failures>>

Listening == [kind |-> "listening", attempt |-> 0, rewake |-> FALSE,
              due |-> FALSE]

Alive(s) == slot[s] \in {"idle", "busy"}

Queued == queue.flush + queue.held + queue.throttled

Goto(to) == pc' = to

Fail == failures < MaxFailures /\ failures' = failures + 1

\* dispatch_pending: a turn for each flushable event while an engine is idle;
\* a claim that finds none asks for one more engine.
Dispatch(q, sl) ==
    LET idle == {s \in Slots : sl[s] = "idle"}
        n == IF q.flush < Cardinality(idle) THEN q.flush ELSE Cardinality(idle)
    IN  \E S \in SUBSET idle :
          /\ Cardinality(S) = n
          /\ slot' = [s \in Slots |-> IF s \in S THEN "busy" ELSE sl[s]]
          /\ queue' = [q EXCEPT !.flush = @ - n]
          /\ demand' = (demand \/ q.flush > n)

DispatchIfReady(q) ==
    \/ ready /\ Dispatch(q, slot)
    \/ ~ready /\ queue' = q /\ UNCHANGED <<slot, demand>>

-----------------------------------------------------------------------------
(***************************************************************************)
(* The top of the loop.                                                    *)
(***************************************************************************)
\* Mutant: the wake check ignores that a pool is ready.
WakeableAlways == TRUE

\* The wake check is for a lazy pool that is not there.
Wakeable == ~ready

WorkPending == Wakeable /\ queue.flush > 0

\* Mutant: a retry counts the failed attempt twice.
WakeAttemptSkips ==
    CASE lifecycle.kind = "listening" -> 1
      [] lifecycle.kind = "failed" /\ lifecycle.due -> 2 * lifecycle.attempt + 1
      [] OTHER -> 0

\* Mutant: a failed wake is never retried.
WakeAttemptOnce == IF lifecycle.kind = "listening" THEN 1 ELSE 0

\* The lifecycle states from which a wake starts, and its attempt.
WakeAttempt ==
    CASE lifecycle.kind = "listening" -> 1
      [] lifecycle.kind = "failed" /\ lifecycle.due -> lifecycle.attempt + 1
      [] OTHER -> 0

\* start_wake_if_due, and the task that initializes a pool.
StartWake ==
    /\ pc = "top"
    /\ WorkPending /\ WakeAttempt > 0
    /\ lifecycle' = [Listening EXCEPT !.kind = "waking",
                                      !.attempt = WakeAttempt]
    /\ wakes' = wakes \cup {[attempt |-> WakeAttempt, state |-> "running"]}
    /\ seen' = TRUE
    /\ Goto("fill")
    /\ UNCHANGED <<ready, slot, spawn, demand, drain, queue, env>>

\* No wake starts; work that arrives during a drain is noted.
NoWake ==
    /\ pc = "top"
    /\ ~(WorkPending /\ WakeAttempt > 0)
    /\ lifecycle' = IF WorkPending /\ lifecycle.kind = "draining"
                    THEN [lifecycle EXCEPT !.rewake = TRUE] ELSE lifecycle
    /\ seen' = WorkPending
    /\ Goto("fill")
    /\ UNCHANGED <<ready, slot, spawn, demand, wakes, drain, queue, env>>

\* The slots next_lazy_fill_slot may fill, but for an open circuit.
Fillable == {s \in Slots : ~Alive(s) /\ spawn[s] = "none"}

\* The starved turn's demand is taken; one slot is filled if one can be.
FillOnDemand ==
    /\ pc = "fill"
    /\ ready /\ demand
    /\ demand' = FALSE
    /\ \/ \E s \in Fillable :
            /\ \A t \in Fillable : s <= t
            /\ spawn' = [spawn EXCEPT ![s] = "running"]
       \/ spawn' = spawn
    /\ Goto("maintain")
    /\ UNCHANGED <<lifecycle, ready, slot, wakes, drain, queue, seen, env>>

NoFill ==
    /\ pc = "fill"
    /\ ~(ready /\ demand)
    /\ Goto("maintain")
    /\ UNCHANGED <<lifecycle, ready, slot, spawn, demand, wakes, drain,
                   queue, seen, env>>

\* Maintenance is due: lost engines whose circuit allows it are spawned
\* again (maintenance_refill_allowed leaves unfilled slots alone), and
\* requeued work that became flushable is dispatched.
Maintain ==
    /\ pc = "maintain"
    /\ ready
    /\ \E R \in SUBSET {s \in Fillable : slot[s] = "lost"} :
         spawn' = [s \in Slots |-> IF s \in R THEN "running" ELSE spawn[s]]
    /\ Dispatch(queue, slot)
    /\ Goto("collect")
    /\ UNCHANGED <<lifecycle, ready, wakes, drain, seen, env>>

NotDue ==
    /\ pc = "maintain"
    /\ Goto("collect")
    /\ UNCHANGED <<lifecycle, ready, slot, spawn, demand, wakes, drain,
                   queue, seen, env>>

\* Every spawn that has answered is collected, whether or not the pool is
\* ready; a new engine takes work at once.
Collect ==
    /\ pc = "collect"
    /\ LET ok == {s \in Slots : spawn[s] = "ok"}
           sl == [s \in Slots |-> IF s \in ok THEN "idle" ELSE slot[s]]
       IN  \/ ok # {} /\ Dispatch(queue, sl)
           \/ ok = {} /\ UNCHANGED <<slot, queue, demand>>
    /\ spawn' = [s \in Slots |-> IF spawn[s] \in {"ok", "failed"}
                                 THEN "none" ELSE spawn[s]]
    /\ Goto("select")
    /\ UNCHANGED <<lifecycle, ready, wakes, drain, seen, env>>

-----------------------------------------------------------------------------
(***************************************************************************)
(* The arms of the select.                                                 *)
(***************************************************************************)
Select == pc = "select" /\ Goto("top")

\* A turn ends: done, to be retried, or with its engine gone.
TurnDone(s) ==
    /\ Select
    /\ ready /\ slot[s] = "busy"
    /\ Dispatch(queue, [slot EXCEPT ![s] = "idle"])
    /\ UNCHANGED <<lifecycle, ready, spawn, wakes, drain, seen, env>>

TurnRetried(s) ==
    /\ Select
    /\ ready /\ slot[s] = "busy"
    /\ Fail
    /\ Dispatch([queue EXCEPT !.throttled = @ + 1],
                [slot EXCEPT ![s] = "idle"])
    /\ UNCHANGED <<lifecycle, ready, spawn, wakes, drain, seen, arrived>>

\* The circuit decides whether the engine is spawned again at once.
EngineExits(s) ==
    /\ Select
    /\ ready /\ slot[s] = "busy"
    /\ Fail
    /\ \E now \in {"none", "running"} : spawn' = [spawn EXCEPT ![s] = now]
    /\ Dispatch([queue EXCEPT !.throttled = @ + 1],
                [slot EXCEPT ![s] = "lost"])
    /\ UNCHANGED <<lifecycle, ready, wakes, drain, seen, arrived>>

\* complete_wake accepts the result of the attempt it waits for.
Matches(w) ==
    lifecycle.kind = "waking" /\ lifecycle.attempt = w.attempt

\* A woken pool has one engine, at the first slot, and takes work at once.
FirstSlot == CHOOSE s \in Slots : \A t \in Slots : s <= t

WakeSucceeded(w) ==
    /\ Select
    /\ ~ready
    /\ w \in wakes /\ w.state = "ok"
    /\ wakes' = wakes \ {w}
    /\ IF Matches(w)
       THEN /\ lifecycle' = Listening
            /\ ready' = TRUE
            /\ Dispatch(queue, [s \in Slots |-> IF s = FirstSlot THEN "idle"
                                                ELSE "hole"])
       ELSE UNCHANGED <<lifecycle, ready, slot, queue, demand>>
    /\ UNCHANGED <<spawn, drain, seen, env>>

\* Mutant: only an error message ends a wake, not the panic of its task.
AfterFailedWakeByMessage(w) ==
    IF Matches(w) /\ w.state = "failed"
    THEN [lifecycle EXCEPT !.kind = "failed", !.due = FALSE]
    ELSE lifecycle

\* complete_wake with an error: the attempt counts, and is tried again.
AfterFailedWake(w) ==
    IF Matches(w) THEN [lifecycle EXCEPT !.kind = "failed", !.due = FALSE]
    ELSE lifecycle

\* The result is an error, or the task panicked (cancel_wake).
WakeFailed(w) ==
    /\ Select
    /\ w \in wakes /\ w.state \in {"failed", "panicked"}
    /\ w.state = "failed" => ~ready
    /\ wakes' = wakes \ {w}
    /\ lifecycle' = AfterFailedWake(w)
    /\ UNCHANGED <<ready, slot, spawn, demand, drain, queue, seen, env>>

DrainDone ==
    /\ Select
    /\ lifecycle.kind = "draining" /\ drain = "done"
    /\ drain' = "none"
    /\ lifecycle' = Listening
    /\ UNCHANGED <<ready, slot, spawn, demand, wakes, queue, seen, env>>

\* The retry deadline ends the select only for work the top saw.
RetrySleepEnds ==
    /\ Select
    /\ lifecycle.kind = "failed" /\ lifecycle.due /\ seen
    /\ UNCHANGED <<lifecycle, ready, slot, spawn, demand, wakes, drain,
                   queue, seen, env>>

\* A held head becomes flushable and its timer ends the select.
HoldEnds ==
    /\ Select
    /\ queue.held > 0
    /\ DispatchIfReady([queue EXCEPT !.held = @ - 1, !.flush = @ + 1])
    /\ UNCHANGED <<lifecycle, ready, spawn, wakes, drain, seen, env>>

\* An event is accepted: held for a moment, or flushable at once.
EventArrives ==
    /\ Select
    /\ arrived < MaxEvents /\ arrived' = arrived + 1
    /\ \/ DispatchIfReady([queue EXCEPT !.flush = @ + 1])
       \/ /\ queue' = [queue EXCEPT !.held = @ + 1]
          /\ UNCHANGED <<slot, demand>>
    /\ UNCHANGED <<lifecycle, ready, spawn, wakes, drain, seen, failures>>

\* Mutant: the reaper asks only for flushable work.
UndispatchedFlushable == queue.flush > 0

\* has_undispatched_work counts throttled and held work too.
Undispatched == Queued > 0

\* idle_pool_sleep_due and the gates around it, but for the idle bound.
SleepDue ==
    /\ ready
    /\ lifecycle.kind # "draining"
    /\ \A s \in Slots : slot[s] # "busy"
    /\ ~Undispatched
    /\ wakes = {}
    /\ \A s \in Slots : spawn[s] = "none"

\* The idle reaper's tick, with the bound not reached or a gate closed.
IdleTick ==
    /\ Select
    /\ UNCHANGED <<lifecycle, ready, slot, spawn, demand, wakes, drain,
                   queue, seen, env>>

\* The bound is reached: the pool goes to the teardown task.
EnterDraining ==
    /\ Select
    /\ SleepDue
    /\ ready' = FALSE
    /\ lifecycle' = [Listening EXCEPT !.kind = "draining"]
    /\ drain' = "running"
    /\ slot' = [s \in Slots |-> "hole"]
    /\ demand' = FALSE
    /\ UNCHANGED <<spawn, wakes, queue, seen, env>>

-----------------------------------------------------------------------------
(***************************************************************************)
(* The background tasks, and time.                                         *)
(***************************************************************************)
WakeFinishes(w) ==
    /\ w \in wakes /\ w.state = "running"
    /\ \/ /\ wakes' = (wakes \ {w}) \cup {[w EXCEPT !.state = "ok"]}
          /\ failures' = failures
       \/ /\ Fail
          /\ \E st \in {"failed", "panicked"} :
               wakes' = (wakes \ {w}) \cup {[w EXCEPT !.state = st]}
    /\ UNCHANGED <<pc, lifecycle, ready, slot, spawn, demand, drain, queue,
                   seen, arrived>>

SpawnFinishes(s) ==
    /\ spawn[s] = "running"
    /\ \/ spawn' = [spawn EXCEPT ![s] = "ok"] /\ failures' = failures
       \/ spawn' = [spawn EXCEPT ![s] = "failed"] /\ Fail
    /\ UNCHANGED <<pc, lifecycle, ready, slot, demand, wakes, drain, queue,
                   seen, arrived>>

DrainFinishes ==
    /\ drain = "running"
    /\ drain' = "done"
    /\ UNCHANGED <<pc, lifecycle, ready, slot, spawn, demand, wakes, queue,
                   seen, env>>

RetryComesDue ==
    /\ lifecycle.kind = "failed" /\ ~lifecycle.due
    /\ lifecycle' = [lifecycle EXCEPT !.due = TRUE]
    /\ UNCHANGED <<pc, ready, slot, spawn, demand, wakes, drain, queue, seen,
                   env>>

\* retry_after of a requeued batch passes; nothing wakes the loop for it.
ThrottleEnds ==
    /\ queue.throttled > 0
    /\ queue' = [queue EXCEPT !.throttled = @ - 1, !.flush = @ + 1]
    /\ UNCHANGED <<pc, lifecycle, ready, slot, spawn, demand, wakes, drain,
                   seen, env>>

-----------------------------------------------------------------------------
LInit ==
    /\ pc = "top"
    /\ lifecycle = Listening
    /\ ready = FALSE
    /\ slot = [s \in Slots |-> "hole"]
    /\ spawn = [s \in Slots |-> "none"]
    /\ demand = FALSE
    /\ wakes = {}
    /\ drain = "none"
    /\ queue = [flush |-> 0, held |-> 0, throttled |-> 0]
    /\ seen = FALSE
    /\ arrived = 0 /\ failures = 0

LoopTop == StartWake \/ NoWake \/ FillOnDemand \/ NoFill
           \/ Maintain \/ NotDue \/ Collect

TurnEnds == \E s \in Slots : TurnDone(s) \/ TurnRetried(s) \/ EngineExits(s)

WakeReceived == \E w \in wakes : WakeSucceeded(w) \/ WakeFailed(w)

Background ==
    \/ \E w \in wakes : WakeFinishes(w)
    \/ \E s \in Slots : SpawnFinishes(s)
    \/ DrainFinishes \/ RetryComesDue \/ ThrottleEnds

LNext ==
    \/ LoopTop
    \/ TurnEnds \/ WakeReceived \/ DrainDone \/ RetrySleepEnds \/ HoldEnds
    \/ EventArrives \/ IdleTick \/ EnterDraining
    \/ Background

LSpec == LInit /\ [][LNext]_lvars

\* All slots the circuit closed are refilled by maintenance in the end.
MaintainAll ==
    Maintain /\ \A s \in Slots : slot[s] = "lost" => spawn'[s] # "none"

\* The loop runs, background tasks end and deadlines pass; an arm that is
\* ready again and again is taken (select polls every arm below a ready one
\* once that one is consumed); maintenance comes round, with an open circuit
\* for a while only; the reaper's interval keeps ticking.
LFairness ==
    /\ WF_lvars(LoopTop) /\ WF_lvars(Background)
    /\ SF_lvars(TurnEnds) /\ SF_lvars(WakeReceived) /\ SF_lvars(DrainDone)
    /\ SF_lvars(RetrySleepEnds) /\ SF_lvars(HoldEnds)
    /\ SF_lvars(MaintainAll) /\ SF_lvars(IdleTick)

LFairSpec == LSpec /\ LFairness

-----------------------------------------------------------------------------
(***************************************************************************)
(* Properties.                                                             *)
(***************************************************************************)
\* Type invariant.  An attempt is one more than the failures before it.
LifecycleTypeOK ==
    /\ pc \in {"top", "fill", "maintain", "collect", "select"}
    /\ lifecycle.kind \in {"listening", "waking", "draining", "failed"}
    /\ lifecycle.attempt \in 0 .. MaxFailures + 1
    /\ {lifecycle.rewake, lifecycle.due, ready, demand, seen} \subseteq BOOLEAN
    /\ slot \in [Slots -> {"hole", "idle", "busy", "lost"}]
    /\ spawn \in [Slots -> {"none", "running", "ok", "failed"}]
    /\ \A w \in wakes :
         /\ w.attempt \in 1 .. MaxFailures + 1
         /\ w.state \in {"running", "ok", "failed", "panicked"}
    /\ drain \in {"none", "running", "done"}
    /\ queue.flush \in Nat /\ queue.held \in Nat /\ queue.throttled \in Nat
    /\ arrived \in 0..MaxEvents /\ failures \in 0..MaxFailures

\* At most one pool has engines: the one in use, the one a wake builds, or
\* the one a drain tears down ("do not start a second pool while teardown is
\* in flight", start_wake_if_due).
PoolsWithEngines ==
    Cardinality({w \in wakes : w.state \in {"running", "ok"}})
    + (IF ready THEN 1 ELSE 0)
    + (IF drain = "running" THEN 1 ELSE 0)

OnePool == PoolsWithEngines <= 1

\* A pool that is not there holds nothing back: no turn, no engine on its
\* way to one of its slots, and no work that only a turn's retry deadline
\* would make flushable, which nothing in the loop waits for.
SleepStrandsNothing ==
    ~ready => /\ \A s \in Slots : slot[s] = "hole" /\ spawn[s] = "none"
              /\ queue.throttled = 0

\* The lifecycle always has somebody to move it: a wake is waited for only
\* while its task or its message exists, and a drain likewise.
SomebodyMovesIt ==
    /\ lifecycle.kind = "waking" => \E w \in wakes : w.attempt = lifecycle.attempt
    /\ lifecycle.kind = "draining" <=> drain # "none"

\* Queued work is served in the end, through failed wakes, a drain that it
\* arrives during, lost engines and retries.
WorkIsServed == Queued > 0 ~> Queued = 0
=============================================================================
