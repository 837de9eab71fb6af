# TLA+ models of the Buzz agent harness and relay

The repository is a Nostr relay with git hosting, workflows, push and audio
(`crates/buzz-relay`, `crates/buzz-db` and the crates around them), clients
(`desktop`, `mobile`, `web`, `admin-web`), and an agent harness
(`crates/buzz-acp`) that connects coding agents to the relay: it listens to
channels, queues what is addressed to its agent, hands batches of events to a
pool of agent processes over ACP, and keeps doing so through failures, cancels,
steers, edits, membership changes and crashes. This project models

- the harness's scheduler (`EventQueue`, `Harness`, `HarnessAccounting`) and its lazy pool (`PoolLifecycle`);
- three protocols of the relay that coordinate processes through shared storage: git pushes
  by compare-and-swap (`GitPublish`, implementing `RefStore`), community deletion (`Deletion`)
  and the audit chain (`AuditChain`);

checks them with TLC, and proves with TLAPS, for every value of the constants, all safety
properties that the passing runs check except `NeverStuck`, which speaks of `ENABLED`, and that `GitPublish` implements `RefStore`.

## 1. Inventory

| Component | State | Operations | What is hard | What makes it correct |
|---|---|---|---|---|
| Event queue (`queue.rs`, `queue-routing-cap.rs`) | per conversation: ready queue, in-flight mark, deadline and ids, throttle, retry counter, notice flag, cancelled batch, withheld steers | `push`, `flush_next`, `mark_complete`, `requeue*`, `drain_*`, `mark_native_steer_pending`, `release_native_steer`, `remove_event*`, `patch_event`, `compact_expired_state`, the expiry sweep, the caps | fields that must change together; caps shared by threads | an event is in one place; nothing accepted is lost in silence; caps hold on every path; retries are bounded |
| Main loop (`lib.rs`, `normal-listener-ingress.rs`, `retry_turn.rs`, `crew_thread_cancel.rs`) | owns queue and pool; removed channels, heartbeat flag, circuits, respawns | a biased `select!`: relay, observer, results, panics, acks, respawns, maintenance, heartbeat, hold wake, each mostly followed by `dispatch_pending` | results, panics, acks and signals arrive in any order | one turn per conversation; locks exact; everything moves |
| Agent pool and prompt tasks (`pool.rs`, `acp.rs`) | slots, sessions per agent, checked-out sessions, `TaskMeta` per task | `try_claim`, `return_agent`, `send_steer`, `run_prompt_task` | a task runs beside the loop and may end in about twenty ways, or panic | a slot is in one state; one session owner per conversation |
| Pool lifecycle (`pool_lifecycle.rs`, the lazy parts of `lib.rs`) | listening, waking, draining, failed; whether the loop holds a pool; slots, spawns, fill demand | wake, retry, fill on demand, maintain, collect, drain, sleep | stale wake results, panicking wake tasks, work during a drain, work that no timer waits for | one pool at a time; no sleep over queued work; work is served |
| Relay client, session ledger, spool (`relay.rs`, `session_ledger.rs`, `secure_spool.rs`) | subscriptions, seen ids, files | reconnect, replay, record | crash between effect and record | replay is complete and deduplicated |
| Git on object storage (`buzz-relay/src/api/git`, announcements in `handlers/side_effects.rs`) | pack and manifest objects, pointer with ETag, name rows, the ref-state event | discover, receive, compact, store, compare-and-swap, announce, seed | concurrent pushes without a lock, lost answers, handlers that die, compaction that fails halfway | the pointer history is linear; every published manifest can be cloned; an acknowledged push took effect, whole |
| Relay ingest, subscriptions (`buzz-relay/src/handlers`, `subscription.rs`) | stored events, live subscriptions | EVENT, REQ, CLOSE, commands | register-then-backfill, fan-out | a subscriber misses no matching event |
| Storage (`buzz-db`) | events, replaceable heads, threads, members, deletion jobs, leases | transactions | concurrent transactions | newest replaceable wins, counters agree |
| Deletion (`buzz-deletion`, `buzz-db/src/store/deletion.rs`) | request, stage, lease and fence generations, key chunks, serving leases | submit, approve, claim, one function per stage, retry, block, abort, unblock; acquire, protect, record, finish | executors that lost their lease and do not know it, deletes and PUTs that land late, crash between effect and record | abort returns a whole community; what is verified absent is absent; a request never gets stuck |
| Admin outbox, workflows, push | leased work items | claim, run, retry, revoke | crash of a worker, two workers | at most one holder, work is not lost |
| Audit (`buzz-audit`, the worker in `buzz-relay/src/state.rs`) | a channel and a worker per relay, an advisory lock and a hash chain per community | send, append, retry, drain, verify | concurrent appends, lost connections with a COMMIT under way, shutdown | the chain never forks; an entry is logged once and in order; none disappears without a trace |
| Mesh, tunnels, audio | membership, directory | gossip, join, leave | message loss and reordering | views converge |
| Pairing, worktree leases, Kubernetes backend | session, lease file, cluster objects | handshake, acquire, reconcile | crash of a holder | one holder |
| Clients, SDKs, CLI, voice, media, search, auth | - | - | I/O, parsing, rendering | out of scope |

The components interact as follows. The relay delivers events to the harness's
relay client, which passes them to the main loop. The main loop is the only owner
of the queue and the pool; a turn is a Tokio task that owns its agent until it
sends the agent back on the result channel. A task reports on three channels (results,
join results for panics, steer acks), and the main loop talks to a task through a
one-shot control channel and a capacity-one steer channel. Nothing in the scheduler
is persisted: after a restart the relay replays. Relay processes share a PostgreSQL database, a
Redis and an object store and talk to each other hardly at all: git pushes meet at the pointer
object, audit workers at an advisory lock, deletion executors and serving writers at lease rows.

`PROJECT.json` lists the hazards at their lines.

## 2. Plan

Done, in this order:

1. `EventQueue`: the queue as data, one operator per method.
2. `Harness`: the main loop, the pool and the prompt tasks over one `EventQueue`.
3. `HarnessAccounting`: history variables that follow each accepted event.
4. `QueueLoops`: the eviction loop and the batch sort against closed forms.
5. `HarnessProofs`: inductive invariants of `Harness`.
6. `RefStore` and `GitPublish`: what a git client is promised, and the push protocol as its refinement.
7. `Deletion`: executors, operator and serving writers around one community.
8. `PoolLifecycle`: lazy wake, drain and sleep over a counted queue.
9. `AuditChain`: the audit workers of several relays over one database.

10. `GitProofs`, `AuditProofs`, `LifecycleProofs`, `DeletionProofs`: inductive invariants of those four modules, and the
    step simulation of `RefStore`.
11. `QueueProofs`, `ContentProofs`, `PlaceProofs`: what the queue operators do to the events they hold, then the
    types, caps, withheld events and places of events of `Harness`, and the account of `HarnessAccounting`.

Left, most important first:

12. `WorkflowRuns`, `PushLeases`, `WorktreeLease`: leased work items with crashing holders.
13. `Subscriptions`: the register-then-backfill window of REQ; `Replaceable`.
14. `MeshMembership`, `PairingSession`, `ReplicaFence`, `SessionLedger`.

## 3. Modules and the code

### EventQueue

The Rust struct is a record `q` with the fields of the source, every map total over
`Conversations`. An event is its id with its arrival stamp, its `hold_exempt` flag and
whether it was edited. A conversation (`conversation.rs`) is a DM channel or a thread;
`Routing` gives its channel, which is what `MAX_PENDING_PER_CHANNEL` counts.
Instants are abstracted to what the code compares them for: `received_at` is the arrival
number, a deadline is `running` or `passed`, a throttle is `pending` or `elapsed`. `evicted`
records the events whose loss at a cap was logged; it is the only field the struct does not have.

| Operator | Method |
|---|---|
| `PushAccepts`, `Push` | `push`, `contains_event` |
| `FlushChoices`, `BatchFor`, `Flushed`, `ExpireInFlight` | `flush_next` and its expiry sweep |
| `HasFlushableWork`, `HeldHeads` | `has_flushable_work`, `next_hold_ready_at` |
| `MarkComplete` | `mark_complete` |
| `Requeue`, `RequeuePreserveTimestamps`, `RequeueAsCancelled` | the three requeues |
| `EnforceRoutingCap`, `RestoreFront` | `enforce_routing_channel_cap` and the restores to a queue front |
| `DrainChannels`, `RoutedWork` | `drain_channel`, `drain_routing_channel` |
| `MarkNativeSteerPending`, `ReleaseNativeSteer`, `RemoveEvent` | the withheld table |
| `PatchEvent`, `RemoveEventById` | edits |
| `CompactExpiredState` | `compact_expired_state` |

### Harness

Variables: the queue `q` with its clocks; the pool (`idle`, `sessions`, `checkedOut`, `tasks`);
slots that are down (`circuits`, `respawning`); `acks` on their way; `removed` channels; the
heartbeat flag; and the position `pc` of the main loop with the batches `waiting` that
`dispatch_pending` has parked.

An arm of the `select!` is one action at `pc = "select"`. `dispatch_pending` is not atomic with
respect to tasks and clocks, so each of its iterations is a step (`DispatchBatch`,
`DispatchDone`, `RequeueWaiting`), as are the join-result drain after a result
(`RecoverPanic` at `pc = "drain"`, `DrainDone`) and the flush after maintenance and heartbeat ticks.

| Actions | Code |
|---|---|
| `Ingest`, `NativeSteer` | `steer_or_interrupt`, `try_native_steer` |
| `EditMessage`, `RetryTurn` | `handle_queued_message_edit`, `retry_turn::handle` |
| `OwnerCommand`, `ObserverCancel`, `ObserverSwitchModel` | `!cancel`, `!rotate`, the observer's controls |
| `RemoveChannel`, `AddChannel` | the membership notifications |
| `FinishTurn`, `PanicTurn`, `AnswerSteer` | a prompt task; `SetupEnds`, `SessionEnds`, `PromptEnds` and `StopEnds` list how `run_prompt_task` ends |
| `HandleResult`, `RecoverPanic`, `HandleSteerAck` | the pool-event arms |
| `Maintain`, `CollectRespawn`, `HeartbeatTick`, `HoldWake` | the timers |
| `RetryElapses`, `HoldElapses`, `DeadlinePasses`, `CoolDown`, `CrashAges` | the passage of time |

A turn's `End` gives its outcome, whether the batch comes back, the cancel reason and the
sessions the agent keeps; `Outcomes` selects the outcomes a run explores.

Deadlines. The queue fixes the in-flight deadline at the flush, `max_turn_duration` and 100 s later
(queue.rs:41-42, 240-244), and the sweep of the next flush unlocks a conversation whose deadline has passed
(queue.rs:369). Nothing in the code keeps every turn within it: the hard cap bounds one `session/prompt`
(acp.rs:998), and a new session with an `initial_message` sends two, each with a full `max_turn_duration`
(pool.rs:3506-3531, 3862); `session/load` and `session/new` come before the cap with up to 90 s each; and an answered
elicitation restarts the cap and not the deadline (acp.rs:2055-2066). So the constant `Overruns` names the
conversations whose turns may outlast their deadline, and `DeadlinePasses` may happen to any turn of those, until its result is handled; the others are
`Punctual`. Properties that the sweep can break for a conversation are stated of the punctual ones, with any
conversations overrunning beside them in the same queue, caps, agents and dispatch loop. Since they are proved for every value of `Overruns`,
they say more than they name: the states before the first overrun of a conversation are states of the instance without it in
`Overruns`, so each conversation has the properties until its own first overrun, whatever overran before.

Abstractions. The pool is eager (`PoolLifecycle` models the lazy one). Slots are interchangeable: the code claims the lowest fitting one, the model
any. Membership notifications arrive in any order, so the timestamp watermark that discards
stale ones is not needed. `RetryTurn` does not dispatch, as the observer-control arm does not: the next arm that flushes runs the
work. The filters in front of the queue (author gate, subscription
rules, roster handoff) decide which events arrive, and any may. A manual retry names one event.
What a session has already been told (its delivery ledger) and all wording are left out.

### HarnessAccounting

Each step of `Harness` is conjoined with what it does to `owed` (accepted, not settled)
and `merged` (dispatched as the interrupted part of a prompt). The history
variables constrain no step. An event is settled when a turn consumed it, a dead-letter
notice or an eviction warning names it, or the owner, an edit or a removal dropped it. `AccountingIsHarness` proves
that every accounted behaviour is one of `Harness`, so what is proved of the harness can be used here.

### QueueLoops

`EventQueue` states the result of the eviction loop and of the batch sort in closed form, which is
short and usable in proofs. `QueueLoops` runs the loop as the code does, one pop per
step, from every arrangement of a run's events, and compares (`CapLoopAgrees`); `SortIsStable` compares
the sort with what a stable sort is; `RetainAgrees` compares `Without`, which names the kept positions because the
provers can reason about those, with `SelectSeq`. All three are statements about constants, so they are assumptions that
TLC evaluates at the start of every run of `MCHarness`. No proof uses them.

### GitPublish and RefStore

`RefStore` is what a client may rely on: a push names the references it wants to move and the
values it saw, takes effect at one instant, as a whole and only on those values; "refused" means
it never did, and only a push that took effect is acknowledged. `GitPublish` is the protocol, with
one step per request to the store: `InfoRefs`, `ReceivePack` (one GET of the pointer, then git in a
private workspace), `Compact` / `CompactionFails` / `PutPack`, `PutManifest`, `CasWon` / `CasLost`,
`PublishRefState`. A handler may fail between any two (`PushFails`), and the answer of a pointer write may be
lost. The mapping takes the references of the manifest in the pointer, and calls a push open until its CAS.

A commit stands for its closure, a pack for the commits it holds, a digest for the place of the manifest
among all ever stored. Whether git accepts an update depends only on the value of the reference
in the workspace; the branch policy and fast-forward rules appear as a decline that may come to any push
(`HookDeclines`). Announcements peek, reserve, ensure or seed, and release; `refState` is the
newest kind:30618 event.

Two things the model shows that are described here and not stated as properties. A seed whose answer is lost makes
the announcement release its name although the pointer exists. And `ensure_manifest_pointer` says that a lost
race is "treated as an already-present pointer", while `seed_manifest_pointer` re-reads and fails unless it finds
the empty manifest: a re-announcement that races a first push fails, and releases nothing. The initial kind:30618 may
likewise be stored after that of a first push.

The store's client is external (`rust-s3`). It is taken to send each request once: a client that repeats a conditional PUT by itself after a lost answer would be refused by
its own first attempt, and the refusal would reach the push as a lost race.

### Deletion

The request row, the community row, the key chunks and the serving leases are the database; a transaction
is one action. `exec[e]` is what an executor process holds: its token (request, generation, fence, stage) and
its place in `execute_stage`. `Held` and `HeldFenced` are `verify_lease` and `verify_lease_and_fence`, and stand exactly where
the code calls them. A bulk delete or a serving write is sent in one step and lands in another, whether
or not its sender is alive. A lease that its process still renews expires only at the price of a fault;
that of a process that is gone just runs out.

`FrozenListIsFinal` has an exception that the code has too: an effect that was under way when its own lease
ended (the caller went away, or no renewal got through) can land after the listing. It is an orphan: `VerifyObjects`
meets it if it lands before the verification, and nothing looks for it afterwards; the comment in `execute_stage` speaks only of admitted writes that drained.

Only writers with a serving lease are modelled. Other keys in the same `buzz:{community}:*` namespace are written without one: presence, after a check of the
community's state (event.rs:1010, 1448), rate limits and the NIP-98 replay guard. Such a SET that was checked before the fence and lands after the purge is a late
effect too; no drain waits for it, and `VerifiedIsAbsent` says nothing of it.

`HolderNotRefused` is about the guards themselves. A token carries copies (stage, generation, fence) that `execute_claim`
refreshes once per stage, and every transaction compares them. The comparisons must refuse an executor that lost its claim and
nobody else: a holder that is refused fails, is retried, and is refused again until the streak blocks the request for good.

### PoolLifecycle

The lifecycle state, whether the loop holds a ready pool, slots, background spawns, the fill demand,
wake tasks with their messages, the drain task, and a queue that is three counters: flushable, held and throttled. The top of the
loop is four steps (wake, fill, maintain, collect), each arm of the `select!` one. `seen` is
`lazy_wake_work_pending`, computed at the top and used by the retry arm. Circuits appear as a choice: a lost
engine is or is not spawned again now. Not modelled: heartbeats, parked sessions and the receipt outbox, which
only add gates to the sleep.

### AuditChain

Per relay: handlers blocked in `send().await`, the channel, the worker with the entry in hand and the place in
`AuditService::log`, and the shutdown. Per community: the session advisory lock and the chain. A connection that is lost
leaves an orphaned session, which holds its lock until it ends and may first process a COMMIT it had received. The unlock itself succeeds in the model; the code ignores
its failure (service.rs:76). If the connection is lost there, the lock goes with its session, as when a process ends (`ProcessEnds`); an unlock that fails on a connection that lives on is
not modelled. Hashes
are injective. A row's key is the community and the sequence number, as the table's primary key has it.

## 4. Runs

| Run | Module | Question | Properties |
|---|---|---|---|
| `conversations` | `MCHarness` | turns that succeed, fail, wait and retry, on two agents, while those of the other thread outlast their deadlines | `TypeOK`, `AtMostOneTurn`, `InFlightExact`, `RoutingCap`, `OneSessionOwner` |
| `interrupt` | `MCAccounting` | interrupts, owner cancels, rotations, model switches, dropped messages, manual retries, crashes, heartbeats on one agent | `LossOnlyByMerge`, `SlotExclusive`, `HeartbeatFlagExact` |
| `steer` | `MCHarness` | steers, edits, model switches, retries, heartbeats, crashes and endings in every order, while the other thread's steers are released by the sweep | `WithheldHasAck`, `SteeredNotPrompted`, `EventInOnePlace` |
| `elicitation` | `MCAccounting` | turns of every conversation that outlast their deadline, with hold, heartbeat and membership | `LossOnlyByMerge`, `RemovedSessionsStripped` |
| `live` | `MCHarness` | does everything move, under steers, hold, crashes, cancels and expired deadlines | `EveryEventMoves`, `SlotsRecover` |
| `git` | `MCGit` | pushes, announcements, compaction and faults on one repository | `GitTypeOK`, `Cloneable`, `LinearHistory`, `ImplementsRefStore` |
| `deletion` | `MCDeletion` | executors, operator and a serving writer | `DeletionTypeOK`, `ActiveIsWhole`, `AbortRestores`, `FrozenListIsFinal`, `ChunksAreManifest`, `RemovedBindingsAreGone`, `VerifiedIsAbsent`, `HolderNotRefused`, `NeverStuck` |
| `lifecycle` | `MCLifecycle` | a lazy pool through wakes, failures and drains | `LifecycleTypeOK`, `OnePool`, `SleepStrandsNothing`, `SomebodyMovesIt`, `WorkIsServed` |
| `audit` | `MCAudit` | two relays, two chains, faults and shutdowns | `AuditTypeOK`, `VerifyAccepts`, `HeadIsCurrent`, `LoggedOnce`, `OrderKept`, `NeverSilentlyDropped`, `EntriesSettle` |

Three runs show where the code departs from what its comments or docs say (details and quotes in
`PROJECT.json`, findings):

| Run | What it shows |
|---|---|
| `loss` | a merged batch that is requeued loses the events of the interrupted request |
| `two_turns` | a turn that outlasts its in-flight deadline can be joined by a second turn of its conversation |
| `git_partial` | a push of two references, one of them rejected, is told "ok" for the other and publishes neither |

`loss` explains why `interrupt` checks `LossOnlyByMerge` and not `NoSilentLoss`: merged
batches are the only way an accepted event disappears. `two_turns` explains why
`AtMostOneTurn`, `OneSessionOwner`, `EventInOnePlace`, `SteeredNotPrompted` and half of `InFlightExact` speak of punctual conversations:
it refutes `OnePromptInFlight`, the same without the exception. `git_partial` does not contradict `ImplementsRefStore`: the push as a whole was refused
and never took effect; it is git's report in the answer that says otherwise for one reference.

Further places where a comment and the code differ, not spent a run on: `dispatch_pending` that finds no
idle agent (lib.rs:4420, 4503) requeues and completes, and completing resets the retry counter once the throttle has
elapsed, so `MAX_RETRIES` (queue.rs:32) bounds a streak that busy agents can interrupt; `patch_event`
(queue.rs:1093) reports an edit as applied to a message whose success ack is already on its way, where
lib.rs:3847-3852 says that a message the agent has read is not; event.rs:762 says that failed audit writes are "not
retried", and `log_audit_entry` retries lock timeouts.

### Bounds

- Harness runs: two threads of one channel, three events (two of one thread), two agents, `MaxPending = 2`,
  `MaxBatch = 2`, `MaxRetries = 1`, `CrashLimit = 2`, three accepted pushes. With caps of two
  and three events, a push, a requeue and a release can each exceed a cap; with one
  retry, a cycle of failure, retry and dead letter fits; two agents let two turns, a parked batch and a
  respawn coexist. Where one conversation or one agent is enough for the question, the run
  uses one, and spends the saved states on more outcomes or pushes; `interrupt` and `live` open the circuit at the
  first crash. An event may be delivered again at any time, so three accepted pushes of
  the same two or three ids cover redelivery. `DedupMode` is Queue in every run; the theorems hold for both modes.
- `Overruns`: one of the two threads in `conversations` and `steer`, so that the sweep of the one runs beside turns, steers and caps of the
  other; both conversations in `elicitation` and the only one in `live`, where the properties have no exception; none in `interrupt`, whose question
  is about signals.
- `steer` leaves out the observer's cancel and has only edits that patch: dropping a message that was
  steered, followed by a redelivery before its ack is handled, would prompt it again. The seen-id window of `relay.rs` excludes such a
  redelivery, and the window is not modelled.
- `git`: two pushers, an announcer, two references, a fork of three commits, three pushes, two announcements,
  compaction at two packs and a cap of two packs, so that a third pack meets both. Two pushers are enough for every race at the
  pointer, since only the value read and the value now there matter; a third push sees what two left behind.
- `deletion`: two executors (a holder and a successor that took over), one serving writer, two requests (an abort
  and a second try), blocks after two retries, two faults. A late delete, a take-over and a restart need two faults; the run has
  700,000 states.
- `lifecycle`: two slots, three events, two failures: a wake that fails and is retried, with an engine lost or a turn
  retried after it, and an event during the drain.
- `audit`: two relays, two communities, capacity one, two entries, two faults. Two entries in one chain are an append race, two
  at one relay with capacity one are a blocked handler.

Agents, pushers and executors are symmetric where a run declares symmetry; liveness runs declare none. `git` and `deletion`
allow deadlock: a pusher out of requests and a request that is done or blocked rightly stop.

### Fairness

- `FairSpec` (`live`). A loop step that has begun goes on (weak fairness on the dispatch,
  drain and flush steps). Results, panics and acks are arms of a biased `select!` before the
  relay arm, and respawns and maintenance are handled at the top of each loop iteration, so they are not
  starved by relay traffic although each makes the others briefly disabled: strong fairness. A turn
  ends, since each of its prompts does at the latest by its hard cap, and timers run: weak fairness. How a turn ends is not
  constrained; a crash may always be the outcome. A respawn that is tried without end
  succeeds at last: strong fairness on its success. Nothing is assumed of the relay, owner, user or
  heartbeat. The strong fairness of `Maintain` and `CollectRespawn` needs that the loop comes round: maintenance (lib.rs:2617) and the
  collection of respawns (lib.rs:2673) have no timer of their own. The typing timer (3 s) and the presence timer (60 s) are arms of the `select!` that
  bring it round. Both are on by default and can be switched off; with both off and no relay traffic an idle loop does no maintenance, and `SlotsRecover` then
  waits for the next event.
- `LFairSpec` (`lifecycle`). The same for the loop's top (weak) and for the arms of its `select!` (strong); background tasks end and
  deadlines pass (weak, they are tasks of their own). Maintenance comes round and a circuit does not stay open for ever
  (`MaintainAll`). The idle reaper keeps ticking: it is what brings the loop round when nothing else does, and throttled work has no
  timer of its own. Failures are bounded by `MaxFailures`, so a wake that is retried succeeds at last.
- `AFairSpec` (`audit`). Weak fairness only: a worker runs, the database answers, a blocked sender is served in its order
  (Tokio's channel is fair) and a dead session ends. No fairness of locks is needed because faults are bounded and every holder releases.
- `Deletion` has no fairness: `NeverStuck` says that a step of the executors, the store or an expiring lease is always possible.

## 5. Proofs

Every safety property below is checked by a run on a small instance and proved for all constants that satisfy the named
assumption of the module: any number of agents, conversations, events, pushers, relays, executors and writers, any cap or
bound. Each proof is an induction: the initial states satisfy an invariant, every action preserves it (one lemma or step
per action), and it implies the property. The properties are seldom inductive; what had to be added to each is the
part worth reading, and it is the argument why the code works.

`LockInv` is a name of both `HarnessProofs` and `AuditProofs`, and `TokenInv` of both `PlaceProofs` and `DeletionProofs`; those modules do not meet.

### Scheduler: turns, locks, sessions (`HarnessProofs`)

| Theorem | States | Rests on |
|---|---|---|
| `SlotsApart` | `Spec => []SlotExclusive` | `PoolInv` |
| `HeartbeatExact` | `Spec => []HeartbeatFlagExact` | `PoolInv` |
| `OneTurnPerConversation` | `Spec => []AtMostOneTurn` | `LockInv` |
| `LocksExact` | `Spec => []InFlightExact` | `LockInv` |
| `SessionsApart` | `Spec => []OneSessionOwner` | `SessionInv`, `LockInv` |
| `RemovedStripped` | `Spec => []RemovedSessionsStripped` | `StripInv` |

- `PoolInv` joins `SlotExclusive` and `HeartbeatFlagExact` with the types of the tasks and slots: a
  heartbeat result clears the flag only because its task was the one heartbeat.
- `LockInv` joins `AtMostOneTurn` and `InFlightExact` with the shape of the queue record and of `waiting`,
  and says that no deadline of a punctual conversation is passed: the sweep then unlocks only conversations of `Overruns`, and
  takes nothing from the others. `AtMostOneTurn` alone is
  not inductive: `DispatchBatch` needs that a punctual conversation outside `in_flight_channels` has no task and
  no parked batch, which is `InFlightExact`. Its other half, that a locked conversation is held by somebody, has no exception: when the first of two turns ends, it
  unlocks the conversation for both, so a lock is never left behind.
- `SessionInv` relates the live sessions of an agent that is out to the snapshot in `checkedOut`: it can have
  gained only the conversation of its own turn, and no other agent has a session of that conversation. Together with one turn per conversation this makes the owner look-up
  of `dispatch_pending` sufficient.
- `StripInv` says that the sessions of idle agents avoid removed channels; agents that are out are
  stripped when they return.

### Scheduler: the events (`QueueProofs`, `ContentProofs`, `PlaceProofs`)

| Theorem | States | Rests on |
|---|---|---|
| `HarnessTypeCorrect` | `Spec => []TypeOK` | `TypeInv` |
| `RoutingCapHolds` | `Spec => []RoutingCap` | `TypeInv` |
| `WithheldBacked` | `Spec => []WithheldHasAck` | `WithheldInv`, `TypeInv`, `PoolInv` |
| `EventNeverTwice` | `Spec => []EventInOnePlace` | `PlaceInv`, `LockInv`, `TypeInv` |
| `SteeredOnce` | `Spec => []SteeredNotPrompted`, if `OnlyAcksRelease` | `TokenInv`, `PlaceInv`, `LockInv`, `PoolInv`, `TypeInv` |
| `AccountingIsHarness` | `ASpec => Spec` | step by step |
| `NothingLostButMerged` | `ASpec => []LossOnlyByMerge` | `OwedInv`, `TaskInv`, `PoolInv`, `TypeInv` |

`QueueProofs` has no theorem of its own. It says once what each operator of `EventQueue` does to the lists it works on: which entries a
result is drawn from, which ids it has, that it repeats none, that a cap holds after it, and which ids it loses: the victims of a cap are exactly
the ones `evicted` names, a flush loses what is in its batch, a requeue loses the interrupted part of the batch. `Drawn(r, s)` (the entries of `r` are entries of `s`, no two of them
the same one, whatever their order and edits) and `NoDup` are the two notions that the rest of the proofs are about; those never expand an operator on sequences.

- `TypeInv` is `TypeOK` and `RoutingCap` together with the arrival stamps: nothing held or dispatched was received after the
  clock. Without that, `matured`, which `HoldWake` moves up to the stamp of a held event, could not be shown to stay behind the
  clock. The cap is part of it because each path that puts events back (requeue, release of a steer, merge of
  a cancelled batch) restores the cap only from a state in which it is known how many there were.
- `WithheldInv` adds to `WithheldHasAck` that no event is withheld twice: `release_native_steer` takes out one entry, so with two
  copies the second would be left without an ack.
- `PlaceInv` says of each conversation that its lists, and of each batch, with a task or parked, that it holds only events of the
  conversation; and, if it is punctual, that the three lists are disjoint and repeat nothing (`QueueApart`, `ListsApart`), that a batch repeats nothing and that
  `in_flight_event_ids` has all of it (`TaskApart`, `BatchApart`, `BatchOnce`). The first part holds for overrunning conversations too, and is why an event that
  the sweep has put in two places stays in its own conversation. `push` looks into the lists and `in_flight_event_ids` and not into the
  batches; the invariant is the reason why that is enough. It needs `LockInv`: two batches of one punctual conversation would share the record, and
  the end of the first would clear it for both.
- `TokenInv` says that in a punctual conversation a steer request in a turn and an ack under way are each the only one for an event that is withheld. Its
  proof needs that a pushed event is never the victim of the cap it may exceed: a steer requested for an event that
  push has evicted would have nothing to withhold. `OnlyAcksRelease` names the configurations of the run `steer`:
  nothing but an expiry drains or drops a withheld event before its ack. Outside them the property is false, for the reason given under Bounds.
- `OwedInv` says that an owed event was merged, or is in a list of the queue, in the new part of a parked batch, or in the new part of
  the batch of a task that `Owes`. A task owes its batch until it is done, and then only if it returned the batch: a turn that ended without one has
  consumed it, and the events are settled in that step. `LossOnlyByMerge` itself would let a task that is done hold them a step longer, and is not
  inductive. Only the new part of a batch is counted, because the interrupted part is what a requeue drops; those events are in `merged` since their
  dispatch. `TaskInv` ties a task's batch to its conversation and its outcome to its end. The proof needs neither punctual conversations nor `LockInv`: events may be
  held twice when a turn outlasts its deadline, but they are not lost.

### Git (`GitProofs`)

| Theorem | States |
|---|---|
| `GitTypeCorrect` | `GitSpec => []GitTypeOK` |
| `AlwaysCloneable` | `GitSpec => []Cloneable` |
| `OneHistory` | `GitSpec => []LinearHistory` |
| `PushesAreAtomic` | `GitSpec => ImplementsRefStore`: initial states map to initial states, and each step to a push of `RefStore` or a stutter |

`GitInv` follows a push through its stages: its commands agree with the manifest its workspace was hydrated from (`Hydrated`), its packs
are stored and hold what its references reach (`Packed`), its manifest is stored under its digest with that parent
(`Staged`). The compare-and-swap compares digests; `Staged` and `Hydrated` turn an equal digest into equal references, which is what makes
the CAS one atomic step of `RefStore`. `Ascending` (digests grow along a pointer's history) is what keeps a manifest
from coming back, and rests on `StoreInv`: a manifest is younger than its parent. `AnnInv` is about announcements that lose the seed.

### Audit (`AuditProofs`)

| Theorem | States |
|---|---|
| `AuditTypeCorrect`, `ChainsVerify`, `HeadStaysCurrent` | `AuditTypeOK`, `VerifyAccepts`, `HeadIsCurrent` |
| `EntriesLoggedOnce`, `QueueOrderKept` | `LoggedOnce`, `OrderKept` |
| `NothingSilentlyDropped` | `NeverSilentlyDropped` |

`LockInv` is the centre: a worker between the read and the COMMIT holds the lock of its community, and so does an orphaned
session whose COMMIT may still be processed. With it `ChainInv` (rows numbered without gap, whatever is about to be appended is the next row)
is preserved. `LineInv` puts the entries of a relay in one line, logged, in hand, in the channel, waiting, with growing ids; an entry that is
retried is younger than every logged one, so it cannot have been logged: `LoggedOnce` and `OrderKept` both follow from it (`OnceInv`). `HandInv`
and `IdInv` account for each entry.

### Pool lifecycle (`LifecycleProofs`)

`LifecycleTypeCorrect`, `AtMostOnePool`, `SleepIsSafe` and `LifecycleIsMoved` state `LifecycleTypeOK`, `OnePool`, `SleepStrandsNothing` and
`SomebodyMovesIt`. `OwnerInv` relates the lifecycle to its tasks: exactly one wake task while waking, with the attempt the lifecycle
waits for, a drain task or its message exactly while draining, and a pool in use only at Listening. It makes the attempt number in a wake's message a
test that never fails here. `AttemptInv` bounds the attempts by the failures.

### Deletion (`DeletionProofs`)

`DeletionTypeCorrect`, `AbortedIsWhole`, `ArchivedRestored`, `ChunksStayManifest`, `FrozenListComplete`, `BindingsStayGone` and
`VerifiedStaysAbsent` state `DeletionTypeOK`, `ActiveIsWhole`, `AbortRestores`, `ChunksAreManifest`, `FrozenListIsFinal`,
`RemovedBindingsAreGone` and `VerifiedIsAbsent`; `HolderStaysGood` states `HolderNotRefused`. The argument has four parts.

- An executor that lost its lease still runs, but its `Held` is false and stays false, because generations only grow. So what an executor
  believes (`Knows`: the list so far is the stored chunks and complete below its last key, the delete it waits for was sent) is required of the holder alone
  (`HolderInv`); of the others only the shape of their memory matters.
- The stage of the request fixes the community's state, the archived flag and a bound on the fence generation (`StateInv`, `FenceInv`).
  Nothing is removed before stage `drained` (`RemovalInv`), and from there no abort is possible: that is `ActiveIsWhole`.
- Behind the fence no serving lease is live, so an effect that lands there is an orphan (`WriteInv`). This makes the list final and, with `ChunkInv`
  (a stamped chunk is gone) and `AbsenceInv` (what each stage has removed stays removed), yields the properties on absence, each up to orphans.
- `TokenInv` is about the copies: from the fence on the request row has the community's fence generation (`RequestFenced`), and the holder's token has the
  request's (`TokenGood`), because the stage that changes it is the one after which the token is read back. With `StateInv` that is the fence check.
  A chunk whose delete the holder waits for is unstamped, because only a holder stamps.

### Assumptions

- `QueueAssumption`, `HarnessAssumption`, `GitAssumption`, `AuditAssumption`, `LifecycleAssumption` and `DeletionAssumption` give the constants their
  types. The parts that are more than that: caps are at least one; there is a conversation, and the heartbeat is none; a commit's history contains itself
  and is closed; `Free` and `Orphan` are no relays; slots and writers are finite sets (`IsFiniteSet`), which the counts in the types need. TLC evaluates each in
  the runs of its module.
- No theorem assumes that turns keep their deadlines: `Overruns` is any set of conversations. `RoutingCap`,
  `TypeOK`, `WithheldHasAck`, `SlotExclusive`, `HeartbeatFlagExact`, `RemovedSessionsStripped` and `LossOnlyByMerge` hold of all conversations, the five properties named
  under `two_turns` of the punctual ones, and `two_turns` shows that the exception is needed.
- `OnlyAcksRelease` in `SteeredOnce`, as said above.

### Only model-checked

- `NeverStuck`, which speaks of `ENABLED`, and all liveness (`EveryEventMoves`, `SlotsRecover`, `WorkIsServed`, `EntriesSettle`): fairness
  and `ENABLED` are out of this proof system's reach. `HolderStaysGood` proves the part of `NeverStuck` that is about the state: what could stop the
  holder is not its token.
- `CapLoopAgrees`, `SortIsStable` and `RetainAgrees` of `QueueLoops`: what a loop computes for every input is induction over data, and `PopUntilCap` is
  recursive. The proofs are about the closed forms that these compare with the loops.

## 6. Not modelled

`PROJECT.json` lists each component with the reason.

- Within the harness: startup and shutdown, the relay client with its seen-id window, the session ledger, the elicitation forms, prompt
  rendering, telemetry.
- Within the modelled relay protocols: clones and fetches, branch policy and quotas of git; the physical retention after a
  deletion is verified; the HTTP routes that read the audit log.
- The rest of the relay: ingest and command execution, subscriptions, workflows, push, mesh, tunnels, pairing, admin outbox, replica fence. The
  plan names the ones whose concurrency is worth a model.
- The clients, SDKs and tools. They are by far the largest part of the repository: of its 560,000 lines of implementation the
  desktop, mobile and web clients, the command-line tools, the language-model adapters and the HTTP and SQL plumbing of the relay have
  no protocol of their own that a model checker would say more about than a unit test. The map therefore covers a small share of the
  repository, concentrated in the files where processes, leases, retries and failures meet.
