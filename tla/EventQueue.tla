----------------------------- MODULE EventQueue -----------------------------
(***************************************************************************)
(* The per-conversation event queue of the agent harness                   *)
(* (crates/buzz-acp/src/queue.rs and queue-routing-cap.rs).                *)
(*                                                                         *)
(* The queue is a plain data structure owned by the single-threaded main   *)
(* loop, so it is modelled as a record with the fields of the Rust struct  *)
(* and one operator per method; module Harness holds one such record in a  *)
(* variable and calls the operators from its actions.                      *)
(*                                                                         *)
(* Abstractions.  An event is its id.  Instants are replaced by what the   *)
(* methods compare them for: received_at is an arrival stamp, a deadline   *)
(* or a throttle is pending or elapsed.  Log lines are left out, except    *)
(* that the field `evicted' remembers the events whose loss was logged     *)
(* because a cap was reached.                                              *)
(***************************************************************************)
EXTENDS Naturals, Sequences, FiniteSets, Functions, SequencesExt

CONSTANTS
  Conversations,   \* scheduler identities: a DM channel or one thread of a channel
  Channels,        \* NIP-29 channels, the "routing channels"
  Events,          \* ids of the Nostr events that reach the harness
  Routing,         \* [Conversations -> Channels], the h tag of its events
  ConvOf,          \* [Events -> Conversations], conversation::id_for_event
  CreatedAt,       \* [Events -> Nat], the author's created_at
  MaxPending,      \* MAX_PENDING_PER_CHANNEL
  MaxBatch,        \* MAX_BATCH_EVENTS
  MaxRetries,      \* MAX_RETRIES
  DedupMode,       \* "Queue" or "Drop"
  HoldEnabled      \* dispatch_hold is not zero

ASSUME QueueAssumption ==
  /\ Routing \in [Conversations -> Channels]
  /\ ConvOf \in [Events -> Conversations]
  /\ CreatedAt \in [Events -> Nat]
  /\ MaxPending \in Nat \ {0}
  /\ MaxBatch \in Nat \ {0}
  /\ MaxRetries \in Nat \ {0}
  /\ DedupMode \in {"Queue", "Drop"}
  /\ HoldEnabled \in BOOLEAN

-----------------------------------------------------------------------------
(* The data *)

CancelReasons == {"Steer", "Interrupt"}
Deadlines     == {"none", "running", "passed"}   \* in_flight_deadlines[c]
Throttles     == {"none", "pending", "elapsed"}  \* retry_after[c]

\* One queued or batched event.  A BatchEvent has no hold_exempt field; it is
\* carried as TRUE, the value every requeue gives it.
Entry == [id : Events, received_at : Nat, hold_exempt : BOOLEAN, edited : BOOLEAN]

FlushBatch ==
  [channel_id : Conversations, events : Seq(Entry), cancelled_events : Seq(Entry),
   cancel_reason : CancelReasons \cup {"none"}]

Ids(s)      == {s[i].id : i \in DOMAIN s}
BatchIds(b) == Ids(b.events) \cup Ids(b.cancelled_events)

QueueFields ==
  {"queues", "in_flight_channels", "in_flight_deadlines", "in_flight_event_ids",
   "retry_after", "retry_counts", "busy_notice_sent", "cancelled_batches",
   "cancel_reasons", "withheld_native_steer", "evicted"}

NewQueue ==
  [queues                |-> [c \in Conversations |-> <<>>],
   in_flight_channels    |-> {},
   in_flight_deadlines   |-> [c \in Conversations |-> "none"],
   in_flight_event_ids   |-> [c \in Conversations |-> {}],
   retry_after           |-> [c \in Conversations |-> "none"],
   retry_counts          |-> [c \in Conversations |-> 0],
   busy_notice_sent      |-> {},
   cancelled_batches     |-> [c \in Conversations |-> <<>>],
   cancel_reasons        |-> [c \in Conversations |-> "none"],
   withheld_native_steer |-> [c \in Conversations |-> <<>>],
   evicted               |-> {}]

-----------------------------------------------------------------------------
(* Caps *)

KeepFirst(s, n) == SubSeq(s, 1, IF Len(s) < n THEN Len(s) ELSE n)
KeepLast(s, n)  == SubSeq(s, IF Len(s) < n THEN 1 ELSE Len(s) - n + 1, Len(s))

\* Positions of the ready queues that share routing channel ch.
Positions(qs, ch) ==
  UNION {{c} \X DOMAIN qs[c] : c \in {d \in Conversations : Routing[d] = ch}}

\* The eviction loop always pops the oldest head, so an entry leaves when the
\* youngest entry in front of it (itself included) is the oldest one left.
YoungestUpTo(s, i) == CHOOSE t \in {s[j].received_at : j \in 1 .. i} :
                        \A j \in 1 .. i : s[j].received_at <= t

EvictedBefore(qs, p, r) ==
  LET kp == YoungestUpTo(qs[p[1]], p[2])
      kr == YoungestUpTo(qs[r[1]], r[2])
  IN  kp < kr \/ (kp = kr /\ p[1] = r[1] /\ p[2] < r[2])

\* The positions evicted to bring channel ch down to its cap.
Victims(qs, ch) ==
  LET all    == Positions(qs, ch)
      excess == IF Cardinality(all) > MaxPending THEN Cardinality(all) - MaxPending ELSE 0
  IN  {p \in all : Cardinality({r \in all : EvictedBefore(qs, r, p)}) < excess}

PopVictims(qs, victims) ==
  [d \in Conversations |->
     SubSeq(qs[d], Cardinality({p \in victims : p[1] = d}) + 1, Len(qs[d]))]

VictimIds(qs, victims) == {qs[p[1]][p[2]].id : p \in victims}

\* enforce_routing_channel_cap(c): pop oldest heads of the channel's ready
\* queues until MaxPending events are left.  Each queue loses a prefix.
EnforceRoutingCap(q, c) ==
  LET victims == Victims(q.queues, Routing[c])
  IN  IF q.queues[c] = <<>> THEN q
      ELSE [q EXCEPT !.queues  = PopVictims(q.queues, victims),
                     !.evicted = q.evicted \cup VictimIds(q.queues, victims)]

\* Mutation: a restore leaves the routing cap to the next push.
RestoreFrontUncapped(q, c, s) ==
  LET whole == s \o q.queues[c]
      kept  == KeepFirst(whole, MaxPending)
  IN  [q EXCEPT !.queues[c] = kept, !.evicted = q.evicted \cup (Ids(whole) \ Ids(kept))]

\* The shared tail of every restore to a queue front: push_front in order,
\* pop_back down to the conversation's cap, then the routing cap.
RestoreFront(q, c, s) ==
  LET whole == s \o q.queues[c]
      kept  == KeepFirst(whole, MaxPending)
  IN  EnforceRoutingCap(
        [q EXCEPT !.queues[c] = kept, !.evicted = q.evicted \cup (Ids(whole) \ Ids(kept))], c)

-----------------------------------------------------------------------------
(* push *)

\* Mutation: one of the places an event can be is forgotten.
ContainsUnsteered(q, c, e) ==
  e \in Ids(q.queues[c]) \cup q.in_flight_event_ids[c] \cup Ids(q.cancelled_batches[c])

ContainsEvent(q, c, e) ==
  \/ e \in Ids(q.queues[c])
  \/ e \in q.in_flight_event_ids[c]
  \/ e \in Ids(q.cancelled_batches[c])
  \/ e \in Ids(q.withheld_native_steer[c])

PushAccepts(q, e) ==
  /\ ~ContainsEvent(q, ConvOf[e], e)
  /\ ~(DedupMode = "Drop" /\ ConvOf[e] \in q.in_flight_channels)

\* push(event) for an accepted event received at stamp t.
Push(q, e, t, exempt, edited) ==
  LET c    == ConvOf[e]
      x    == [id |-> e, received_at |-> t, hold_exempt |-> exempt, edited |-> edited]
      kept == KeepLast(q.queues[c], MaxPending - 1)
  IN  EnforceRoutingCap(
        [q EXCEPT !.queues[c] = Append(kept, x),
                  !.evicted = (q.evicted \cup (Ids(q.queues[c]) \ Ids(kept))) \ {e}], c)

-----------------------------------------------------------------------------
(* flush_next *)

\* head_past_dispatch_hold; matured is the youngest stamp past the hold.
PastHold(x, matured) == x.hold_exempt \/ ~HoldEnabled \/ x.received_at <= matured

\* Mutation: a conversation in flight is flushed again.
CandidatesInFlightToo(q, matured) ==
  {c \in Conversations :
     q.queues[c] # <<>> /\ q.retry_after[c] # "pending" /\ PastHold(Head(q.queues[c]), matured)}

Candidates(q, matured) ==
  {c \in Conversations :
     /\ q.queues[c] # <<>>
     /\ c \notin q.in_flight_channels
     /\ q.retry_after[c] # "pending"
     /\ PastHold(Head(q.queues[c]), matured)}

\* Cancelled work with nothing to merge into ignores hold and throttle.
CancelledOnly(q) ==
  {c \in Conversations : q.cancelled_batches[c] # <<>> /\ c \notin q.in_flight_channels}

\* The conversations flush_next may return: the candidate with the oldest
\* head, otherwise any cancelled batch (the order is the hash map's).
FlushChoices(q, matured) ==
  LET cs == Candidates(q, matured)
  IN  IF cs = {} THEN CancelledOnly(q)
      ELSE {c \in cs : \A d \in cs :
              Head(q.queues[c]).received_at <= Head(q.queues[d]).received_at}

\* next_hold_ready_at: the stamps of the heads that only the hold keeps back.
HeldHeads(q, matured) ==
  {Head(q.queues[c]).received_at :
     c \in {d \in Conversations : /\ q.queues[d] # <<>>
                                  /\ d \notin q.in_flight_channels
                                  /\ q.retry_after[d] # "pending"
                                  /\ ~PastHold(Head(q.queues[d]), matured)}}

HasFlushableWork(q, matured) == Candidates(q, matured) # {} \/ CancelledOnly(q) # {}

\* events.sort_by_key(created_at), a stable sort: the k-th entry is the one with k - 1
\* entries before it.
SortByCreatedAt(s) ==
  LET Before(i, j) == \/ CreatedAt[s[i].id] < CreatedAt[s[j].id]
                      \/ CreatedAt[s[i].id] = CreatedAt[s[j].id] /\ i < j
  IN  [k \in DOMAIN s |->
         s[CHOOSE i \in DOMAIN s : Cardinality({j \in DOMAIN s : Before(j, i)}) = k - 1]]

\* The batch flush_next returns for conversation c: the drained queue with any
\* cancelled batch merged in, or the cancelled batch on its own.
BatchFor(q, matured, c) ==
  LET merge   == c \in Candidates(q, matured)
      drained == KeepFirst(q.queues[c], MaxBatch)
      ready   == [i \in DOMAIN drained |-> [drained[i] EXCEPT !.hold_exempt = TRUE]]
  IN  [channel_id       |-> c,
       events           |-> IF merge THEN SortByCreatedAt(ready) ELSE q.cancelled_batches[c],
       cancelled_events |-> IF merge THEN q.cancelled_batches[c] ELSE <<>>,
       cancel_reason    |-> IF q.cancelled_batches[c] = <<>> THEN "none"
                            ELSE q.cancel_reasons[c]]

\* The queue after flush_next has returned BatchFor(q, matured, c).
Flushed(q, matured, c) ==
  [q EXCEPT
    !.queues[c]              = IF c \in Candidates(q, matured)
                               THEN SubSeq(@, Len(KeepFirst(@, MaxBatch)) + 1, Len(@))
                               ELSE @,
    !.in_flight_channels     = @ \cup {c},
    !.in_flight_deadlines[c] = "running",
    !.in_flight_event_ids[c] = BatchIds(BatchFor(q, matured, c)),
    !.cancelled_batches[c]   = <<>>,
    !.cancel_reasons[c]      = "none"]

\* The expiry sweep at the head of flush_next and has_flushable_work, for one
\* expired conversation: release it and recover its withheld events.
ExpireInFlight(q, c) ==
  LET released == [q EXCEPT !.in_flight_channels       = @ \ {c},
                            !.in_flight_event_ids[c]   = {},
                            !.in_flight_deadlines[c]   = "none",
                            !.withheld_native_steer[c] = <<>>]
  IN  IF q.withheld_native_steer[c] = <<>> THEN released
      ELSE RestoreFront(released, c, q.withheld_native_steer[c])

\* extend_in_flight_deadline: only an existing deadline moves.
ExtendInFlightDeadline(q, c) ==
  IF q.in_flight_deadlines[c] = "none" THEN q
  ELSE [q EXCEPT !.in_flight_deadlines[c] = "running"]

-----------------------------------------------------------------------------
(* Completion and requeueing *)

\* Mutation: mark_complete returns before it unlocks a throttled conversation.
MarkCompleteUnthrottled(q, c) ==
  IF q.retry_after[c] = "pending" THEN q
  ELSE [q EXCEPT !.in_flight_event_ids[c] = {},
                 !.in_flight_channels     = @ \ {c},
                 !.in_flight_deadlines[c] = "none",
                 !.retry_counts[c]        = 0]

MarkComplete(q, c) ==
  LET done == [q EXCEPT !.in_flight_event_ids[c] = {},
                        !.in_flight_channels     = @ \ {c},
                        !.in_flight_deadlines[c] = "none"]
  IN  IF q.retry_after[c] = "pending" THEN done
      ELSE [done EXCEPT !.retry_after[c]   = "none",
                        !.retry_counts[c]  = 0,
                        !.busy_notice_sent = @ \ {c}]

\* Mutation: nothing is dead-lettered.
RetryForEver(q, c) == FALSE

\* requeue(batch) dead-letters (and hands the batch back) once the budget is spent.
RetryExhausted(q, c) == q.retry_counts[c] + 1 > MaxRetries

Requeue(q, b) ==
  LET c == b.channel_id
  IN  IF RetryExhausted(q, c)
      THEN [q EXCEPT !.retry_counts[c]  = 0,
                     !.retry_after[c]   = "none",
                     !.busy_notice_sent = @ \ {c}]
      ELSE [RestoreFront([q EXCEPT !.retry_counts[c] = @ + 1], c, b.events)
             EXCEPT !.retry_after[c] = "pending"]

\* Mutation: a batch that finds no agent is dropped.
DropUndispatched(q, b) == q

RequeuePreserveTimestamps(q, b) == RestoreFront(q, b.channel_id, b.events)

RequeueAsCancelled(q, b, reason) ==
  LET c     == b.channel_id
      whole == q.cancelled_batches[c] \o b.cancelled_events \o b.events
      kept  == KeepLast(whole, MaxPending)
  IN  [q EXCEPT !.cancelled_batches[c] = kept,
                !.cancel_reasons[c]    = reason,
                !.evicted              = @ \cup (Ids(whole) \ Ids(kept))]

\* take_busy_notice_pending: the notice itself is posted once per retry cycle.
TakeBusyNotice(q, c) == [q EXCEPT !.busy_notice_sent = @ \cup {c}]

ClearRetryAfter(q, c) == [q EXCEPT !.retry_after[c] = "none"]

\* compact_expired_state
CompactExpiredState(q) ==
  LET throttles == [c \in Conversations |->
                      IF q.retry_after[c] = "elapsed" THEN "none" ELSE q.retry_after[c]]
      counted(c) == throttles[c] # "none" \/ q.queues[c] # <<>> \/ c \in q.in_flight_channels
  IN  [q EXCEPT !.retry_after  = throttles,
                !.retry_counts = [c \in Conversations |->
                                    IF counted(c) THEN q.retry_counts[c] ELSE 0]]

-----------------------------------------------------------------------------
(* Draining, steering and editing *)

\* drain_channel: everything but the in-flight marks of the conversation.
DrainChannels(q, cs) ==
  [q EXCEPT
    !.queues                = [c \in Conversations |-> IF c \in cs THEN <<>> ELSE @[c]],
    !.retry_after           = [c \in Conversations |-> IF c \in cs THEN "none" ELSE @[c]],
    !.retry_counts          = [c \in Conversations |-> IF c \in cs THEN 0 ELSE @[c]],
    !.busy_notice_sent      = @ \ cs,
    !.cancelled_batches     = [c \in Conversations |-> IF c \in cs THEN <<>> ELSE @[c]],
    !.cancel_reasons        = [c \in Conversations |-> IF c \in cs THEN "none" ELSE @[c]],
    !.withheld_native_steer = [c \in Conversations |-> IF c \in cs THEN <<>> ELSE @[c]]]

\* Events of conversation c the queue itself holds, dispatched ones excluded.
HeldIds(q, c) ==
  Ids(q.queues[c]) \cup Ids(q.cancelled_batches[c]) \cup Ids(q.withheld_native_steer[c])

\* drain_routing_channel: the conversations with at least one held event there.
RoutedWork(q, ch) == {c \in Conversations : Routing[c] = ch /\ HeldIds(q, c) # {}}

Position(s, e)  == CHOOSE i \in DOMAIN s : s[i].id = e

\* retain(|x| x.id != e)
Without(s, e) ==
  LET kept == {i \in DOMAIN s : s[i].id # e}
  IN  [k \in 1 .. Cardinality(kept) |->
         s[CHOOSE i \in kept : Cardinality({j \in kept : j < i}) = k - 1]]

\* Mutation: a steered event stays in the ready queue.
SteerInPlace(q, c, e) == q

MarkNativeSteerPending(q, c, e) ==
  IF e \notin Ids(q.queues[c]) THEN q
  ELSE LET i == Position(q.queues[c], e)
       IN  [q EXCEPT !.queues[c] = RemoveAt(@, i),
                     !.withheld_native_steer[c] = Append(@, q.queues[c][i])]

\* Mutation: a released event is taken off the withheld list and not restored.
ReleaseDrops(q, c, e) == [q EXCEPT !.withheld_native_steer[c] = Without(@, e)]

ReleaseNativeSteer(q, c, e) ==
  LET w == q.withheld_native_steer[c]
      i == Position(w, e)
  IN  IF e \notin Ids(w) THEN q
      ELSE RestoreFront([q EXCEPT !.withheld_native_steer[c] = RemoveAt(w, i)], c, <<w[i]>>)

\* remove_event(c, e)
RemoveEvent(q, c, e) ==
  [q EXCEPT !.queues[c] = Without(@, e), !.withheld_native_steer[c] = Without(@, e)]

\* remove_event_by_id and patch_event find the event wherever it is queued or
\* withheld; an event id belongs to one conversation.
EditApplies(q, e) ==
  e \in Ids(q.queues[ConvOf[e]]) \cup Ids(q.withheld_native_steer[ConvOf[e]])

RemoveEventById(q, e) == RemoveEvent(q, ConvOf[e], e)

PatchEvent(q, e) ==
  LET c       == ConvOf[e]
      patch(s) == [i \in DOMAIN s |-> IF i = Position(s, e) THEN [s[i] EXCEPT !.edited = TRUE]
                                       ELSE s[i]]
  IN  CASE e \in Ids(q.withheld_native_steer[c]) ->
             [q EXCEPT !.withheld_native_steer[c] = patch(@)]
        [] e \notin Ids(q.withheld_native_steer[c]) /\ e \in Ids(q.queues[c]) ->
             [q EXCEPT !.queues[c] = patch(@)]
        [] OTHER -> q
=============================================================================
