----------------------------- MODULE PlaceProofs -----------------------------
(***************************************************************************)
(* Machine-checked proofs about where the harness keeps an event: in one   *)
(* list of the queue or in one batch, never in two; after a steer in the   *)
(* withheld list until the ack is handled; and, once it is accepted, some- *)
(* where until it is settled.  Module ContentProofs has the types these    *)
(* proofs rest on, module HarnessProofs the locks, module QueueProofs what *)
(* each operation of the queue keeps.                                      *)
(***************************************************************************)
EXTENDS ContentProofs, HarnessAccounting

-----------------------------------------------------------------------------
(* The lists of one conversation *)

\* The lists of conversation c hold each event once, and none that is in flight.
ListsApart(k, c) ==
  /\ NoDup(k.queues[c]) /\ NoDup(k.cancelled_batches[c]) /\ NoDup(k.withheld_native_steer[c])
  /\ Ids(k.queues[c]) \cap Ids(k.cancelled_batches[c]) = {}
  /\ Ids(k.queues[c]) \cap Ids(k.withheld_native_steer[c]) = {}
  /\ Ids(k.cancelled_batches[c]) \cap Ids(k.withheld_native_steer[c]) = {}
  /\ k.in_flight_event_ids[c] \cap HeldIds(k, c) = {}

\* Conversation c holds only events of its own, so what an overrun does to one
\* conversation cannot reach another; a punctual one also keeps its lists apart.
QueueApart(k, c) ==
  /\ \A e \in HeldIds(k, c) \cup k.in_flight_event_ids[c] : ConvOf[e] = c
  /\ c \notin Overruns => ListsApart(k, c)

\* Batch b holds each of its events once, and the queue has them in flight.
BatchOnce(k, b) ==
  /\ NoDup(b.events) /\ NoDup(b.cancelled_events)
  /\ Ids(b.events) \cap Ids(b.cancelled_events) = {}
  /\ BatchIds(b) \subseteq k.in_flight_event_ids[b.channel_id]

\* It holds events of its conversation only, in a punctual one as above.
BatchApart(k, b) ==
  /\ \A e \in BatchIds(b) : ConvOf[e] = b.channel_id
  /\ b.channel_id \notin Overruns => BatchOnce(k, b)

\* A queue that only lost events.
LEMMA LessApart ==
  ASSUME NEW k, QueueType(k), NEW r, QueueType(r), NEW c \in Conversations, QueueApart(k, c),
         Drawn(r.queues[c], k.queues[c]),
         Drawn(r.cancelled_batches[c], k.cancelled_batches[c]),
         Drawn(r.withheld_native_steer[c], k.withheld_native_steer[c]),
         r.in_flight_event_ids[c] \subseteq k.in_flight_event_ids[c]
  PROVE  QueueApart(r, c)
<1>1. /\ k.queues[c] \in Seq(Entry) /\ k.cancelled_batches[c] \in Seq(Entry)
      /\ k.withheld_native_steer[c] \in Seq(Entry) /\ r.queues[c] \in Seq(Entry)
      /\ r.cancelled_batches[c] \in Seq(Entry) /\ r.withheld_native_steer[c] \in Seq(Entry)
  BY ListTypes
<1>2. /\ Ids(r.queues[c]) \subseteq Ids(k.queues[c])
      /\ Ids(r.cancelled_batches[c]) \subseteq Ids(k.cancelled_batches[c])
      /\ Ids(r.withheld_native_steer[c]) \subseteq Ids(k.withheld_native_steer[c])
      /\ ListsApart(k, c) => /\ NoDup(r.queues[c]) /\ NoDup(r.cancelled_batches[c])
                             /\ NoDup(r.withheld_native_steer[c])
  BY <1>1, DrawnProperties DEF ListsApart
<1> QED
  BY <1>2 DEF QueueApart, ListsApart, HeldIds

\* Operations that move no event and put none in flight.
LEMMA SameApart ==
  ASSUME NEW k, NEW r, SameEvents(k, r), NEW c \in Conversations, QueueApart(k, c),
         r.in_flight_event_ids[c] \subseteq k.in_flight_event_ids[c]
  PROVE  QueueApart(r, c)
  BY DEF SameEvents, QueueApart, ListsApart, HeldIds

\* push of an event that is nowhere in the conversation.
LEMMA PushApart ==
  ASSUME NEW k, QueueType(k), CapOK(k), NEW e \in Events, NEW t \in Nat, NEW x \in BOOLEAN,
         \A d \in Conversations : QueueApart(k, d), ~ContainsEvent(k, ConvOf[e], e)
  PROVE  \A d \in Conversations : QueueApart(Push(k, e, t, x, FALSE), d)
<1> DEFINE c == ConvOf[e]
           r == Push(k, e, t, x, FALSE)
           entry == [id |-> e, received_at |-> t, hold_exempt |-> x, edited |-> FALSE]
<1>1. c \in Conversations /\ FALSE \in BOOLEAN
  BY QueueAssumption
<1>2. /\ QueueType(r) /\ OnlyReady(k, r)
      /\ \A d \in Conversations \ {c} : Drawn(r.queues[d], k.queues[d])
      /\ Drawn(r.queues[c], Append(k.queues[c], entry))
  BY <1>1, PushProperties
<1>3. entry \in Entry /\ entry.id = e
  BY <1>1 DEF Entry
<1>4. e \notin HeldIds(k, c) /\ e \notin k.in_flight_event_ids[c] /\ ConvOf[e] = c
  BY DEF ContainsEvent, HeldIds
<1> HIDE DEF r, entry, c
<1>5. /\ r.cancelled_batches = k.cancelled_batches /\ r.withheld_native_steer = k.withheld_native_steer
      /\ r.in_flight_event_ids = k.in_flight_event_ids
  BY <1>2 DEF OnlyReady
<1>6. ASSUME NEW d \in Conversations \ {c} PROVE QueueApart(r, d)
  BY <1>2, <1>5, <1>6, DrawnSelf, LessApart
<1>7. QueueApart(r, c)
  <2>1. k.queues[c] \in Seq(Entry) /\ r.queues[c] \in Seq(Entry)
    BY <1>1, <1>2, ListTypes
  <2>2. /\ Append(k.queues[c], entry) \in Seq(Entry)
        /\ Ids(Append(k.queues[c], entry)) = Ids(k.queues[c]) \cup {e}
        /\ ListsApart(k, c) => NoDup(Append(k.queues[c], entry))
    BY <1>1, <1>3, <1>4, <2>1, AppendIds DEF ListsApart, HeldIds
  <2>3. /\ Ids(r.queues[c]) \subseteq Ids(k.queues[c]) \cup {e}
        /\ ListsApart(k, c) => NoDup(r.queues[c])
    <3>1. PICK s : s = Append(k.queues[c], entry)
      OBVIOUS
    <3>2. /\ s \in Seq(Entry) /\ Ids(s) = Ids(k.queues[c]) \cup {e} /\ Drawn(r.queues[c], s)
          /\ ListsApart(k, c) => NoDup(s)
      BY <1>2, <2>2, <3>1
    <3> QED
      BY <2>1, <3>2, DrawnProperties
  <2>4. QueueApart(k, c)
    BY <1>1
  <2> QED
    BY <1>4, <1>5, <2>3, <2>4 DEF QueueApart, ListsApart, HeldIds
<1> QED
  BY <1>6, <1>7 DEF r

\* A steered event moves from the ready queue to the withheld list.
LEMMA WithholdApart ==
  ASSUME NEW k, QueueType(k), CapOK(k), NEW c \in Conversations, NEW e,
         \A d \in Conversations : QueueApart(k, d)
  PROVE  \A d \in Conversations : QueueApart(MarkNativeSteerPending(k, c, e), d)
<1> DEFINE r == MarkNativeSteerPending(k, c, e)
<1>1. /\ QueueType(r) /\ OnlyEvents(k, r) /\ r.cancelled_batches = k.cancelled_batches
      /\ \A d \in Conversations : Drawn(r.queues[d], k.queues[d])
      /\ \A d \in Conversations \ {c} : r.withheld_native_steer[d] = k.withheld_native_steer[d]
  BY WithholdProperties
<1>2. \/ r = k /\ e \notin Ids(k.queues[c])
      \/ /\ \E x \in Entry : /\ x.id = e
                             /\ \E i \in 1 .. Len(k.queues[c]) : x = k.queues[c][i]
                             /\ r.withheld_native_steer[c] = Append(k.withheld_native_steer[c], x)
         /\ NoDup(k.queues[c]) => e \notin Ids(r.queues[c])
  BY WithholdProperties, Zenon
<1> HIDE DEF r
<1>3. r.in_flight_event_ids = k.in_flight_event_ids
  BY <1>1 DEF OnlyEvents
<1>4. CASE r = k
  BY <1>4 DEF r
<1>5. ASSUME NEW x \in Entry, x.id = e, NEW i \in 1 .. Len(k.queues[c]), x = k.queues[c][i],
             r.withheld_native_steer[c] = Append(k.withheld_native_steer[c], x),
             NoDup(k.queues[c]) => e \notin Ids(r.queues[c])
      PROVE  \A d \in Conversations : QueueApart(r, d)
  <2>1. ASSUME NEW d \in Conversations \ {c} PROVE QueueApart(r, d)
    BY <1>1, <1>3, <2>1, DrawnSelf, LessApart
  <2>2. QueueApart(r, c)
    <3>1. QueueApart(k, c)
      OBVIOUS
    <3>2. k.queues[c] \in Seq(Entry) /\ r.queues[c] \in Seq(Entry) /\ k.withheld_native_steer[c] \in Seq(Entry)
      BY <1>1, ListTypes
    <3>3. e \in Ids(k.queues[c])
      <4>1. DOMAIN k.queues[c] = 1 .. Len(k.queues[c])
        BY <3>2, LenProperties
      <4> QED
        BY <1>5, <4>1 DEF Ids
    <3>4. /\ Ids(r.queues[c]) \subseteq Ids(k.queues[c])
          /\ ListsApart(k, c) => NoDup(r.queues[c]) /\ e \notin Ids(r.queues[c])
      BY <1>1, <1>5, <3>2, DrawnProperties DEF ListsApart
    <3>5. /\ Ids(r.withheld_native_steer[c]) = Ids(k.withheld_native_steer[c]) \cup {e}
          /\ ListsApart(k, c) => NoDup(r.withheld_native_steer[c])
      BY <1>5, <3>2, <3>3, AppendIds DEF ListsApart
    <3> QED
      BY <1>1, <1>3, <3>1, <3>3, <3>4, <3>5 DEF QueueApart, ListsApart, HeldIds
  <2> QED
    BY <2>1, <2>2
<1> QED
  BY <1>2, <1>4, <1>5 DEF r

\* A released one moves back.
LEMMA ReleaseApart ==
  ASSUME NEW k, QueueType(k), CapOK(k), NEW c \in Conversations, NEW e,
         \A d \in Conversations : QueueApart(k, d)
  PROVE  \A d \in Conversations : QueueApart(ReleaseNativeSteer(k, c, e), d)
<1> DEFINE r == ReleaseNativeSteer(k, c, e)
           w == k.withheld_native_steer[c]
<1>1. /\ QueueType(r) /\ r.in_flight_event_ids = k.in_flight_event_ids
      /\ r.cancelled_batches = k.cancelled_batches
      /\ \A d \in Conversations \ {c} : /\ Drawn(r.queues[d], k.queues[d])
                                        /\ r.withheld_native_steer[d] = k.withheld_native_steer[d]
  BY ReleaseProperties
<1>2. \/ r = k /\ e \notin Ids(w)
      \/ /\ Drawn(r.withheld_native_steer[c], w)
         /\ Ids(w) \subseteq Ids(r.withheld_native_steer[c]) \cup {e}
         /\ NoDup(w) => e \notin Ids(r.withheld_native_steer[c])
         /\ e \in Ids(w)
         /\ \E x \in Entry : /\ x.id = e
                             /\ \E i \in 1 .. Len(w) : x = w[i]
                             /\ Drawn(r.queues[c], <<x>> \o k.queues[c])
  BY ReleaseProperties, Zenon
<1> HIDE DEF r
<1>3. CASE r = k
  BY <1>3 DEF r
<1>4. ASSUME Drawn(r.withheld_native_steer[c], w), e \in Ids(w),
             NoDup(w) => e \notin Ids(r.withheld_native_steer[c]),
             NEW x \in Entry, x.id = e, Drawn(r.queues[c], <<x>> \o k.queues[c])
      PROVE  \A d \in Conversations : QueueApart(r, d)
  <2>1. ASSUME NEW d \in Conversations \ {c} PROVE QueueApart(r, d)
    BY <1>1, <2>1, DrawnSelf, LessApart
  <2>2. QueueApart(r, c)
    <3>1. QueueApart(k, c)
      OBVIOUS
    <3>2. /\ k.queues[c] \in Seq(Entry) /\ r.queues[c] \in Seq(Entry) /\ w \in Seq(Entry)
          /\ r.withheld_native_steer[c] \in Seq(Entry)
      BY <1>1, ListTypes
    <3>3. <<x>> \in Seq(Entry) /\ Ids(<<x>>) = {e} /\ NoDup(<<x>>)
      BY <1>4 DEF Ids, NoDup
    <3>4. ListsApart(k, c) => e \notin Ids(k.queues[c]) /\ NoDup(k.queues[c])
      BY <1>4 DEF ListsApart
    <3>5. PICK one : one = <<x>>
      OBVIOUS
    <3>8. PICK s : s = one \o k.queues[c]
      OBVIOUS
    <3>9. one \in Seq(Entry) /\ NoDup(one) /\ Ids(one) = {e}
      BY <3>3, <3>5
    <3>10. /\ s \in Seq(Entry) /\ Ids(s) = {e} \cup Ids(k.queues[c])
           /\ ListsApart(k, c) => NoDup(s)
      BY <3>2, <3>4, <3>8, <3>9, ConcatIds
    <3>11. Drawn(r.queues[c], s)
      BY <1>4, <3>5, <3>8
    <3>6. /\ Ids(r.queues[c]) \subseteq {e} \cup Ids(k.queues[c])
          /\ ListsApart(k, c) => NoDup(r.queues[c])
      BY <3>2, <3>10, <3>11, DrawnProperties
    <3>7. /\ Ids(r.withheld_native_steer[c]) \subseteq Ids(w)
          /\ ListsApart(k, c) => /\ NoDup(r.withheld_native_steer[c])
                                 /\ e \notin Ids(r.withheld_native_steer[c])
      BY <1>4, <3>2, DrawnProperties DEF ListsApart
    <3> QED
      BY <1>1, <1>4, <3>1, <3>6, <3>7 DEF QueueApart, ListsApart, HeldIds
  <2> QED
    BY <2>1, <2>2
<1> QED
  BY <1>2, <1>3, <1>4 DEF r

\* Removals, edits and drains.
LEMMA EditApart ==
  ASSUME NEW k, QueueType(k), CapOK(k), \A d \in Conversations : QueueApart(k, d)
  PROVE  /\ \A c \in Conversations : \A e : \A d \in Conversations : QueueApart(RemoveEvent(k, c, e), d)
         /\ \A e \in Events : \A d \in Conversations : QueueApart(PatchEvent(k, e), d)
         /\ \A cs : \A d \in Conversations : QueueApart(DrainChannels(k, cs), d)
<1>1. ASSUME NEW c \in Conversations, NEW e, NEW d \in Conversations
      PROVE  QueueApart(RemoveEvent(k, c, e), d)
  <2> DEFINE r == RemoveEvent(k, c, e)
  <2>1. /\ QueueType(r) /\ OnlyEvents(k, r) /\ r.cancelled_batches = k.cancelled_batches
        /\ Drawn(r.queues[d], k.queues[d])
        /\ Drawn(r.withheld_native_steer[d], k.withheld_native_steer[d])
    BY RemoveProperties
  <2> HIDE DEF r
  <2>2. QueueApart(r, d)
    BY <2>1, DrawnSelf, LessApart DEF OnlyEvents
  <2> QED
    BY <2>2 DEF r
<1>2. ASSUME NEW e \in Events, NEW d \in Conversations PROVE QueueApart(PatchEvent(k, e), d)
  <2> DEFINE r == PatchEvent(k, e)
  <2>1. /\ QueueType(r) /\ OnlyEvents(k, r) /\ r.cancelled_batches = k.cancelled_batches
        /\ Drawn(r.queues[d], k.queues[d])
        /\ Drawn(r.withheld_native_steer[d], k.withheld_native_steer[d])
    BY PatchProperties
  <2> HIDE DEF r
  <2>2. QueueApart(r, d)
    BY <2>1, DrawnSelf, LessApart DEF OnlyEvents
  <2> QED
    BY <2>2 DEF r
<1>3. ASSUME NEW cs, NEW d \in Conversations PROVE QueueApart(DrainChannels(k, cs), d)
  <2> DEFINE r == DrainChannels(k, cs)
  <2>1. /\ QueueType(r) /\ r.in_flight_event_ids = k.in_flight_event_ids
        /\ r.queues[d] \in {<<>>, k.queues[d]}
        /\ r.cancelled_batches[d] \in {<<>>, k.cancelled_batches[d]}
        /\ r.withheld_native_steer[d] \in {<<>>, k.withheld_native_steer[d]}
    BY DrainProperties
  <2> HIDE DEF r
  <2>2. /\ k.queues[d] \in Seq(Entry) /\ k.cancelled_batches[d] \in Seq(Entry)
        /\ k.withheld_native_steer[d] \in Seq(Entry)
    BY ListTypes
  <2>3. /\ Drawn(r.queues[d], k.queues[d]) /\ Drawn(r.cancelled_batches[d], k.cancelled_batches[d])
        /\ Drawn(r.withheld_native_steer[d], k.withheld_native_steer[d])
    BY <2>1, <2>2, DrawnSelf, DrawnEmpty
  <2>4. QueueApart(r, d)
    BY <2>1, <2>3, LessApart
  <2> QED
    BY <2>4 DEF r
<1> QED
  BY <1>1, <1>2, <1>3

\* A completed conversation has nothing in flight.
LEMMA CompleteApart ==
  ASSUME NEW k, QueueType(k), NEW c \in Conversations, \A d \in Conversations : QueueApart(k, d)
  PROVE  \A d \in Conversations : QueueApart(MarkComplete(k, c), d)
<1> DEFINE r == MarkComplete(k, c)
<1>1. /\ SameEvents(k, r) /\ r.in_flight_event_ids[c] = {}
      /\ \A d \in Conversations \ {c} : r.in_flight_event_ids[d] = k.in_flight_event_ids[d]
  BY MarkCompleteProperties
<1> HIDE DEF r
<1>2. \A d \in Conversations : QueueApart(r, d)
  BY <1>1, SameApart
<1> QED
  BY <1>2 DEF r

\* A batch goes back to the front of its queue while the conversation is completed:
\* what was in flight is then ready, and only that.
LEMMA RequeueApart ==
  ASSUME NEW k, QueueType(k), CapOK(k), \A d \in Conversations : QueueApart(k, d),
         NEW b \in FlushBatch, BatchApart(k, b),
         NEW u \in {Requeue(k, b), RequeuePreserveTimestamps(k, b)}
  PROVE  \A d \in Conversations : QueueApart(MarkComplete(u, b.channel_id), d)
<1>1. PICK c : c = b.channel_id
  OBVIOUS
<1>2. /\ c \in Conversations /\ b.events \in Seq(Entry) /\ QueueApart(k, c)
      /\ \A e \in Ids(b.events) : ConvOf[e] = c
      /\ c \notin Overruns => ListsApart(k, c) /\ BatchOnce(k, b)
  BY <1>1, BatchTypes DEF BatchApart, BatchIds, QueueApart
<1>3. /\ QueueType(u) /\ u.in_flight_event_ids = k.in_flight_event_ids
      /\ u.cancelled_batches = k.cancelled_batches
      /\ u.withheld_native_steer = k.withheld_native_steer
      /\ \A d \in Conversations \ {c} : Drawn(u.queues[d], k.queues[d])
      /\ Drawn(u.queues[c], b.events \o k.queues[c])
  BY <1>1, RequeueProperties
<1>4. PICK r : r = MarkComplete(u, c)
  OBVIOUS
<1>5. /\ QueueType(r) /\ SameEvents(u, r) /\ r.in_flight_event_ids[c] = {}
      /\ \A d \in Conversations \ {c} : r.in_flight_event_ids[d] = u.in_flight_event_ids[d]
  BY <1>2, <1>3, <1>4, MarkCompleteProperties
<1>6. /\ r.queues = u.queues /\ r.cancelled_batches = k.cancelled_batches
      /\ r.withheld_native_steer = k.withheld_native_steer
  BY <1>3, <1>5 DEF SameEvents
<1>7. ASSUME NEW d \in Conversations \ {c} PROVE QueueApart(r, d)
  BY <1>3, <1>5, <1>6, <1>7, DrawnSelf, LessApart
<1>8. QueueApart(r, c)
  <2>1. k.queues[c] \in Seq(Entry) /\ r.queues[c] \in Seq(Entry)
    BY <1>2, <1>5, ListTypes
  <2>2. PICK s : s = b.events \o k.queues[c]
    OBVIOUS
  <2>3. c \notin Overruns => /\ Ids(b.events) \subseteq k.in_flight_event_ids[c]
                            /\ Ids(b.events) \cap Ids(k.queues[c]) = {}
                            /\ NoDup(b.events) /\ NoDup(k.queues[c])
    BY <1>1, <1>2 DEF ListsApart, HeldIds, BatchOnce, BatchIds
  <2>4. /\ s \in Seq(Entry) /\ Ids(s) = Ids(b.events) \cup Ids(k.queues[c])
        /\ c \notin Overruns => NoDup(s)
    BY <1>2, <2>1, <2>2, <2>3, ConcatIds
  <2>5. Drawn(r.queues[c], s)
    BY <1>3, <1>6, <2>2
  <2>6. /\ Ids(r.queues[c]) \subseteq Ids(b.events) \cup Ids(k.queues[c])
        /\ c \notin Overruns => NoDup(r.queues[c])
    BY <2>1, <2>4, <2>5, DrawnProperties
  <2> QED
    BY <1>2, <1>5, <1>6, <2>3, <2>6 DEF QueueApart, ListsApart, HeldIds
<1> QED
  BY <1>1, <1>4, <1>7, <1>8

\* A cancelled batch is kept apart while the conversation is completed.
LEMMA CancelApart ==
  ASSUME NEW k, QueueType(k), CapOK(k), \A d \in Conversations : QueueApart(k, d),
         NEW b \in FlushBatch, BatchApart(k, b), NEW reason \in CancelReasons
  PROVE  \A d \in Conversations :
           QueueApart(MarkComplete(RequeueAsCancelled(k, b, reason), b.channel_id), d)
<1>1. PICK c, u : c = b.channel_id /\ u = RequeueAsCancelled(k, b, reason)
  OBVIOUS
<1>2. /\ c \in Conversations /\ b.events \in Seq(Entry) /\ b.cancelled_events \in Seq(Entry)
      /\ QueueApart(k, c)
      /\ \A e \in Ids(b.events) \cup Ids(b.cancelled_events) : ConvOf[e] = c
      /\ c \notin Overruns => ListsApart(k, c) /\ BatchOnce(k, b)
  BY <1>1, BatchTypes DEF BatchApart, BatchIds, QueueApart
<1>3. /\ QueueType(u) /\ u.in_flight_event_ids = k.in_flight_event_ids
      /\ u.queues = k.queues
      /\ u.withheld_native_steer = k.withheld_native_steer
      /\ \A d \in Conversations \ {c} : u.cancelled_batches[d] = k.cancelled_batches[d]
      /\ Drawn(u.cancelled_batches[c], k.cancelled_batches[c] \o b.cancelled_events \o b.events)
  BY <1>1, CancelProperties
<1>4. PICK r : r = MarkComplete(u, c)
  OBVIOUS
<1>5. /\ QueueType(r) /\ SameEvents(u, r) /\ r.in_flight_event_ids[c] = {}
      /\ \A d \in Conversations \ {c} : r.in_flight_event_ids[d] = u.in_flight_event_ids[d]
  BY <1>2, <1>3, <1>4, MarkCompleteProperties
<1>6. /\ r.queues = k.queues /\ r.cancelled_batches = u.cancelled_batches
      /\ r.withheld_native_steer = k.withheld_native_steer
  BY <1>3, <1>5 DEF SameEvents
<1>7. ASSUME NEW d \in Conversations \ {c} PROVE QueueApart(r, d)
  BY <1>3, <1>5, <1>6, <1>7, DrawnSelf, LessApart
<1>8. QueueApart(r, c)
  <2>1. k.cancelled_batches[c] \in Seq(Entry) /\ r.cancelled_batches[c] \in Seq(Entry)
    BY <1>2, <1>5, ListTypes
  <2>2. PICK old : old = k.cancelled_batches[c] \o b.cancelled_events
    OBVIOUS
  <2>3. PICK s : s = old \o b.events
    OBVIOUS
  <2>4. c \notin Overruns =>
          /\ Ids(b.events) \cup Ids(b.cancelled_events) \subseteq k.in_flight_event_ids[c]
          /\ Ids(b.cancelled_events) \cap Ids(k.cancelled_batches[c]) = {} /\ NoDup(b.cancelled_events)
          /\ Ids(b.events) \cap Ids(k.cancelled_batches[c]) = {} /\ NoDup(b.events)
          /\ Ids(b.events) \cap Ids(b.cancelled_events) = {} /\ NoDup(k.cancelled_batches[c])
    BY <1>1, <1>2 DEF ListsApart, HeldIds, BatchOnce, BatchIds
  <2>5. /\ old \in Seq(Entry)
        /\ Ids(old) = Ids(k.cancelled_batches[c]) \cup Ids(b.cancelled_events)
        /\ c \notin Overruns => NoDup(old)
    BY <1>2, <2>1, <2>2, <2>4, ConcatIds
  <2>6. c \notin Overruns => Ids(old) \cap Ids(b.events) = {}
    BY <2>4, <2>5
  <2>7. /\ s \in Seq(Entry) /\ Ids(s) = Ids(old) \cup Ids(b.events)
        /\ c \notin Overruns => NoDup(s)
    BY <1>2, <2>3, <2>4, <2>5, <2>6, ConcatIds
  <2>8. Drawn(r.cancelled_batches[c], s)
    BY <1>3, <1>6, <2>2, <2>3
  <2>9. /\ Ids(r.cancelled_batches[c])
             \subseteq Ids(k.cancelled_batches[c]) \cup Ids(b.cancelled_events) \cup Ids(b.events)
        /\ c \notin Overruns => NoDup(r.cancelled_batches[c])
    BY <2>1, <2>5, <2>7, <2>8, DrawnProperties
  <2> QED
    BY <1>2, <1>5, <1>6, <2>4, <2>9 DEF QueueApart, ListsApart, HeldIds
<1> QED
  BY <1>1, <1>4, <1>7, <1>8

\* flush_next moves the batch from the lists to in_flight_event_ids.
LEMMA FlushApart ==
  ASSUME NEW k, QueueType(k), CapOK(k), \A d \in Conversations : QueueApart(k, d),
         NEW m, NEW c \in Conversations
  PROVE  /\ \A d \in Conversations : QueueApart(Flushed(k, m, c), d)
         /\ BatchApart(Flushed(k, m, c), BatchFor(k, m, c))
         /\ BatchIds(BatchFor(k, m, c)) \subseteq HeldIds(k, c)
<1>1. PICK r, b : r = Flushed(k, m, c) /\ b = BatchFor(k, m, c)
  OBVIOUS
<1>2. /\ QueueType(r)
      /\ r.in_flight_event_ids[c] = BatchIds(b)
      /\ r.cancelled_batches[c] = <<>>
      /\ r.withheld_native_steer = k.withheld_native_steer
      /\ \A d \in Conversations \ {c} : /\ r.queues[d] = k.queues[d]
                                        /\ r.cancelled_batches[d] = k.cancelled_batches[d]
                                        /\ r.in_flight_event_ids[d] = k.in_flight_event_ids[d]
      /\ Drawn(r.queues[c], k.queues[c])
      /\ NoDup(k.queues[c]) /\ c \in Candidates(k, m) => Ids(r.queues[c]) \cap Ids(b.events) = {}
  BY <1>1, FlushedProperties
<1>3. /\ b \in FlushBatch /\ b.channel_id = c
      /\ c \in Candidates(k, m) => /\ Drawn(b.events, KeepFirst(k.queues[c], MaxBatch))
                                   /\ b.cancelled_events = k.cancelled_batches[c]
      /\ c \notin Candidates(k, m) => b.events = k.cancelled_batches[c] /\ b.cancelled_events = <<>>
  BY <1>1, BatchProperties
<1>4. /\ k.queues[c] \in Seq(Entry) /\ k.cancelled_batches[c] \in Seq(Entry)
      /\ b.events \in Seq(Entry) /\ r.queues[c] \in Seq(Entry) /\ QueueApart(k, c) /\ MaxBatch \in Nat
  BY <1>2, <1>3, ListTypes, BatchTypes, QueueAssumption
<1>5. Ids(<<>>) = {} /\ NoDup(<<>>)
  BY DEF Ids, NoDup
<1>6. /\ Ids(r.queues[c]) \subseteq Ids(k.queues[c])
      /\ ListsApart(k, c) => NoDup(r.queues[c])
  BY <1>2, <1>4, DrawnProperties DEF ListsApart
<1>7. ASSUME c \in Candidates(k, m)
      PROVE  BatchApart(r, b) /\ BatchIds(b) \subseteq HeldIds(k, c) /\ QueueApart(r, c)
  <2>1. PICK first : first = KeepFirst(k.queues[c], MaxBatch)
    OBVIOUS
  <2>2. first \in Seq(Entry) /\ Drawn(first, k.queues[c])
    BY <1>4, <2>1, KeepProperties
  <2>3. Drawn(b.events, k.queues[c])
    BY <1>3, <1>7, <2>1, <2>2, DrawnTrans
  <2>4. /\ Ids(b.events) \subseteq Ids(k.queues[c])
        /\ ListsApart(k, c) => NoDup(b.events)
    BY <1>4, <2>3, DrawnProperties DEF ListsApart
  <2>5. /\ b.cancelled_events = k.cancelled_batches[c]
        /\ ListsApart(k, c) => Ids(r.queues[c]) \cap Ids(b.events) = {}
    BY <1>2, <1>3, <1>7 DEF ListsApart
  <2>6. BatchApart(r, b) /\ BatchIds(b) \subseteq HeldIds(k, c)
    BY <1>2, <1>3, <1>4, <2>4, <2>5
    DEF BatchApart, BatchOnce, QueueApart, ListsApart, BatchIds, HeldIds
  <2>7. QueueApart(r, c)
    BY <1>2, <1>4, <1>5, <1>6, <2>4, <2>5 DEF QueueApart, ListsApart, BatchIds, HeldIds
  <2> QED
    BY <2>6, <2>7
<1>8. ASSUME c \notin Candidates(k, m)
      PROVE  BatchApart(r, b) /\ BatchIds(b) \subseteq HeldIds(k, c) /\ QueueApart(r, c)
  <2>1. b.events = k.cancelled_batches[c] /\ b.cancelled_events = <<>>
    BY <1>3, <1>8
  <2>2. BatchApart(r, b) /\ BatchIds(b) \subseteq HeldIds(k, c)
    BY <1>2, <1>3, <1>4, <1>5, <2>1
    DEF BatchApart, BatchOnce, QueueApart, ListsApart, BatchIds, HeldIds
  <2>3. QueueApart(r, c)
    BY <1>2, <1>4, <1>5, <1>6, <2>1 DEF QueueApart, ListsApart, BatchIds, HeldIds
  <2> QED
    BY <2>2, <2>3
<1>9. BatchApart(r, b) /\ BatchIds(b) \subseteq HeldIds(k, c) /\ QueueApart(r, c)
  BY <1>7, <1>8
<1>10. ASSUME NEW d \in Conversations \ {c} PROVE QueueApart(r, d)
  BY <1>2, <1>10 DEF QueueApart, ListsApart, HeldIds
<1> QED
  BY <1>1, <1>9, <1>10


-----------------------------------------------------------------------------
(* The inductive invariant behind EventInOnePlace *)

\* The batch of a task is apart from the queue and belongs to the task's conversation;
\* a heartbeat has no event.
TaskApart(k, t) ==
  t.phase # "free" =>
    /\ BatchApart(k, t.batch)
    /\ t.conv = Heartbeat => BatchIds(t.batch) = {}
    /\ t.conv # Heartbeat => t.batch.channel_id = t.conv

\* What push checks (in_flight_event_ids beside the three lists of a conversation) is
\* really everything that is out: each batch, with a task or parked, is recorded there,
\* and the lists share no event with that record or with each other.
PlaceInv ==
  /\ \A c \in Conversations : QueueApart(q, c)
  /\ \A a \in Agents : TaskApart(q, tasks[a])
  /\ \A i \in 1 .. Len(waiting) : BatchApart(q, waiting[i])

\* Batches of conversations that the step does not complete stay recorded.
LEMMA BatchKept ==
  ASSUME NEW k, NEW r, NEW b, BatchApart(k, b),
         \/ BatchIds(b) = {} \/ b.channel_id \in Overruns
         \/ r.in_flight_event_ids[b.channel_id] = k.in_flight_event_ids[b.channel_id]
  PROVE  BatchApart(r, b)
  BY DEF BatchApart, BatchOnce

\* So do the tasks of other conversations; one that may overrun has no record to keep.
LEMMA TaskElsewhere ==
  ASSUME NEW k, NEW r, NEW c, NEW t, t.conv \in Conversations \cup {Heartbeat}, TaskApart(k, t),
         t.phase = "free" \/ t.conv # c \/ t.conv \in Overruns,
         \A d \in Conversations \ {c} : r.in_flight_event_ids[d] = k.in_flight_event_ids[d]
  PROVE  TaskApart(r, t)
<1>1. CASE t.phase = "free"
  BY <1>1 DEF TaskApart
<1>2. CASE t.phase # "free" /\ t.conv = Heartbeat
  BY <1>2, BatchKept DEF TaskApart
<1>3. CASE t.phase # "free" /\ t.conv # Heartbeat
  <2>1. t.batch.channel_id = t.conv /\ (t.conv \in Conversations \ {c} \/ t.conv \in Overruns)
    BY <1>3 DEF TaskApart
  <2>2. \/ r.in_flight_event_ids[t.batch.channel_id] = k.in_flight_event_ids[t.batch.channel_id]
        \/ t.batch.channel_id \in Overruns
    BY <2>1
  <2> QED
    BY <1>3, <2>2, BatchKept DEF TaskApart
<1> QED
  BY <1>1, <1>2, <1>3

\* Every task keeps its conversation and the events of its batch.
SameBatches ==
  \A a \in Agents :
    /\ tasks'[a].phase = "free" <=> tasks[a].phase = "free"
    /\ tasks'[a].conv = tasks[a].conv
    /\ tasks'[a].batch.channel_id = tasks[a].batch.channel_id
    /\ tasks'[a].batch.events = tasks[a].batch.events
    /\ tasks'[a].batch.cancelled_events = tasks[a].batch.cancelled_events

\* A step that starts and ends no turn.
LEMMA QuietPlace ==
  ASSUME PlaceInv, SameBatches, UNCHANGED waiting, \A c \in Conversations : QueueApart(q', c),
         q'.in_flight_event_ids = q.in_flight_event_ids
  PROVE  PlaceInv'
<1>1. ASSUME NEW a \in Agents PROVE TaskApart(q', tasks'[a])
  BY DEF PlaceInv, SameBatches, TaskApart, BatchApart, BatchOnce, BatchIds
<1>2. ASSUME NEW i \in 1 .. Len(waiting) PROVE BatchApart(q', waiting[i])
  BY BatchKept DEF PlaceInv
<1> QED
  BY <1>1, <1>2 DEF PlaceInv

\* A step that moves no event.
LEMMA StillPlace ==
  ASSUME PlaceInv, SameBatches, UNCHANGED waiting, SameEvents(q, q'),
         q'.in_flight_event_ids = q.in_flight_event_ids
  PROVE  PlaceInv'
<1>1. \A c \in Conversations : QueueApart(q', c)
  BY SameApart DEF PlaceInv
<1> QED
  BY <1>1, QuietPlace

\* A step that leaves the tasks alone.
LEMMA IdleBatches ==
  ASSUME UNCHANGED tasks
  PROVE  SameBatches
  BY DEF SameBatches

\* A step that leaves queue, tasks and parked batches alone.
LEMMA IdlePlace ==
  ASSUME PlaceInv, UNCHANGED <<q, tasks, waiting>>
  PROVE  PlaceInv'
<1>1. SameEvents(q, q')
  BY DEF SameEvents
<1> QED
  BY <1>1, IdleBatches, StillPlace

\* A signal changes no batch.
LEMMA SignalBatches ==
  ASSUME TypeInv, NEW targets \in SUBSET Agents, NEW s, SendSignal(targets, s)
  PROVE  SameBatches
  BY SignalSteers DEF SameBatches


\* A relay event: push refuses what the conversation already has anywhere.
LEMMA IngestPlace ==
  ASSUME TypeInv, PlaceInv, NEW e \in Events, NEW x \in BOOLEAN, Ingest(e, x)
  PROVE  PlaceInv'
<1>1. PICK c, pushed : c = ConvOf[e] /\ pushed = Push(q, e, clock + 1, x, FALSE)
  OBVIOUS
<1>2. /\ clock \in Nat /\ c \in Conversations /\ QueueType(q) /\ CapOK(q) /\ clock + 1 \in Nat
      /\ FALSE \in BOOLEAN /\ tasks \in [Agents -> TaskType] /\ waiting' = waiting
  BY <1>1, QueueAssumption DEF TypeInv, TimeTyped, TasksTyped, QueueOK, Ingest
<1>3. CASE UNCHANGED <<q, tasks>>
  BY <1>2, <1>3, IdlePlace
<1>4. CASE PushAccepts(q, e)
  <2>1. /\ QueueType(pushed) /\ CapOK(pushed) /\ pushed.in_flight_event_ids = q.in_flight_event_ids
    BY <1>1, <1>2, PushProperties DEF OnlyReady
  <2>2. \A d \in Conversations : QueueApart(pushed, d)
    BY <1>1, <1>2, <1>4, PushApart DEF PlaceInv, PushAccepts
  <2>3. CASE /\ q' = pushed
             /\ UNCHANGED tasks \/ SendSignal(SignalTargets(c, Routing[c]), "Interrupt")
    BY <1>2, <2>1, <2>2, <2>3, IdleBatches, SignalBatches, TargetsAreAgents, QuietPlace
  <2>4. ASSUME NEW a \in TurnsOf(c), tasks' = [tasks EXCEPT ![a].steers = @ \cup {e}],
               q' = MarkNativeSteerPending(pushed, c, e)
        PROVE  PlaceInv'
    <3>1. SameBatches
      BY <1>2, <2>4 DEF SameBatches, TurnsOf, TaskType
    <3>2. \A d \in Conversations : QueueApart(q', d)
      BY <1>2, <2>1, <2>2, <2>4, WithholdApart
    <3>3. q'.in_flight_event_ids = q.in_flight_event_ids
      BY <1>2, <2>1, <2>4, WithholdProperties DEF OnlyEvents
    <3> QED
      BY <1>2, <3>1, <3>2, <3>3, QuietPlace
  <2> QED
    BY <1>1, <1>3, <1>4, <2>3, <2>4 DEF Ingest, NativeSteer
<1> QED
  BY <1>3, <1>4 DEF Ingest

\* retry_turn pushes too.
LEMMA RetryPlace ==
  ASSUME TypeInv, PlaceInv, NEW e \in Events, RetryTurn(e)
  PROVE  PlaceInv'
<1>1. PICK c, k : c = ConvOf[e] /\ k = ClearRetryAfter(q, c)
  OBVIOUS
<1>2. /\ clock \in Nat /\ c \in Conversations /\ QueueType(q) /\ CapOK(q) /\ clock + 1 \in Nat
      /\ FALSE \in BOOLEAN /\ TRUE \in BOOLEAN /\ UNCHANGED <<tasks, waiting>>
  BY <1>1, QueueAssumption DEF TypeInv, TimeTyped, QueueOK, RetryTurn, poolVars, loopVars
<1>3. QueueType(k) /\ SameEvents(q, k) /\ k.in_flight_event_ids = q.in_flight_event_ids
  BY <1>1, <1>2, ThrottleOps DEF OnlyThrottles
<1>4. CapOK(k) /\ \A d \in Conversations : QueueApart(k, d)
  BY <1>2, <1>3, SameEventsCap, SameApart DEF PlaceInv
<1>5. CASE q' = k
  BY <1>2, <1>3, <1>4, <1>5, IdleBatches, QuietPlace
<1>6. ASSUME PushAccepts(k, e), q' = Push(k, e, clock + 1, TRUE, FALSE) PROVE PlaceInv'
  <2>1. q'.in_flight_event_ids = q.in_flight_event_ids
    BY <1>2, <1>3, <1>4, <1>6, PushProperties DEF OnlyReady
  <2>2. \A d \in Conversations : QueueApart(q', d)
    BY <1>2, <1>3, <1>4, <1>6, PushApart DEF PushAccepts
  <2> QED
    BY <1>2, <2>1, <2>2, IdleBatches, QuietPlace
<1> QED
  BY <1>1, <1>5, <1>6 DEF RetryTurn

\* Edits and drains take events away.
LEMMA EditPlace ==
  ASSUME TypeInv, PlaceInv, SameBatches, UNCHANGED waiting,
         \/ \E cs : q' = DrainChannels(q, cs)
         \/ \E e \in Events : q' \in {RemoveEventById(q, e), PatchEvent(q, e)}
  PROVE  PlaceInv'
<1>1. QueueType(q) /\ CapOK(q) /\ \A d \in Conversations : QueueApart(q, d)
  BY DEF TypeInv, QueueOK, PlaceInv
<1>2. ASSUME NEW cs, q' = DrainChannels(q, cs) PROVE PlaceInv'
  <2>1. q'.in_flight_event_ids = q.in_flight_event_ids
    BY <1>1, <1>2, DrainProperties
  <2> QED
    BY <1>1, <1>2, <2>1, EditApart, QuietPlace
<1>3. ASSUME NEW e \in Events, q' = RemoveEventById(q, e) PROVE PlaceInv'
  <2>1. PICK c \in Conversations : c = ConvOf[e]
    BY QueueAssumption
  <2>2. q' = RemoveEvent(q, c, e)
    BY <1>3, <2>1 DEF RemoveEventById
  <2>3. q'.in_flight_event_ids = q.in_flight_event_ids
    BY <1>1, <2>2, RemoveProperties DEF OnlyEvents
  <2>4. \A d \in Conversations : QueueApart(q', d)
    BY <1>1, <2>2, EditApart
  <2> QED
    BY <2>3, <2>4, QuietPlace
<1>4. ASSUME NEW e \in Events, q' = PatchEvent(q, e) PROVE PlaceInv'
  <2>1. q'.in_flight_event_ids = q.in_flight_event_ids
    BY <1>1, <1>4, PatchProperties DEF OnlyEvents
  <2> QED
    BY <1>1, <1>4, <2>1, EditApart, QuietPlace
<1> QED
  BY <1>2, <1>3, <1>4

\* A task that ends, panics or answers a steer keeps its batch.
LEMMA TaskPlace ==
  ASSUME TypeInv, PlaceInv, NEW a \in Agents, NEW e, NEW kind,
         FinishTurn(a) \/ PanicTurn(a) \/ AnswerSteer(a, e, kind)
  PROVE  PlaceInv'
<1>1. tasks \in [Agents -> TaskType] /\ UNCHANGED <<q, waiting>> /\ tasks[a].phase = "running"
  BY DEF TypeInv, TasksTyped, FinishTurn, PanicTurn, AnswerSteer, queueVars, loopVars
<1>2. tasks[a] \in TaskType /\ tasks[a].batch \in FlushBatch
  BY <1>1 DEF TaskType
<1>3. PICK t : /\ tasks' = [tasks EXCEPT ![a] = t] /\ t.phase # "free" /\ t.conv = tasks[a].conv
               /\ t.batch.channel_id = tasks[a].batch.channel_id /\ t.batch.events = tasks[a].batch.events
               /\ t.batch.cancelled_events = tasks[a].batch.cancelled_events
  <2>1. CASE FinishTurn(a)
    <3>1. PICK end : tasks' = [tasks EXCEPT ![a] = Ended(tasks[a], end)]
      BY <2>1 DEF FinishTurn
    <3>2. PICK t : t = Ended(tasks[a], end)
      OBVIOUS
    <3>3. t.phase # "free" /\ t.conv = tasks[a].conv
      BY <1>2, <3>2 DEF Ended, TaskType
    <3>4. t.batch = [tasks[a].batch EXCEPT !.cancel_reason = end.reason]
      BY <1>2, <3>2 DEF Ended, TaskType
    <3>5. /\ t.batch.channel_id = tasks[a].batch.channel_id /\ t.batch.events = tasks[a].batch.events
          /\ t.batch.cancelled_events = tasks[a].batch.cancelled_events
      BY <1>2, <3>4 DEF FlushBatch
    <3> QED
      BY <3>1, <3>2, <3>3, <3>5
  <2>2. CASE PanicTurn(a)
    <3>1. PICK t : t = [tasks[a] EXCEPT !.phase = "panicked", !.steers = {}]
      OBVIOUS
    <3>2. tasks' = [tasks EXCEPT ![a] = t]
      BY <1>1, <1>2, <2>2, <3>1 DEF PanicTurn, TaskType
    <3>3. t.phase # "free" /\ t.conv = tasks[a].conv /\ t.batch = tasks[a].batch
      BY <1>2, <3>1 DEF TaskType
    <3> QED
      BY <3>2, <3>3
  <2>3. CASE AnswerSteer(a, e, kind)
    <3>1. PICK t : t = [tasks[a] EXCEPT !.steers = tasks[a].steers \ {e}]
      OBVIOUS
    <3>2. tasks' = [tasks EXCEPT ![a] = t]
      BY <2>3, <3>1 DEF AnswerSteer
    <3>3. t.phase # "free" /\ t.conv = tasks[a].conv /\ t.batch = tasks[a].batch
      BY <1>1, <1>2, <3>1 DEF TaskType
    <3> QED
      BY <3>2, <3>3
  <2> QED
    BY <2>1, <2>2, <2>3
<1>4. SameBatches
  BY <1>1, <1>3 DEF SameBatches
<1>5. SameEvents(q, q') /\ q'.in_flight_event_ids = q.in_flight_event_ids
  BY <1>1 DEF SameEvents
<1> QED
  BY <1>1, <1>4, <1>5, StillPlace

\* The steer-ack arm takes the event away or restores it to the front of its queue.
LEMMA AckPlace ==
  ASSUME TypeInv, PlaceInv, NEW k \in acks, HandleSteerAck(k)
  PROVE  PlaceInv'
<1>1. PICK c, e : c = k.channel_id /\ e = k.event_id
  OBVIOUS
<1>2. c \in Conversations /\ QueueType(q) /\ CapOK(q) /\ \A d \in Conversations : QueueApart(q, d)
  BY <1>1 DEF TypeInv, RestTyped, QueueOK, PlaceInv
<1>3. SameBatches /\ UNCHANGED waiting
  BY SignalBatches, IdleBatches, TargetsAreAgents DEF HandleSteerAck
<1>4. CASE q' = RemoveEvent(ExtendInFlightDeadline(q, c), c, e)
  <2>1. PICK r : r = ExtendInFlightDeadline(q, c)
    OBVIOUS
  <2>2. QueueType(r) /\ SameEvents(q, r) /\ r.in_flight_event_ids = q.in_flight_event_ids
    BY <1>2, <2>1, ExtendProperties
  <2>3. CapOK(r) /\ \A d \in Conversations : QueueApart(r, d)
    BY <1>2, <2>2, SameEventsCap, SameApart
  <2>4. q'.in_flight_event_ids = r.in_flight_event_ids
    BY <1>2, <1>4, <2>1, <2>2, <2>3, RemoveProperties DEF OnlyEvents
  <2>5. \A d \in Conversations : QueueApart(q', d)
    BY <1>2, <1>4, <2>1, <2>2, <2>3, EditApart
  <2> QED
    BY <1>3, <2>2, <2>4, <2>5, QuietPlace
<1>5. CASE q' = ReleaseNativeSteer(q, c, e)
  <2>1. q'.in_flight_event_ids = q.in_flight_event_ids
    BY <1>2, <1>5, ReleaseProperties
  <2>2. \A d \in Conversations : QueueApart(q', d)
    BY <1>2, <1>5, ReleaseApart
  <2> QED
    BY <1>3, <2>1, <2>2, QuietPlace
<1> QED
  BY <1>1, <1>4, <1>5 DEF HandleSteerAck


\* A completed conversation hands its batch back to the queue, or drops it; the batches
\* of the others stay recorded.
LEMMA CompletedApart ==
  ASSUME NEW k, QueueType(k), CapOK(k), \A d \in Conversations : QueueApart(k, d),
         NEW b \in FlushBatch, BatchApart(k, b), NEW c, c = b.channel_id, NEW reason \in CancelReasons,
         NEW u \in {k, Requeue(k, b), RequeuePreserveTimestamps(k, b), RequeueAsCancelled(k, b, reason)}
  PROVE  /\ \A d \in Conversations : QueueApart(MarkComplete(u, c), d)
         /\ \A d \in Conversations \ {c} :
              MarkComplete(u, c).in_flight_event_ids[d] = k.in_flight_event_ids[d]
<1>1. c \in Conversations
  BY BatchTypes
<1>2. QueueType(u) /\ u.in_flight_event_ids = k.in_flight_event_ids
  <2>1. CASE u \in {Requeue(k, b), RequeuePreserveTimestamps(k, b)}
    BY <2>1, RequeueProperties
  <2>2. CASE u = RequeueAsCancelled(k, b, reason)
    BY <2>2, CancelProperties
  <2> QED
    BY <2>1, <2>2
<1>3. \A d \in Conversations \ {c} :
        MarkComplete(u, c).in_flight_event_ids[d] = k.in_flight_event_ids[d]
  BY <1>1, <1>2, MarkCompleteProperties
<1>4. \A d \in Conversations : QueueApart(MarkComplete(u, c), d)
  <2>1. CASE u = k
    BY <1>1, <2>1, CompleteApart
  <2>2. CASE u \in {Requeue(k, b), RequeuePreserveTimestamps(k, b)}
    BY <2>2, RequeueApart
  <2>3. CASE u = RequeueAsCancelled(k, b, reason)
    BY <2>3, CancelApart
  <2> QED
    BY <2>1, <2>2, <2>3
<1> QED
  BY <1>3, <1>4

\* A free slot holds nothing.
LEMMA NoTaskApart ==
  ASSUME NEW k
  PROVE  TaskApart(k, NoTask) /\ BatchIds(NoBatch(Blank)) = {} /\ BatchApart(k, NoBatch(Blank))
<1>1. NoTask.phase = "free"
  BY DEF NoTask
<1>2. BatchIds(NoBatch(Blank)) = {} /\ BatchApart(k, NoBatch(Blank))
  BY DEF NoBatch, BatchIds, BatchApart, BatchOnce, Ids, NoDup
<1> QED
  BY <1>1, <1>2 DEF TaskApart

\* handle_prompt_result and recover_panicked_agent: the task's batch is the only one of
\* its conversation, so completing it takes no other batch off the record.
LEMMA EndPlace ==
  ASSUME TypeInv, LockInv, PlaceInv, NEW a \in Agents, HandleResult(a) \/ RecoverPanic(a)
  PROVE  PlaceInv'
<1>1. PICK t, b : t = tasks[a] /\ b = tasks[a].batch
  OBVIOUS
<1>2. /\ QueueType(q) /\ CapOK(q) /\ t \in TaskType /\ b \in FlushBatch /\ tasks \in [Agents -> TaskType]
      /\ \A d \in Conversations : QueueApart(q, d)
  BY <1>1 DEF TypeInv, QueueOK, TasksTyped, TaskType, PlaceInv
<1>3. /\ t.phase # "free" /\ tasks' = [tasks EXCEPT ![a] = NoTask] /\ waiting' = waiting
  BY <1>1 DEF HandleResult, RecoverPanic
<1>4. TaskApart(q', tasks'[a])
  BY <1>2, <1>3, NoTaskApart
<1>5. CASE t.conv = Heartbeat
  <2>1. q' = q
    BY <1>1, <1>5 DEF HandleResult, RecoverPanic, Complete
  <2>2. ASSUME NEW d \in Agents \ {a} PROVE TaskApart(q', tasks'[d])
    BY <1>2, <1>3, <2>1 DEF PlaceInv
  <2> QED
    BY <1>2, <1>3, <1>4, <2>1, <2>2 DEF PlaceInv
<1>6. CASE t.conv # Heartbeat
  <2>1. t.conv \in Conversations /\ b.channel_id = t.conv /\ BatchApart(q, b)
    BY <1>1, <1>2, <1>3, <1>6 DEF TaskType, PlaceInv, TaskApart
  <2>2. PICK reason \in CancelReasons : reason = IF b.cancel_reason = "none" THEN "Steer" ELSE b.cancel_reason
    BY <1>2 DEF FlushBatch, CancelReasons
  <2>3. PICK noticed : noticed = TakeBusyNotice(q, t.conv)
    OBVIOUS
  <2>4. /\ QueueType(noticed) /\ SameEvents(q, noticed)
        /\ noticed.in_flight_event_ids = q.in_flight_event_ids
    BY <1>2, <2>1, <2>3, ThrottleOps DEF OnlyThrottles
  <2>5. CapOK(noticed) /\ BatchApart(noticed, b) /\ \A d \in Conversations : QueueApart(noticed, d)
    BY <1>2, <2>1, <2>4, SameEventsCap, SameApart, BatchKept
  <2>6. RequeueResult(t) \in {q, RequeueAsCancelled(q, b, reason), Requeue(noticed, b), Requeue(q, b)}
    BY <1>1, <2>2, <2>3 DEF RequeueResult
  <2>7. \E u \in {q, RequeueAsCancelled(q, b, reason), Requeue(noticed, b), Requeue(q, b)} :
          q' = MarkComplete(u, t.conv)
    BY <1>1, <1>6, <2>6 DEF HandleResult, RecoverPanic, Complete
  <2>8. /\ \A d \in Conversations : QueueApart(q', d)
        /\ \A d \in Conversations \ {t.conv} : q'.in_flight_event_ids[d] = q.in_flight_event_ids[d]
    <3>1. CASE q' = MarkComplete(Requeue(noticed, b), t.conv)
      BY <1>2, <2>1, <2>2, <2>4, <2>5, <3>1, CompletedApart
    <3>2. CASE \E u \in {q, RequeueAsCancelled(q, b, reason), Requeue(q, b)} : q' = MarkComplete(u, t.conv)
      BY <1>2, <2>1, <2>2, <3>2, CompletedApart
    <3> QED
      BY <2>7, <3>1, <3>2
  <2>9. ASSUME NEW d \in Agents \ {a} PROVE TaskApart(q', tasks'[d])
    <3>1. tasks'[d] = tasks[d] /\ TaskApart(q, tasks[d]) /\ tasks[d].conv \in Conversations \cup {Heartbeat}
      BY <1>2, <1>3 DEF PlaceInv, TaskType
    <3>2. tasks[d].phase = "free" \/ tasks[d].conv # t.conv \/ tasks[d].conv \in Overruns
      BY <1>1, <1>3 DEF LockInv, AtMostOneTurn, Busy
    <3>3. PICK o, r, c : o = tasks[d] /\ r = q' /\ c = t.conv
      OBVIOUS
    <3>4. /\ TaskApart(q, o) /\ o.conv \in Conversations \cup {Heartbeat}
          /\ o.phase = "free" \/ o.conv # c \/ o.conv \in Overruns
          /\ \A f \in Conversations \ {c} : r.in_flight_event_ids[f] = q.in_flight_event_ids[f]
      BY <2>8, <3>1, <3>2, <3>3
    <3>5. TaskApart(r, o)
      BY <3>4, TaskElsewhere, Zenon
    <3> QED
      BY <3>1, <3>3, <3>5
  <2>10. ASSUME NEW i \in 1 .. Len(waiting) PROVE BatchApart(q', waiting[i])
    <3>1. waiting \in Seq(FlushBatch) /\ i \in DOMAIN waiting
      BY LenProperties DEF TypeInv, WaitingTyped
    <3>2. waiting[i] \in FlushBatch /\ (waiting[i].channel_id # t.conv \/ t.conv \in Overruns)
      BY <1>1, <1>3, <3>1, ElementOfSeq DEF LockInv, AtMostOneTurn, Busy
    <3>3. waiting[i].channel_id \in Conversations \ {t.conv} \/ waiting[i].channel_id \in Overruns
      BY <3>2, BatchTypes
    <3> QED
      BY <2>8, <3>3, BatchKept DEF PlaceInv
  <2> QED
    BY <1>3, <1>4, <2>8, <2>9, <2>10 DEF PlaceInv
<1> QED
  BY <1>5, <1>6


\* flush_next only returns a conversation that is not in flight, which, if it is punctual,
\* has neither a task nor a parked batch.
LEMMA FlushedFree ==
  ASSUME LockInv, NEW c \in FlushChoices(q, matured), c \in Conversations
  PROVE  \/ c \in Overruns
         \/ /\ \A a \in Agents : tasks[a].phase = "free" \/ tasks[a].conv # c
            /\ \A i \in DOMAIN waiting : waiting[i].channel_id # c
<1>1. c \notin q.in_flight_channels
  BY DEF FlushChoices, Candidates, CancelledOnly
<1> QED
  BY <1>1 DEF LockInv, InFlightExact, Holding, Punctual, TurnsOf, Busy

\* dispatch_pending hands the flushed batch to an agent, parks it or puts it back.
LEMMA DispatchPlace ==
  ASSUME TypeInv, PoolInv, LockInv, PlaceInv, NEW c \in Conversations, DispatchBatch(c)
  PROVE  PlaceInv'
<1>1. PICK b, flushed : b = BatchFor(q, matured, c) /\ flushed = Flushed(q, matured, c)
  OBVIOUS
<1>2. /\ QueueType(q) /\ CapOK(q) /\ tasks \in [Agents -> TaskType] /\ waiting \in Seq(FlushBatch)
      /\ DOMAIN waiting = 1 .. Len(waiting) /\ \A d \in Conversations : QueueApart(q, d)
  BY LenProperties DEF TypeInv, QueueOK, TasksTyped, WaitingTyped, PlaceInv
<1>3. /\ QueueType(flushed) /\ CapOK(flushed) /\ b \in FlushBatch /\ b.channel_id = c
      /\ \A d \in Conversations \ {c} : flushed.in_flight_event_ids[d] = q.in_flight_event_ids[d]
  BY <1>1, <1>2, FlushedProperties, BatchProperties
<1>4. BatchApart(flushed, b) /\ \A d \in Conversations : QueueApart(flushed, d)
  BY <1>1, <1>2, FlushApart
<1>5. /\ \A a \in Agents : tasks[a].phase = "free" \/ tasks[a].conv # c \/ tasks[a].conv \in Overruns
      /\ \A i \in 1 .. Len(waiting) : waiting[i].channel_id # c \/ waiting[i].channel_id \in Overruns
  BY <1>2, FlushedFree DEF DispatchBatch
<1>6. ASSUME NEW r, \A d \in Conversations \ {c} : r.in_flight_event_ids[d] = q.in_flight_event_ids[d]
      PROVE  /\ \A a \in Agents : TaskApart(r, tasks[a])
             /\ \A i \in 1 .. Len(waiting) : BatchApart(r, waiting[i])
  <2>1. ASSUME NEW a \in Agents PROVE TaskApart(r, tasks[a])
    <3>1. TaskApart(q, tasks[a]) /\ tasks[a].conv \in Conversations \cup {Heartbeat}
      BY <1>2 DEF PlaceInv, TaskType
    <3> QED
      BY <1>5, <1>6, <3>1, TaskElsewhere
  <2>2. ASSUME NEW i \in 1 .. Len(waiting) PROVE BatchApart(r, waiting[i])
    <3>1. waiting[i].channel_id \in Conversations \ {c} \/ waiting[i].channel_id \in Overruns
      BY <1>2, <1>5, ElementOfSeq, BatchTypes
    <3> QED
      BY <1>6, <3>1, BatchKept DEF PlaceInv
  <2> QED
    BY <2>1, <2>2
<1>7. ASSUME q' = flushed, waiting' = Append(waiting, b), UNCHANGED tasks PROVE PlaceInv'
  <2>1. ASSUME NEW i \in 1 .. Len(waiting') PROVE BatchApart(q', waiting'[i])
    <3>1. /\ Len(waiting) \in Nat /\ Len(waiting') = Len(waiting) + 1
          /\ \A j \in 1 .. Len(waiting) : waiting'[j] = waiting[j]
          /\ waiting'[Len(waiting) + 1] = b
      BY <1>2, <1>3, <1>7, AppendProperties, LenProperties
    <3>2. i \in 1 .. Len(waiting) \/ i = Len(waiting) + 1
      BY <3>1
    <3> QED
      BY <1>3, <1>4, <1>6, <1>7, <3>1, <3>2
  <2> QED
    BY <1>3, <1>4, <1>6, <1>7, <2>1 DEF PlaceInv
<1>8. ASSUME q' = flushed, UNCHANGED waiting, NEW a \in ClaimChoices(c), StartTurn(a, c, b, "open")
      PROVE  PlaceInv'
  <2>1. PICK t : t = [NoTask EXCEPT !.phase = "running", !.conv = c, !.batch = b, !.control = "open"]
    OBVIOUS
  <2>2. a \in Agents /\ tasks' = [tasks EXCEPT ![a] = t]
    BY <1>8, <2>1 DEF ClaimChoices, PoolInv, StartTurn
  <2>3. t.conv = c /\ t.batch = b
    BY <2>1 DEF NoTask
  <2>4. TaskApart(q', t)
    BY <1>3, <1>4, <1>8, <2>3, HarnessAssumption DEF TaskApart
  <2>5. \A d \in Agents : TaskApart(q', tasks'[d])
    BY <1>2, <1>3, <1>6, <1>8, <2>2, <2>4
  <2> QED
    BY <1>3, <1>4, <1>6, <1>8, <2>5 DEF PlaceInv
<1>9. ASSUME q' = MarkComplete(RequeuePreserveTimestamps(flushed, b), c), UNCHANGED <<tasks, waiting>>
      PROVE  PlaceInv'
  <2>1. "Steer" \in CancelReasons
    BY DEF CancelReasons
  <2>2. /\ \A d \in Conversations : QueueApart(q', d)
        /\ \A d \in Conversations \ {c} : q'.in_flight_event_ids[d] = flushed.in_flight_event_ids[d]
    BY <1>3, <1>4, <1>9, <2>1, CompletedApart
  <2>3. \A d \in Conversations \ {c} : q'.in_flight_event_ids[d] = q.in_flight_event_ids[d]
    BY <1>3, <2>2
  <2> QED
    BY <1>6, <1>9, <2>2, <2>3 DEF PlaceInv
<1> QED
  BY <1>1, <1>7, <1>8, <1>9 DEF DispatchBatch, poolVars, loopVars

\* A heartbeat turn has no event.
LEMMA HeartbeatPlace ==
  ASSUME TypeInv, PoolInv, PlaceInv, HeartbeatFlush
  PROVE  PlaceInv'
<1>1. UNCHANGED <<q, waiting>> /\ tasks \in [Agents -> TaskType]
  BY DEF HeartbeatFlush, queueVars, TypeInv, TasksTyped
<1>2. CASE UNCHANGED tasks
  BY <1>1, <1>2, IdlePlace
<1>3. ASSUME NEW a \in idle, StartTurn(a, Heartbeat, NoBatch(Blank), "closed") PROVE PlaceInv'
  <2>1. PICK b, t : /\ b = NoBatch(Blank)
                    /\ t = [NoTask EXCEPT !.phase = "running", !.conv = Heartbeat, !.batch = b,
                                          !.control = "closed"]
    OBVIOUS
  <2>2. a \in Agents /\ tasks' = [tasks EXCEPT ![a] = t]
    BY <1>3, <2>1 DEF PoolInv, StartTurn
  <2>3. t.conv = Heartbeat /\ t.batch = b
    BY <2>1 DEF NoTask
  <2>4. TaskApart(q', t)
    BY <2>1, <2>3, NoTaskApart DEF TaskApart
  <2>5. \A d \in Agents : TaskApart(q', tasks'[d])
    BY <1>1, <2>2, <2>4 DEF PlaceInv
  <2> QED
    BY <1>1, <2>5 DEF PlaceInv
<1> QED
  BY <1>2, <1>3 DEF HeartbeatFlush, poolVars

\* The parked batches go back one by one.
LEMMA RequeuePlace ==
  ASSUME TypeInv, LockInv, PlaceInv, RequeueWaiting
  PROVE  PlaceInv'
<1>1. UNCHANGED tasks
  BY DEF RequeueWaiting, poolVars
<1>2. CASE waiting = <<>>
  BY <1>1, <1>2, IdlePlace DEF RequeueWaiting
<1>3. CASE waiting # <<>>
  <2>1. PICK b, c : b = Head(waiting) /\ c = b.channel_id
    OBVIOUS
  <2>2. waiting \in Seq(FlushBatch) /\ DOMAIN waiting = 1 .. Len(waiting) /\ Len(waiting) \in Nat
    BY LenProperties DEF TypeInv, WaitingTyped
  <2>3. 1 \in 1 .. Len(waiting) /\ b = waiting[1]
    BY <1>3, <2>1, <2>2, LenProperties, EmptySeq, HeadTailProperties
  <2>4. /\ b \in FlushBatch /\ BatchApart(q, b) /\ c \in Conversations
        /\ QueueType(q) /\ CapOK(q) /\ \A d \in Conversations : QueueApart(q, d)
    BY <2>1, <2>2, <2>3, ElementOfSeq, BatchTypes DEF PlaceInv, TypeInv, QueueOK
  <2>5. /\ q' = MarkComplete(RequeuePreserveTimestamps(q, b), c) /\ waiting' = Tail(waiting)
    BY <1>3, <2>1 DEF RequeueWaiting
  <2>6. "Steer" \in CancelReasons
    BY DEF CancelReasons
  <2>7. /\ \A d \in Conversations : QueueApart(q', d)
        /\ \A d \in Conversations \ {c} : q'.in_flight_event_ids[d] = q.in_flight_event_ids[d]
    BY <2>1, <2>4, <2>5, <2>6, CompletedApart
  <2>8. ASSUME NEW a \in Agents PROVE TaskApart(q', tasks[a])
    <3>1. TaskApart(q, tasks[a]) /\ tasks[a].conv \in Conversations \cup {Heartbeat}
      BY DEF PlaceInv, TypeInv, TasksTyped, TaskType
    <3>2. tasks[a].phase = "free" \/ tasks[a].conv # c \/ tasks[a].conv \in Overruns
      BY <2>1, <2>2, <2>3 DEF LockInv, AtMostOneTurn, Busy
    <3> QED
      BY <2>7, <3>1, <3>2, TaskElsewhere
  <2>9. ASSUME NEW i \in 1 .. Len(waiting') PROVE BatchApart(q', waiting'[i])
    <3>1. /\ Len(waiting') = Len(waiting) - 1
          /\ \A j \in 1 .. Len(waiting) - 1 : waiting'[j] = waiting[j + 1]
      BY <1>3, <2>2, <2>5, HeadTailProperties
    <3>2. i + 1 \in 1 .. Len(waiting) /\ i + 1 # 1 /\ waiting'[i] = waiting[i + 1]
      BY <2>2, <3>1
    <3>3. PICK j \in 1 .. Len(waiting) : j # 1 /\ waiting'[i] = waiting[j]
      BY <3>2
    <3>4. waiting[j].channel_id # c \/ waiting[j].channel_id \in Overruns
      BY <2>1, <2>2, <2>3, <3>3 DEF LockInv, AtMostOneTurn
    <3>5. waiting[j].channel_id \in Conversations \ {c} \/ waiting[j].channel_id \in Overruns
      BY <2>2, <3>4, ElementOfSeq, BatchTypes
    <3> QED
      BY <2>7, <3>3, <3>5, BatchKept DEF PlaceInv
  <2> QED
    BY <1>1, <2>7, <2>8, <2>9 DEF PlaceInv
<1> QED
  BY <1>2, <1>3


\* The sweep of in-flight deadlines takes a conversation that may overrun off the record
\* and releases its steers; they are its own events, so the others keep what they had.
LEMMA ExpirePlace ==
  ASSUME TypeInv, LockInv, PlaceInv, NEW c \in Conversations, Expire(c)
  PROVE  PlaceInv'
<1>1. /\ c \in Overruns /\ UNCHANGED <<tasks, waiting>> /\ q' = ExpireInFlight(q, c)
      /\ QueueType(q) /\ CapOK(q) /\ \A d \in Conversations : QueueApart(q, d)
  BY DEF Expire, LockInv, NonePassed, Punctual, TypeInv, QueueOK, PlaceInv, poolVars, loopVars
<1>2. /\ QueueType(q') /\ q'.in_flight_event_ids[c] = {} /\ q'.cancelled_batches = q.cancelled_batches
      /\ q'.withheld_native_steer[c] = <<>>
      /\ \A d \in Conversations \ {c} : /\ Drawn(q'.queues[d], q.queues[d])
                                        /\ q'.withheld_native_steer[d] = q.withheld_native_steer[d]
                                        /\ q'.in_flight_event_ids[d] = q.in_flight_event_ids[d]
      /\ Drawn(q'.queues[c], q.withheld_native_steer[c] \o q.queues[c])
  BY <1>1, ExpireProperties
<1>3. ASSUME NEW d \in Conversations \ {c} PROVE QueueApart(q', d)
  BY <1>1, <1>2, <1>3, DrawnSelf, LessApart
<1>4. QueueApart(q', c)
  <2>1. /\ q.queues[c] \in Seq(Entry) /\ q.withheld_native_steer[c] \in Seq(Entry)
        /\ q'.queues[c] \in Seq(Entry) /\ Ids(<<>>) = {}
    BY <1>1, <1>2, ListTypes DEF Ids
  <2>2. PICK s : s = q.withheld_native_steer[c] \o q.queues[c]
    OBVIOUS
  <2>3. s \in Seq(Entry) /\ Ids(s) = Ids(q.withheld_native_steer[c]) \cup Ids(q.queues[c])
    BY <2>1, <2>2, ConcatIds
  <2>4. Ids(q'.queues[c]) \subseteq Ids(s)
    <3>1. PICK new : new = q'.queues[c]
      OBVIOUS
    <3>2. new \in Seq(Entry) /\ Drawn(new, s)
      BY <1>2, <2>1, <2>2, <3>1
    <3>3. Ids(new) \subseteq Ids(s)
      BY <2>3, <3>2, DrawnProperties
    <3> QED
      BY <3>1, <3>3
  <2> QED
    BY <1>1, <1>2, <2>1, <2>3, <2>4 DEF QueueApart, HeldIds
<1>5. ASSUME NEW a \in Agents PROVE TaskApart(q', tasks[a])
  <2>1. TaskApart(q, tasks[a]) /\ tasks[a].conv \in Conversations \cup {Heartbeat}
    BY DEF PlaceInv, TypeInv, TasksTyped, TaskType
  <2>2. tasks[a].phase = "free" \/ tasks[a].conv # c \/ tasks[a].conv \in Overruns
    BY <1>1
  <2>3. \A d \in Conversations \ {c} : q'.in_flight_event_ids[d] = q.in_flight_event_ids[d]
    BY <1>2
  <2>4. PICK t, r : t = tasks[a] /\ r = q'
    OBVIOUS
  <2>5. /\ TaskApart(q, t) /\ t.conv \in Conversations \cup {Heartbeat}
        /\ t.phase = "free" \/ t.conv # c \/ t.conv \in Overruns
        /\ \A d \in Conversations \ {c} : r.in_flight_event_ids[d] = q.in_flight_event_ids[d]
    BY <2>1, <2>2, <2>3, <2>4
  <2>6. TaskApart(r, t)
    BY <2>5, TaskElsewhere, Zenon
  <2> QED
    BY <2>4, <2>6
<1>6. ASSUME NEW i \in 1 .. Len(waiting) PROVE BatchApart(q', waiting[i])
  <2>1. waiting \in Seq(FlushBatch)
    BY DEF TypeInv, WaitingTyped
  <2>2. waiting[i].channel_id \in Conversations \ {c} \/ waiting[i].channel_id \in Overruns
    BY <1>1, <2>1, ElementOfSeq, BatchTypes
  <2> QED
    BY <1>2, <2>2, BatchKept DEF PlaceInv
<1> QED
  BY <1>1, <1>3, <1>4, <1>5, <1>6 DEF PlaceInv

\* Nothing is anywhere at first.
LEMMA PlaceInit == Init => PlaceInv
<1> SUFFICES ASSUME Init PROVE PlaceInv
  OBVIOUS
<1>1. Ids(<<>>) = {} /\ NoDup(<<>>)
  BY DEF Ids, NoDup
<1>2. \A c \in Conversations : QueueApart(q, c)
  BY <1>1 DEF Init, NewQueue, QueueApart, ListsApart, HeldIds
<1>3. \A a \in Agents : TaskApart(q, tasks[a])
  BY NoTaskApart DEF Init
<1>4. Len(waiting) = 0
  BY LenProperties DEF Init
<1> QED
  BY <1>2, <1>3, <1>4 DEF PlaceInv

\* Every step of a harness without user input keeps the events apart.
LEMMA PlaceStep ==
  TypeInv /\ PoolInv /\ LockInv /\ PlaceInv /\ [Next]_vars => PlaceInv'
<1> SUFFICES ASSUME TypeInv, PoolInv, LockInv, PlaceInv, [Next]_vars PROVE PlaceInv'
  OBVIOUS
<1> USE DEF queueVars, poolVars, loopVars
<1>1. QueueType(q)
  BY DEF TypeInv, QueueOK
<1>2. CASE UNCHANGED vars
  BY <1>2, IdlePlace DEF vars
<1>3. ASSUME NEW e \in Events, NEW x \in BOOLEAN, Ingest(e, x) PROVE PlaceInv'
  BY <1>3, IngestPlace
<1>4. ASSUME NEW e \in Events, NEW edit \in Edits, EditMessage(e, edit) PROVE PlaceInv'
  BY <1>4, IdleBatches, EditPlace DEF EditMessage
<1>5. ASSUME NEW e \in Events, RetryTurn(e) PROVE PlaceInv'
  BY <1>5, RetryPlace
<1>6. ASSUME NEW a \in Agents, NEW e, NEW kind, FinishTurn(a) \/ PanicTurn(a) \/ AnswerSteer(a, e, kind)
      PROVE  PlaceInv'
  BY <1>6, TaskPlace
<1>7. ASSUME NEW c \in Conversations, NEW s, OwnerControl(c, s) PROVE PlaceInv'
  <2>1. waiting' = waiting /\ (q' = q \/ q' = DrainChannels(q, {c}))
    BY <1>7 DEF OwnerControl, OwnerCommand, ObserverCancel, ObserverSwitchModel
  <2>2. \/ UNCHANGED tasks
        \/ \E r : SendSignal(SignalTargets(c, Routing[c]), r) \/ SendSignal(TurnsOf(c), r)
    BY <1>7 DEF OwnerControl, OwnerCommand, ObserverCancel, ObserverSwitchModel
  <2>3. SameBatches
    BY <2>2, IdleBatches, SignalBatches, TargetsAreAgents
  <2>4. CASE q' = q
    BY <2>1, <2>3, <2>4, StillPlace DEF SameEvents
  <2> QED
    BY <2>1, <2>3, <2>4, EditPlace
<1>8. ASSUME NEW c \in Conversations, Expire(c) PROVE PlaceInv'
  BY <1>8, ExpirePlace
<1>9. ASSUME NEW c \in Conversations, RetryElapses(c) PROVE PlaceInv'
  <2>1. SameEvents(q, q') /\ q'.in_flight_event_ids = q.in_flight_event_ids
    BY <1>1, <1>9, ThrottleOps DEF RetryElapses, OnlyThrottles
  <2> QED
    BY <1>9, <2>1, IdleBatches, StillPlace DEF RetryElapses
<1>10. ASSUME NEW c \in Conversations, DispatchBatch(c) PROVE PlaceInv'
  BY <1>10, DispatchPlace
<1>11. ASSUME NEW ch \in Membership, RemoveChannel(ch) PROVE PlaceInv'
  BY <1>11, IdleBatches, EditPlace DEF RemoveChannel
<1>12. ASSUME NEW ch \in Membership, AddChannel(ch) PROVE PlaceInv'
  BY <1>12, IdlePlace DEF AddChannel
<1>13. ASSUME NEW a \in Agents, HandleResult(a) \/ RecoverPanic(a) PROVE PlaceInv'
  BY <1>13, EndPlace
<1>14. ASSUME NEW a \in Agents, NEW success, CollectRespawn(a, success) \/ CoolDown(a) \/ CrashAges(a)
       PROVE  PlaceInv'
  BY <1>14, IdlePlace DEF CollectRespawn, CoolDown, CrashAges
<1>15. ASSUME NEW a \in Agents, DeadlinePasses(a) PROVE PlaceInv'
  <2>1. SameEvents(q, q') /\ q'.in_flight_event_ids = q.in_flight_event_ids
    BY <1>1, <1>15, DeadlineProperties, HarnessAssumption DEF DeadlinePasses
  <2> QED
    BY <1>15, <2>1, IdleBatches, StillPlace DEF DeadlinePasses
<1>16. ASSUME NEW k \in acks, HandleSteerAck(k) PROVE PlaceInv'
  BY <1>16, AckPlace
<1>17. CASE RequeueWaiting
  BY <1>17, RequeuePlace
<1>18. CASE DispatchDone \/ DrainDone \/ MaintainFlush \/ HeartbeatTick \/ HoldElapses \/ HoldWake
  BY <1>18, IdlePlace DEF DispatchDone, DrainDone, MaintainFlush, HeartbeatTick, HoldElapses, HoldWake
<1>19. CASE Maintain
  <2>1. SameEvents(q, q') /\ q'.in_flight_event_ids = q.in_flight_event_ids
    BY <1>1, <1>19, CompactProperties DEF Maintain, OnlyThrottles
  <2> QED
    BY <1>19, <2>1, IdleBatches, StillPlace DEF Maintain
<1>20. CASE HeartbeatFlush
  BY <1>20, HeartbeatPlace
<1> QED
  BY <1>2, <1>3, <1>4, <1>5, <1>6, <1>7, <1>8, <1>9, <1>10, <1>11, <1>12, <1>13, <1>14, <1>15,
     <1>16, <1>17, <1>18, <1>19, <1>20
  DEF Next

\* PlaceInv is an invariant of every harness, whichever conversations overrun.
LEMMA PlaceInvariant == Spec => []PlaceInv
<1>1. TypeInv /\ PoolInv /\ LockInv /\ PlaceInv /\ [Next]_vars => PlaceInv'
  BY PlaceStep
<1> QED
  BY <1>1, PlaceInit, TypeInvariant, PoolInvariant, LockInvariant, PTL DEF Spec

\* A set whose elements are equal has at most one.
LEMMA AtMostOne ==
  ASSUME NEW S, \A x, y \in S : x = y
  PROVE  /\ S = {} => Cardinality(S) = 0
         /\ S # {} => Cardinality(S) = 1
<1>1. CASE S = {}
  BY <1>1, FS_EmptySet
<1>2. CASE S # {}
  <2>1. PICK x : S = {x}
    BY <1>2
  <2> QED
    BY <1>2, <2>1, FS_Singleton
<1> QED
  BY <1>1, <1>2

\* A list without duplicates has an event once or not at all.
LEMMA AtMostOnce ==
  ASSUME NEW s \in Seq(Entry), NoDup(s), NEW e
  PROVE  /\ e \notin Ids(s) => Cardinality({i \in DOMAIN s : s[i].id = e}) = 0
         /\ e \in Ids(s) => Cardinality({i \in DOMAIN s : s[i].id = e}) = 1
<1>1. DOMAIN s = 1 .. Len(s)
  BY LenProperties
<1>2. PICK S : S = {i \in DOMAIN s : s[i].id = e}
  OBVIOUS
<1>3. \A x, y \in S : x = y
  BY <1>1, <1>2 DEF NoDup
<1>4. (e \in Ids(s) => S # {}) /\ (e \notin Ids(s) => S = {})
  BY <1>2 DEF Ids
<1> QED
  BY <1>2, <1>3, <1>4, AtMostOne

\* Of five numbers at most one is one.
LEMMA OneOfFive ==
  ASSUME NEW A \in BOOLEAN, NEW B \in BOOLEAN, NEW C \in BOOLEAN, NEW D \in BOOLEAN, NEW E \in BOOLEAN,
         NEW n1, NEW n2, NEW n3, NEW n4, NEW n5,
         n1 = IF A THEN 1 ELSE 0, n2 = IF B THEN 1 ELSE 0, n3 = IF C THEN 1 ELSE 0,
         n4 = IF D THEN 1 ELSE 0, n5 = IF E THEN 1 ELSE 0,
         ~(A /\ B), ~(A /\ C), ~(A /\ D), ~(A /\ E), ~(B /\ C), ~(B /\ D), ~(B /\ E),
         ~(C /\ D), ~(C /\ E), ~(D /\ E)
  PROVE  n1 + n2 + n3 + n4 + n5 <= 1
  OBVIOUS


\* While PlaceInv and the locks hold, an event of a punctual conversation that is out
\* belongs to the batch of its only turn or parked batch, and the queue does not hold it.
LEMMA OutIsApart ==
  ASSUME TypeInv, LockInv, PlaceInv, NEW e \in Events, NEW c, c = ConvOf[e], c \notin Overruns
  PROVE  /\ \A a \in Agents : Busy(a) /\ e \in BatchIds(tasks[a].batch) =>
              tasks[a].conv = c /\ e \notin HeldIds(q, c)
         /\ \A i \in DOMAIN waiting : e \in BatchIds(waiting[i]) =>
              waiting[i].channel_id = c /\ e \notin HeldIds(q, c)
<1>1. ASSUME NEW b \in FlushBatch, BatchApart(q, b), e \in BatchIds(b)
      PROVE  b.channel_id = c /\ e \notin HeldIds(q, c)
  <2>1. PICK d \in Conversations : d = b.channel_id
    BY BatchTypes
  <2>2. d = c
    BY <1>1, <2>1 DEF BatchApart
  <2>3. e \in q.in_flight_event_ids[d] /\ ListsApart(q, d)
    BY <1>1, <2>1, <2>2 DEF BatchApart, BatchOnce, PlaceInv, QueueApart
  <2> QED
    BY <2>1, <2>2, <2>3 DEF ListsApart
<1>2. ASSUME NEW a \in Agents, Busy(a), e \in BatchIds(tasks[a].batch)
      PROVE  tasks[a].conv = c /\ e \notin HeldIds(q, c)
  <2>1. /\ tasks[a].batch \in FlushBatch /\ BatchApart(q, tasks[a].batch)
        /\ tasks[a].batch.channel_id = tasks[a].conv
    BY <1>2 DEF PlaceInv, TaskApart, Busy, TypeInv, TasksTyped, TaskType
  <2> QED
    BY <1>1, <1>2, <2>1
<1>3. ASSUME NEW i \in DOMAIN waiting, e \in BatchIds(waiting[i])
      PROVE  waiting[i].channel_id = c /\ e \notin HeldIds(q, c)
  <2>1. waiting \in Seq(FlushBatch) /\ i \in 1 .. Len(waiting)
    BY LenProperties DEF TypeInv, WaitingTyped
  <2>2. waiting[i] \in FlushBatch /\ BatchApart(q, waiting[i])
    BY <2>1, ElementOfSeq DEF PlaceInv
  <2> QED
    BY <1>1, <1>3, <2>2
<1> QED
  BY <1>2, <1>3

\* A batch that has the event has it once.
LEMMA OnceInBatch ==
  ASSUME NEW k, NEW b \in FlushBatch, BatchOnce(k, b), NEW e \in BatchIds(b)
  PROVE  Cardinality({i \in DOMAIN b.events : b.events[i].id = e})
           + Cardinality({i \in DOMAIN b.cancelled_events : b.cancelled_events[i].id = e}) = 1
<1>1. /\ b.events \in Seq(Entry) /\ b.cancelled_events \in Seq(Entry)
      /\ NoDup(b.events) /\ NoDup(b.cancelled_events)
      /\ Ids(b.events) \cap Ids(b.cancelled_events) = {}
      /\ e \in Ids(b.events) \cup Ids(b.cancelled_events)
  BY BatchTypes DEF BatchOnce, BatchIds
<1>2. PICK m, n : /\ m = Cardinality({i \in DOMAIN b.events : b.events[i].id = e})
                  /\ n = Cardinality({i \in DOMAIN b.cancelled_events : b.cancelled_events[i].id = e})
  OBVIOUS
<1>3. CASE e \in Ids(b.events)
  <2>1. m = 1 /\ n = 0
    BY <1>1, <1>2, <1>3, AtMostOnce
  <2> QED
    BY <1>2, <2>1
<1>4. CASE e \in Ids(b.cancelled_events)
  <2>1. m = 0 /\ n = 1
    BY <1>1, <1>2, <1>4, AtMostOnce
  <2> QED
    BY <1>2, <2>1
<1> QED
  BY <1>1, <1>3, <1>4

\* PlaceInv and the locks say where an event can be.
LEMMA OnePlace == TypeInv /\ LockInv /\ PlaceInv => EventInOnePlace
<1> SUFFICES ASSUME TypeInv, LockInv, PlaceInv, NEW e \in Events, ConvOf[e] \in Punctual
             PROVE  Copies(e)
  BY DEF EventInOnePlace
<1>1. PICK c \in Conversations : c = ConvOf[e] /\ c \notin Overruns
  BY DEF Punctual
<1>2. PICK out, parked : /\ out = {a \in Agents : Busy(a) /\ e \in BatchIds(tasks[a].batch)}
                         /\ parked = {i \in DOMAIN waiting : e \in BatchIds(waiting[i])}
  OBVIOUS
<1>3. /\ \A a \in out : a \in Agents /\ Busy(a) /\ tasks[a].conv = c /\ e \notin HeldIds(q, c)
      /\ \A i \in parked : i \in DOMAIN waiting /\ waiting[i].channel_id = c /\ e \notin HeldIds(q, c)
  BY <1>1, <1>2, OutIsApart
<1>4. /\ \A a, b \in out : a = b
      /\ \A i, j \in parked : i = j
      /\ out = {} \/ parked = {}
  BY <1>1, <1>3 DEF LockInv, AtMostOneTurn
<1>5. /\ q.queues[c] \in Seq(Entry) /\ q.cancelled_batches[c] \in Seq(Entry)
      /\ q.withheld_native_steer[c] \in Seq(Entry) /\ ListsApart(q, c)
  BY <1>1, ListTypes DEF TypeInv, QueueOK, PlaceInv, QueueApart
<1>6. PICK A \in BOOLEAN, B \in BOOLEAN, C \in BOOLEAN, D \in BOOLEAN, E \in BOOLEAN :
        /\ A <=> e \in Ids(q.queues[c])
        /\ B <=> e \in Ids(q.cancelled_batches[c])
        /\ C <=> e \in Ids(q.withheld_native_steer[c])
        /\ D <=> out # {}
        /\ E <=> parked # {}
  OBVIOUS
<1>7. PICK n1, n2, n3, n4, n5 :
        /\ n1 = Cardinality({i \in DOMAIN q.queues[c] : q.queues[c][i].id = e})
        /\ n2 = Cardinality({i \in DOMAIN q.cancelled_batches[c] : q.cancelled_batches[c][i].id = e})
        /\ n3 = Cardinality({i \in DOMAIN q.withheld_native_steer[c] : q.withheld_native_steer[c][i].id = e})
        /\ n4 = Cardinality(out)
        /\ n5 = Cardinality(parked)
  OBVIOUS
<1>8. n1 = IF A THEN 1 ELSE 0
  BY <1>5, <1>6, <1>7, AtMostOnce DEF ListsApart
<1>9. n2 = IF B THEN 1 ELSE 0
  BY <1>5, <1>6, <1>7, AtMostOnce DEF ListsApart
<1>10. n3 = IF C THEN 1 ELSE 0
  BY <1>5, <1>6, <1>7, AtMostOnce DEF ListsApart
<1>11. n4 = (IF D THEN 1 ELSE 0) /\ n5 = (IF E THEN 1 ELSE 0)
  BY <1>4, <1>6, <1>7, AtMostOne
<1>12. ~(A /\ B) /\ ~(A /\ C) /\ ~(B /\ C)
  BY <1>5, <1>6 DEF ListsApart
<1>13. /\ ~(A /\ D) /\ ~(A /\ E) /\ ~(B /\ D) /\ ~(B /\ E) /\ ~(C /\ D) /\ ~(C /\ E) /\ ~(D /\ E)
  BY <1>3, <1>4, <1>6 DEF HeldIds
<1>14. n1 + n2 + n3 + n4 + n5 <= 1
  BY <1>8, <1>9, <1>10, <1>11, <1>12, <1>13, OneOfFive
<1>15. ASSUME NEW a \in out
       PROVE  Cardinality({i \in DOMAIN tasks[a].batch.events : tasks[a].batch.events[i].id = e})
                + Cardinality({i \in DOMAIN tasks[a].batch.cancelled_events :
                                 tasks[a].batch.cancelled_events[i].id = e}) = 1
  <2>1. PICK b : b = tasks[a].batch
    OBVIOUS
  <2>2. b \in FlushBatch /\ BatchApart(q, b) /\ e \in BatchIds(b)
    BY <1>2, <1>15, <2>1 DEF PlaceInv, TaskApart, Busy, TypeInv, TasksTyped, TaskType
  <2>3. BatchOnce(q, b)
    BY <1>1, <2>2 DEF BatchApart
  <2> QED
    BY <2>1, <2>2, <2>3, OnceInBatch
<1>16. ASSUME NEW i \in parked
       PROVE  Cardinality({j \in DOMAIN waiting[i].events : waiting[i].events[j].id = e})
                + Cardinality({j \in DOMAIN waiting[i].cancelled_events :
                                 waiting[i].cancelled_events[j].id = e}) = 1
  <2>1. PICK b : b = waiting[i]
    OBVIOUS
  <2>2. waiting \in Seq(FlushBatch) /\ i \in 1 .. Len(waiting)
    BY <1>2, <1>16, LenProperties DEF TypeInv, WaitingTyped
  <2>3. b \in FlushBatch /\ BatchApart(q, b) /\ e \in BatchIds(b)
    BY <1>2, <1>16, <2>1, <2>2, ElementOfSeq DEF PlaceInv
  <2>4. BatchOnce(q, b)
    BY <1>1, <2>3 DEF BatchApart
  <2> QED
    BY <2>1, <2>3, <2>4, OnceInBatch
<1> QED
  BY <1>1, <1>2, <1>7, <1>14, <1>15, <1>16 DEF Copies

\* EventInOnePlace: in every harness an event of a conversation whose turns keep their
\* deadlines is in one place only (a ready queue, a cancelled batch, the withheld list, a
\* running turn or a batch parked by dispatch_pending), however the relay redelivers it,
\* however turns are cancelled, steered, requeued or lost to a crash, and whatever the
\* sweep releases in the conversations beside it; push's test (contains_event) is enough.
THEOREM EventNeverTwice == Spec => []EventInOnePlace
<1>1. TypeInv /\ LockInv /\ PlaceInv => EventInOnePlace
  BY OnePlace
<1> QED
  BY <1>1, TypeInvariant, LockInvariant, PlaceInvariant, PTL


-----------------------------------------------------------------------------
(* The event that was just pushed survives its own push *)

\* When the last entry of queue c is younger than every other entry of the channel, the
\* eviction at the routing cap leaves it in place: all the others go first, and the cap
\* is not zero.
LEMMA NewestStays ==
  ASSUME NEW qs \in [Conversations -> Seq(Entry)], NEW c \in Conversations, NEW t \in Nat,
         IsFiniteSet(Positions(qs, Routing[c])), qs[c] # <<>>,
         qs[c][Len(qs[c])].received_at = t + 1,
         \A i \in 1 .. Len(qs[c]) - 1 : qs[c][i].received_at <= t,
         \A d \in Conversations \ {c} : Stamped(qs[d], t)
  PROVE  qs[c][Len(qs[c])].id \in Ids(PopVictims(qs, Victims(qs, Routing[c]))[c])
<1>1. PICK ch, n, p, all, V : /\ ch = Routing[c] /\ n = Len(qs[c]) /\ p = <<c, n>>
                              /\ all = Positions(qs, ch) /\ V = Victims(qs, ch)
  OBVIOUS
<1>2. qs[c] \in Seq(Entry) /\ n \in Nat \ {0} /\ n \in 1 .. n
  <2>1. qs[c] \in Seq(Entry) /\ n \in Nat
    BY <1>1, LenProperties
  <2>2. n # 0
    BY <1>1, <2>1, EmptySeq
  <2> QED
    BY <2>1, <2>2
<1>3. IsFiniteSet(all) /\ p \in all
  BY <1>1, <1>2, PositionsMembers
<1>4. YoungestUpTo(qs[c], n) \in Nat /\ t + 1 <= YoungestUpTo(qs[c], n)
  BY <1>1, <1>2, YoungestProperties
<1>5. ASSUME NEW r \in all, r # p PROVE EvictedBefore(qs, r, p)
  <2>1. PICK d \in Conversations : \E i \in 1 .. Len(qs[d]) : r = <<d, i>>
    BY <1>1, PositionsMembers
  <2>2. PICK i \in 1 .. Len(qs[d]) : r = <<d, i>>
    BY <2>1
  <2>3. qs[d] \in Seq(Entry) /\ Len(qs[d]) \in Nat
    BY LenProperties
  <2>4. PICK j \in 1 .. i : YoungestUpTo(qs[d], i) = qs[d][j].received_at
    BY <2>3, YoungestProperties
  <2>5. YoungestUpTo(qs[d], i) \in Nat
    BY <2>3, YoungestProperties
  <2>6. qs[d][j].received_at <= t
    <3>1. CASE d = c
      <4>1. i # n
        BY <1>1, <1>5, <2>2, <3>1
      <4>2. j \in 1 .. n - 1
        BY <1>1, <1>2, <2>3, <3>1, <4>1
      <4> QED
        BY <1>1, <3>1, <4>2
    <3>2. CASE d # c
      <4>1. j \in 1 .. Len(qs[d])
        BY <2>3
      <4> QED
        BY <3>2, <4>1 DEF Stamped
    <3> QED
      BY <3>1, <3>2
  <2>7. YoungestUpTo(qs[d], i) < YoungestUpTo(qs[c], n)
    BY <1>4, <2>4, <2>5, <2>6
  <2>8. r[1] = d /\ r[2] = i /\ p[1] = c /\ p[2] = n
    BY <1>1, <2>2
  <2> QED
    BY <2>7, <2>8 DEF EvictedBefore
<1>6. PICK B : B = {r \in all : EvictedBefore(qs, r, p)}
  OBVIOUS
<1>7. /\ Cardinality(all) \in Nat /\ Cardinality(B) \in Nat /\ Cardinality(B) >= Cardinality(all) - 1
  <2>1. IsFiniteSet(B) /\ all \ {p} \in SUBSET B
    BY <1>3, <1>5, <1>6, FS_Subset
  <2>2. /\ Cardinality(all \ {p}) = Cardinality(all) - 1
        /\ Cardinality(all \ {p}) <= Cardinality(B)
    BY <1>3, <2>1, FS_RemoveElement, FS_Subset
  <2>3. Cardinality(all) \in Nat /\ Cardinality(B) \in Nat
    BY <1>3, <2>1, FS_CardinalityType
  <2> QED
    BY <2>2, <2>3
<1>8. p \notin V
  <2>1. PICK excess : excess = IF Cardinality(all) > MaxPending THEN Cardinality(all) - MaxPending ELSE 0
    OBVIOUS
  <2>2. V = {o \in all : Cardinality({r \in all : EvictedBefore(qs, r, o)}) < excess}
    BY <1>1, <2>1 DEF Victims
  <2>3. ~(Cardinality(B) < excess)
    BY <1>7, <2>1, QueueAssumption
  <2> QED
    BY <1>6, <2>2, <2>3
<1>9. PICK O, v : O = {o \in V : o[1] = c} /\ v = Cardinality(O)
  OBVIOUS
<1>10. v \in 0 .. n - 1
  <2>1. V \in SUBSET all
    BY <1>1, <1>3, VictimsEnough
  <2>2. ASSUME NEW o \in O PROVE o \in {c} \X (1 .. n - 1)
    <3>1. o \in all /\ o # p /\ o[1] = c
      BY <1>8, <1>9, <2>1
    <3>2. PICK d \in Conversations : \E i \in 1 .. Len(qs[d]) : o = <<d, i>>
      BY <1>1, <3>1, PositionsMembers
    <3>3. PICK i \in 1 .. Len(qs[d]) : o = <<d, i>>
      BY <3>2
    <3>4. d = c /\ i \in 1 .. n /\ i # n
      BY <1>1, <3>1, <3>3
    <3>5. i \in 1 .. n - 1
      BY <1>2, <3>4
    <3> QED
      BY <3>3, <3>4, <3>5
  <2>3. n - 1 \in Nat
    BY <1>2
  <2>4. PICK Z : Z = {c} \X (1 .. n - 1)
    OBVIOUS
  <2>5. IsFiniteSet(Z) /\ Cardinality(Z) = n - 1 /\ O \in SUBSET Z
    BY <2>2, <2>3, <2>4, ColumnCard
  <2>6. IsFiniteSet(O) /\ Cardinality(O) <= n - 1 /\ Cardinality(O) \in Nat
    BY <2>5, FS_Subset, FS_CardinalityType
  <2> QED
    BY <1>9, <2>3, <2>6
<1>11. PICK s : s = SubSeq(qs[c], v + 1, n)
  OBVIOUS
<1>12. PopVictims(qs, V)[c] = s
  BY <1>1, <1>9, <1>11 DEF PopVictims
<1>13. /\ v + 1 \in Nat \ {0} /\ n \in 0 .. Len(qs[c]) /\ v + 1 <= n
       /\ n - v \in 1 .. n - (v + 1) + 1 /\ (v + 1) + (n - v) - 1 = n
  BY <1>1, <1>2, <1>10
<1>14. /\ s \in Seq(Entry) /\ Len(s) = n - (v + 1) + 1
       /\ \A i \in 1 .. n - (v + 1) + 1 : s[i] = qs[c][(v + 1) + i - 1]
  BY <1>2, <1>11, <1>13, SubSeqDrawn
<1>15. s[n - v] = qs[c][n] /\ n - v \in DOMAIN s
  <2>1. s[n - v] = qs[c][(v + 1) + (n - v) - 1]
    BY <1>13, <1>14
  <2>2. DOMAIN s = 1 .. Len(s)
    BY <1>14, LenProperties
  <2> QED
    BY <1>13, <1>14, <2>1, <2>2
<1> QED
  BY <1>1, <1>12, <1>15 DEF Ids

\* So an accepted event is ready when push returns, also at both caps.
LEMMA PushKeepsNew ==
  ASSUME NEW k, NEW t \in Nat, QueueOK(k, t), NEW e \in Events, NEW x \in BOOLEAN
  PROVE  e \in Ids(Push(k, e, t + 1, x, FALSE).queues[ConvOf[e]])
<1>1. PICK c, entry : /\ c = ConvOf[e]
                      /\ entry = [id |-> e, received_at |-> t + 1, hold_exempt |-> x, edited |-> FALSE]
  OBVIOUS
<1>2. /\ c \in Conversations /\ entry \in Entry /\ MaxPending - 1 \in Nat /\ entry.id = e
      /\ entry.received_at = t + 1
  BY <1>1, QueueAssumption DEF Entry
<1>3. PICK kept : kept = KeepLast(k.queues[c], MaxPending - 1)
  OBVIOUS
<1>4. PICK w : w = Append(kept, entry)
  OBVIOUS
<1>5. PICK mid : mid = [k EXCEPT !.queues[c] = w,
                                 !.evicted = (k.evicted \cup (Ids(k.queues[c]) \ Ids(kept))) \ {e}]
  OBVIOUS
<1>6. Push(k, e, t + 1, x, FALSE) = EnforceRoutingCap(mid, c)
  BY <1>1, <1>3, <1>4, <1>5 DEF Push
<1>7. /\ QueueType(k) /\ CapOK(k) /\ k.queues[c] \in Seq(Entry)
      /\ \A d \in Conversations : Stamped(k.queues[d], t)
  BY <1>2, ListTypes DEF QueueOK, ListsStamped
<1>8. kept \in Seq(Entry) /\ Stamped(kept, t) /\ Len(kept) \in Nat
  <2>1. kept \in Seq(Entry) /\ Drawn(kept, k.queues[c])
    BY <1>2, <1>3, <1>7, KeepProperties
  <2> QED
    BY <1>2, <1>7, <2>1, DrawnStamped, LenProperties
<1>9. /\ w \in Seq(Entry) /\ w # <<>> /\ Len(w) = Len(kept) + 1 /\ w[Len(kept) + 1] = entry
      /\ \A i \in 1 .. Len(kept) : w[i] = kept[i]
  BY <1>2, <1>4, <1>8, AppendProperties
<1>10. /\ mid.queues = [k.queues EXCEPT ![c] = w] /\ DOMAIN mid = QueueFields
  BY <1>5, <1>7 DEF QueueType, QueueFields
<1>11. /\ mid.queues \in [Conversations -> Seq(Entry)] /\ mid.queues[c] = w
       /\ \A d \in Conversations \ {c} : mid.queues[d] = k.queues[d]
  BY <1>2, <1>7, <1>9, <1>10 DEF QueueType
<1>12. IsFiniteSet(Positions(mid.queues, Routing[c]))
  <2>1. Routing[c] \in Channels
    BY <1>2, QueueAssumption
  <2> QED
    BY <1>2, <1>7, <1>11, <2>1, OneQueueReplaced
<1>13. PICK qs : qs = mid.queues
  OBVIOUS
<1>14. /\ qs[c][Len(qs[c])] = entry
       /\ \A i \in 1 .. Len(qs[c]) - 1 : qs[c][i].received_at <= t
  <2>1. Len(qs[c]) - 1 = Len(kept) /\ Len(qs[c]) = Len(kept) + 1
    BY <1>8, <1>9, <1>11, <1>13
  <2> QED
    BY <1>8, <1>9, <1>11, <1>13, <2>1 DEF Stamped
<1>15. e \in Ids(PopVictims(qs, Victims(qs, Routing[c]))[c])
  <2>1. /\ qs \in [Conversations -> Seq(Entry)] /\ IsFiniteSet(Positions(qs, Routing[c])) /\ qs[c] # <<>>
        /\ \A d \in Conversations \ {c} : Stamped(qs[d], t)
    BY <1>7, <1>9, <1>11, <1>12, <1>13
  <2>2. qs[c][Len(qs[c])].received_at = t + 1 /\ qs[c][Len(qs[c])].id = e
    BY <1>2, <1>14
  <2>3. qs[c][Len(qs[c])].id \in Ids(PopVictims(qs, Victims(qs, Routing[c]))[c])
    BY <1>2, <1>14, <2>1, <2>2, NewestStays
  <2> QED
    BY <2>2, <2>3
<1>16. EnforceRoutingCap(mid, c).queues = PopVictims(qs, Victims(qs, Routing[c]))
  BY <1>9, <1>10, <1>11, <1>13 DEF EnforceRoutingCap, QueueFields
<1> QED
  BY <1>1, <1>6, <1>15, <1>16


-----------------------------------------------------------------------------
(* The inductive invariant behind SteeredNotPrompted *)

\* In a punctual conversation a steer request in a turn and an ack under way are one token
\* each for one withheld event: no event is withheld for two of them, and none of them
\* refers to an event that is no longer withheld.
TokenInv ==
  /\ \A a \in Agents : tasks[a].conv \notin Overruns =>
       \A e \in tasks[a].steers : e \in Ids(q.withheld_native_steer[tasks[a].conv])
  /\ \A k \in acks : k.channel_id \notin Overruns =>
       k.event_id \in Ids(q.withheld_native_steer[k.channel_id])
  /\ \A k \in acks, a \in Agents :
       k.channel_id \notin Overruns /\ k.event_id \in tasks[a].steers => k.channel_id # tasks[a].conv
  /\ \A j, k \in acks :
       j.channel_id \notin Overruns /\ j.channel_id = k.channel_id /\ j.event_id = k.event_id => j = k

\* No withheld event of a punctual conversation is released or removed.
StillWithheld ==
  \A c \in Conversations \ Overruns :
    Ids(q.withheld_native_steer[c]) \subseteq Ids(q'.withheld_native_steer[c])

\* Every turn has the steer requests it had, or none.
SameSteers ==
  \A a \in Agents : \/ tasks'[a].steers = {}
                    \/ tasks'[a].steers = tasks[a].steers /\ tasks'[a].conv = tasks[a].conv

\* A step that releases nothing and answers nothing.
LEMMA QuietToken ==
  ASSUME TypeInv, TokenInv, StillWithheld, SameSteers, UNCHANGED acks
  PROVE  TokenInv'
<1>1. /\ \A a \in Agents : tasks[a].steers # {} => tasks[a].conv \in Conversations
      /\ \A k \in acks : k.channel_id \in Conversations
  BY DEF TypeInv, TasksTyped, TaskOK, RestTyped
<1>2. ASSUME NEW a \in Agents, NEW e \in tasks'[a].steers, tasks'[a].conv \notin Overruns
      PROVE  e \in Ids(q'.withheld_native_steer[tasks'[a].conv])
  <2>1. e \in tasks[a].steers /\ tasks'[a].conv = tasks[a].conv
    BY <1>2 DEF SameSteers
  <2> QED
    BY <1>1, <1>2, <2>1 DEF TokenInv, StillWithheld
<1>3. ASSUME NEW k \in acks, k.channel_id \notin Overruns
      PROVE  k.event_id \in Ids(q'.withheld_native_steer[k.channel_id])
  BY <1>1, <1>3 DEF TokenInv, StillWithheld
<1>4. ASSUME NEW k \in acks, k.channel_id \notin Overruns, NEW a \in Agents, k.event_id \in tasks'[a].steers
      PROVE  k.channel_id # tasks'[a].conv
  BY <1>4 DEF TokenInv, SameSteers
<1> QED
  BY <1>2, <1>3, <1>4 DEF TokenInv

\* The same, when the withheld list and the tasks do not change at all.
LEMMA IdleToken ==
  ASSUME TypeInv, TokenInv, UNCHANGED <<tasks, acks>>,
         q'.withheld_native_steer = q.withheld_native_steer
  PROVE  TokenInv'
<1>1. StillWithheld /\ SameSteers
  BY DEF StillWithheld, SameSteers
<1> QED
  BY <1>1, QuietToken

\* A signal changes no steer request.
LEMMA SignalToken ==
  ASSUME TypeInv, NEW targets \in SUBSET Agents, NEW s, SendSignal(targets, s)
  PROVE  SameSteers
  BY SignalSteers DEF SameSteers

\* A slot gets a task without steer requests.
LEMMA SlotToken ==
  ASSUME TypeInv, NEW a \in Agents, NEW t, t.steers = {}, tasks' = [tasks EXCEPT ![a] = t]
  PROVE  SameSteers
<1>1. tasks \in [Agents -> TaskType]
  BY DEF TypeInv, TasksTyped
<1> QED
  BY <1>1 DEF SameSteers

\* A steer puts one event in the withheld list and one request in the turn; push has
\* found the event nowhere, so it has no other request and no ack.
LEMMA IngestToken ==
  ASSUME TypeInv, LockInv, TokenInv, NEW e \in Events, NEW x \in BOOLEAN, Ingest(e, x)
  PROVE  TokenInv'
<1>1. PICK c, pushed : c = ConvOf[e] /\ pushed = Push(q, e, clock + 1, x, FALSE)
  OBVIOUS
<1>2. /\ clock \in Nat /\ c \in Conversations /\ QueueOK(q, clock) /\ QueueType(q) /\ CapOK(q)
      /\ clock + 1 \in Nat /\ FALSE \in BOOLEAN /\ tasks \in [Agents -> TaskType] /\ acks' = acks
  BY <1>1, QueueAssumption DEF TypeInv, TimeTyped, TasksTyped, QueueOK, Ingest
<1>3. QueueType(pushed) /\ CapOK(pushed) /\ pushed.withheld_native_steer = q.withheld_native_steer
  BY <1>1, <1>2, PushProperties DEF OnlyReady
<1>4. CASE /\ q' = pushed \/ q' = q
           /\ UNCHANGED tasks \/ SendSignal(SignalTargets(c, Routing[c]), "Interrupt")
  <2>1. SameSteers
    BY <1>4, SignalToken, TargetsAreAgents DEF SameSteers
  <2>2. StillWithheld
    BY <1>3, <1>4 DEF StillWithheld
  <2> QED
    BY <1>2, <2>1, <2>2, QuietToken
<1>5. ASSUME PushAccepts(q, e), NEW a \in TurnsOf(c),
             tasks' = [tasks EXCEPT ![a].steers = @ \cup {e}],
             q' = MarkNativeSteerPending(pushed, c, e)
      PROVE  TokenInv'
  <2>1. a \in Agents /\ tasks[a] \in TaskType /\ tasks[a].conv = c
    BY <1>2, <1>5 DEF TurnsOf
  <2>2. /\ \A d \in Agents \ {a} : tasks'[d] = tasks[d]
        /\ tasks'[a].steers = tasks[a].steers \cup {e} /\ tasks'[a].conv = c
    BY <1>2, <1>5, <2>1 DEF TaskType
  <2>3. e \notin Ids(q.withheld_native_steer[c])
    BY <1>1, <1>5 DEF PushAccepts, ContainsEvent
  <2>4. e \in Ids(pushed.queues[c])
    BY <1>1, <1>2, PushKeepsNew
  <2> DEFINE r == MarkNativeSteerPending(pushed, c, e)
  <2>5. \/ r = pushed /\ e \notin Ids(pushed.queues[c])
        \/ /\ \E y \in Entry : /\ y.id = e
                               /\ \E i \in 1 .. Len(pushed.queues[c]) : y = pushed.queues[c][i]
                               /\ r.withheld_native_steer[c] = Append(pushed.withheld_native_steer[c], y)
           /\ NoDup(pushed.queues[c]) => e \notin Ids(r.queues[c])
    BY <1>2, <1>3, WithholdProperties, Zenon
  <2>6. \A d \in Conversations \ {c} : q'.withheld_native_steer[d] = q.withheld_native_steer[d]
    BY <1>2, <1>3, <1>5, WithholdProperties
  <2>7. PICK y \in Entry : /\ y.id = e
                           /\ q'.withheld_native_steer[c] = Append(q.withheld_native_steer[c], y)
    BY <1>3, <1>5, <2>4, <2>5
  <2>8. Ids(q'.withheld_native_steer[c]) = Ids(q.withheld_native_steer[c]) \cup {e}
    BY <1>2, <2>7, ListTypes, AppendIds
  <2>9. StillWithheld
    BY <2>6, <2>8 DEF StillWithheld
  <2>10. /\ \A b \in Agents : tasks[b].steers # {} => tasks[b].conv \in Conversations
         /\ \A k \in acks : k.channel_id \in Conversations
    BY DEF TypeInv, TasksTyped, TaskOK, RestTyped
  <2>11. ASSUME NEW b \in Agents, NEW f \in tasks'[b].steers, tasks'[b].conv \notin Overruns
         PROVE  f \in Ids(q'.withheld_native_steer[tasks'[b].conv])
    <3>1. CASE b = a /\ f = e
      BY <2>2, <2>8, <3>1
    <3>2. CASE ~(b = a /\ f = e)
      <4>1. f \in tasks[b].steers /\ tasks'[b].conv = tasks[b].conv
        BY <2>1, <2>2, <2>11, <3>2
      <4> QED
        BY <2>9, <2>10, <2>11, <4>1 DEF TokenInv, StillWithheld
    <3> QED
      BY <3>1, <3>2
  <2>12. ASSUME NEW k \in acks, k.channel_id \notin Overruns
         PROVE  /\ k.event_id \in Ids(q'.withheld_native_steer[k.channel_id])
                /\ ~(k.channel_id = c /\ k.event_id = e)
    BY <2>3, <2>9, <2>10, <2>12 DEF TokenInv, StillWithheld
  <2>13. ASSUME NEW k \in acks, k.channel_id \notin Overruns, NEW b \in Agents,
                k.event_id \in tasks'[b].steers
         PROVE  k.channel_id # tasks'[b].conv
    <3>1. CASE b = a /\ k.event_id = e
      BY <2>2, <2>12, <2>13, <3>1
    <3>2. CASE ~(b = a /\ k.event_id = e)
      <4>1. k.event_id \in tasks[b].steers /\ tasks'[b].conv = tasks[b].conv
        BY <2>1, <2>2, <2>13, <3>2
      <4> QED
        BY <2>13, <4>1 DEF TokenInv
    <3> QED
      BY <3>1, <3>2
  <2> QED
    BY <1>2, <2>11, <2>12, <2>13 DEF TokenInv
<1> QED
  BY <1>1, <1>4, <1>5 DEF Ingest, NativeSteer

\* An answered or abandoned request becomes the ack of its event.
LEMMA TaskToken ==
  ASSUME TypeInv, LockInv, TokenInv, NEW a \in Agents, NEW e, NEW kind,
         FinishTurn(a) \/ PanicTurn(a) \/ AnswerSteer(a, e, kind)
  PROVE  TokenInv'
<1>1. /\ tasks \in [Agents -> TaskType] /\ UNCHANGED q /\ tasks[a].phase = "running"
      /\ \A b \in Agents : tasks[b].steers # {} => tasks[b].phase # "free"
  BY DEF TypeInv, TasksTyped, TaskOK, FinishTurn, PanicTurn, AnswerSteer, queueVars
<1>2. tasks[a] \in TaskType /\ \A b \in Agents \ {a} : tasks'[b] = tasks[b]
  BY <1>1 DEF FinishTurn, PanicTurn, AnswerSteer
<1>3. PICK c : c = tasks[a].conv
  OBVIOUS
<1>4. \A b \in Agents \ {a} : tasks[b].steers # {} => tasks[b].conv # c \/ c \in Overruns
  BY <1>1, <1>3 DEF LockInv, AtMostOneTurn, Busy
<1>5. PICK S : /\ S \subseteq tasks[a].steers
               /\ tasks'[a].steers = tasks[a].steers \ S /\ tasks'[a].conv = c
               /\ \A k \in acks' : k \in acks \/ (k.channel_id = c /\ k.event_id \in S)
               /\ \A j, k \in acks' : j \notin acks /\ k \notin acks /\ j.event_id = k.event_id => j = k
  <2>1. CASE FinishTurn(a)
    <3>1. PICK end : tasks' = [tasks EXCEPT ![a] = Ended(tasks[a], end)]
      BY <2>1 DEF FinishTurn
    <3>2. Ended(tasks[a], end).steers = {} /\ Ended(tasks[a], end).conv = c
      BY <1>2, <1>3 DEF Ended, TaskType
    <3>3. tasks'[a].steers = {} /\ tasks'[a].conv = c
      BY <1>1, <3>1, <3>2
    <3>4. acks' = acks \cup {[channel_id |-> c, event_id |-> f, kind |-> "release"] : f \in tasks[a].steers}
      BY <1>3, <2>1 DEF FinishTurn, Neutral
    <3> QED
      BY <3>3, <3>4
  <2>2. CASE PanicTurn(a)
    <3>1. tasks'[a].steers = {} /\ tasks'[a].conv = c
      BY <1>1, <1>2, <1>3, <2>2 DEF PanicTurn, TaskType
    <3>2. acks' = acks \cup {[channel_id |-> c, event_id |-> f, kind |-> "release"] : f \in tasks[a].steers}
      BY <1>3, <2>2 DEF PanicTurn, Neutral
    <3> QED
      BY <3>1, <3>2
  <2>3. CASE AnswerSteer(a, e, kind)
    <3>1. tasks'[a].steers = tasks[a].steers \ {e} /\ tasks'[a].conv = c
      BY <1>1, <1>2, <1>3, <2>3 DEF AnswerSteer, TaskType
    <3>2. /\ acks' = acks \cup {[channel_id |-> c, event_id |-> e, kind |-> kind]}
          /\ {e} \subseteq tasks[a].steers
      BY <1>3, <2>3 DEF AnswerSteer
    <3>3. PICK ack : ack = [channel_id |-> c, event_id |-> e, kind |-> kind]
      OBVIOUS
    <3>4. acks' = acks \cup {ack} /\ ack.channel_id = c /\ ack.event_id \in {e}
      BY <3>2, <3>3
    <3>5. /\ \A k \in acks' : k \in acks \/ (k.channel_id = c /\ k.event_id \in {e})
          /\ \A j, k \in acks' : j \notin acks /\ k \notin acks /\ j.event_id = k.event_id => j = k
      BY <3>4
    <3> QED
      BY <3>1, <3>2, <3>5
  <2> QED
    BY <2>1, <2>2, <2>3
<1>6. ASSUME NEW b \in Agents, NEW f \in tasks'[b].steers
      PROVE  f \in tasks[b].steers /\ tasks'[b].conv = tasks[b].conv /\ (b = a => f \notin S)
  BY <1>2, <1>3, <1>5, <1>6
<1>7. ASSUME NEW b \in Agents, NEW f \in tasks'[b].steers, tasks'[b].conv \notin Overruns
      PROVE  f \in Ids(q'.withheld_native_steer[tasks'[b].conv])
  BY <1>1, <1>6, <1>7 DEF TokenInv
<1>8. ASSUME NEW k \in acks', k.channel_id \notin Overruns
      PROVE  k.event_id \in Ids(q'.withheld_native_steer[k.channel_id])
  BY <1>1, <1>3, <1>5, <1>8 DEF TokenInv
<1>9. ASSUME NEW k \in acks', k.channel_id \notin Overruns, NEW b \in Agents,
             k.event_id \in tasks'[b].steers
      PROVE  k.channel_id # tasks'[b].conv
  <2>1. k.event_id \in tasks[b].steers /\ tasks'[b].conv = tasks[b].conv /\ (b = a => k.event_id \notin S)
    BY <1>6, <1>9
  <2>2. CASE k \in acks
    BY <1>9, <2>1, <2>2 DEF TokenInv
  <2>3. CASE k \notin acks
    <3>1. k.channel_id = c /\ k.event_id \in S
      BY <1>5, <1>9, <2>3
    <3>2. b # a
      BY <2>1, <3>1
    <3> QED
      BY <1>4, <1>9, <2>1, <3>1, <3>2
  <2> QED
    BY <2>2, <2>3
<1>10. ASSUME NEW j \in acks', NEW k \in acks', j.channel_id \notin Overruns,
              j.channel_id = k.channel_id, j.event_id = k.event_id
       PROVE  j = k
  <2>1. ASSUME NEW l \in acks, l.channel_id \notin Overruns, NEW m \in acks', m \notin acks
        PROVE  ~(l.channel_id = m.channel_id /\ l.event_id = m.event_id)
    BY <1>3, <1>5, <2>1 DEF TokenInv
  <2> QED
    BY <1>5, <1>10, <2>1 DEF TokenInv
<1> QED
  BY <1>7, <1>8, <1>9, <1>10 DEF TokenInv

\* The steer-ack arm takes the ack's event off the list, and with it only that ack's.
LEMMA AckToken ==
  ASSUME TypeInv, TokenInv, NEW k \in acks, HandleSteerAck(k)
  PROVE  TokenInv'
<1>1. PICK c, e : c = k.channel_id /\ e = k.event_id
  OBVIOUS
<1>2. c \in Conversations /\ QueueType(q) /\ CapOK(q) /\ acks' = acks \ {k}
  BY <1>1 DEF TypeInv, RestTyped, QueueOK, HandleSteerAck
<1>3. \A a \in Agents : tasks'[a].steers = tasks[a].steers /\ tasks'[a].conv = tasks[a].conv
  BY <1>1, SignalSteers, TargetsAreAgents DEF HandleSteerAck
<1>4. /\ \A d \in Conversations \ {c} : q'.withheld_native_steer[d] = q.withheld_native_steer[d]
      /\ Ids(q.withheld_native_steer[c]) \subseteq Ids(q'.withheld_native_steer[c]) \cup {e}
  <2>1. CASE q' = RemoveEvent(ExtendInFlightDeadline(q, c), c, e)
    <3>1. PICK r : r = ExtendInFlightDeadline(q, c)
      OBVIOUS
    <3>2. QueueType(r) /\ CapOK(r) /\ r.withheld_native_steer = q.withheld_native_steer
      BY <1>2, <3>1, ExtendProperties, SameEventsCap DEF SameEvents
    <3>3. /\ \A d \in Conversations \ {c} : q'.withheld_native_steer[d] = r.withheld_native_steer[d]
          /\ Ids(q'.withheld_native_steer[c]) = Ids(r.withheld_native_steer[c]) \ {e}
      BY <1>2, <2>1, <3>1, <3>2, RemoveProperties
    <3> QED
      BY <3>2, <3>3
  <2>2. CASE q' = ReleaseNativeSteer(q, c, e)
    <3>1. \A d \in Conversations \ {c} : q'.withheld_native_steer[d] = q.withheld_native_steer[d]
      BY <1>2, <2>2, ReleaseProperties
    <3>2. \/ q' = q
          \/ Ids(q.withheld_native_steer[c]) \subseteq Ids(q'.withheld_native_steer[c]) \cup {e}
      BY <1>2, <2>2, ReleaseProperties, Zenon
    <3> QED
      BY <3>1, <3>2
  <2> QED
    BY <1>1, <2>1, <2>2 DEF HandleSteerAck
<1>5. ASSUME NEW d \in Conversations, NEW f \in Ids(q.withheld_native_steer[d]), ~(d = c /\ f = e)
      PROVE  f \in Ids(q'.withheld_native_steer[d])
  BY <1>4, <1>5
<1>6. /\ \A a \in Agents : tasks[a].steers # {} => tasks[a].conv \in Conversations
      /\ \A j \in acks : j.channel_id \in Conversations
  BY DEF TypeInv, TasksTyped, TaskOK, RestTyped
<1>7. ASSUME NEW a \in Agents, NEW f \in tasks[a].steers, tasks[a].conv \notin Overruns
      PROVE  f \in Ids(q'.withheld_native_steer[tasks[a].conv])
  BY <1>1, <1>5, <1>6, <1>7 DEF TokenInv
<1>8. ASSUME NEW j \in acks', j.channel_id \notin Overruns
      PROVE  j.event_id \in Ids(q'.withheld_native_steer[j.channel_id])
  BY <1>1, <1>2, <1>5, <1>6, <1>8 DEF TokenInv
<1> QED
  BY <1>2, <1>3, <1>7, <1>8 DEF TokenInv


\* Completions, requeues and flushes leave the withheld list alone.
LEMMA WithheldSame ==
  ASSUME TypeInv,
         \/ \E c \in Conversations : DispatchBatch(c)
         \/ RequeueWaiting
         \/ \E a \in Agents : HandleResult(a) \/ RecoverPanic(a)
  PROVE  q'.withheld_native_steer = q.withheld_native_steer
<1>1. QueueOK(q, clock) /\ QueueType(q) /\ CapOK(q)
  BY DEF TypeInv, QueueOK
<1>2. ASSUME NEW c \in Conversations, DispatchBatch(c)
      PROVE  q'.withheld_native_steer = q.withheld_native_steer
  <2>1. PICK b, flushed : b = BatchFor(q, matured, c) /\ flushed = Flushed(q, matured, c)
    OBVIOUS
  <2>2. /\ QueueOK(flushed, clock) /\ b \in FlushBatch /\ BatchStamped(b, clock)
        /\ flushed.withheld_native_steer = q.withheld_native_steer
    BY <1>1, <2>1, FlushOK, FlushedProperties
  <2>3. q' = flushed \/ q' = MarkComplete(RequeuePreserveTimestamps(flushed, b), c)
    BY <1>2, <2>1 DEF DispatchBatch
  <2> QED
    BY <2>2, <2>3, CompleteWithheld
<1>3. ASSUME RequeueWaiting PROVE q'.withheld_native_steer = q.withheld_native_steer
  <2>1. CASE waiting = <<>>
    BY <1>3, <2>1 DEF RequeueWaiting
  <2>2. CASE waiting # <<>>
    <3>1. PICK b : b = Head(waiting)
      OBVIOUS
    <3>2. waiting \in Seq(FlushBatch)
      BY DEF TypeInv, WaitingTyped
    <3>3. 1 \in 1 .. Len(waiting) /\ b = waiting[1]
      BY <2>2, <3>1, <3>2, LenProperties, EmptySeq, HeadTailProperties
    <3>4. b \in FlushBatch /\ BatchStamped(b, clock) /\ b.channel_id \in Conversations
      BY <3>2, <3>3, ElementOfSeq, BatchTypes DEF TypeInv, WaitingTyped
    <3>5. q' = MarkComplete(RequeuePreserveTimestamps(q, b), b.channel_id)
      BY <1>3, <2>2, <3>1 DEF RequeueWaiting
    <3> QED
      BY <1>1, <3>4, <3>5, CompleteWithheld
  <2> QED
    BY <2>1, <2>2
<1>4. ASSUME NEW a \in Agents, HandleResult(a) \/ RecoverPanic(a)
      PROVE  q'.withheld_native_steer = q.withheld_native_steer
  BY <1>4, EndWithheldSame
<1> QED
  BY <1>2, <1>3, <1>4

\* No request and no ack at first.
LEMMA TokenInit == Init => TokenInv
  BY DEF Init, NoTask, TokenInv

\* The configurations in which, but for an expiry, only an ack takes an event off the
\* withheld list: nothing is drained (cancel_turn on a conversation without a turn, a
\* member removed) and no edit drops a message.
OnlyAcksRelease ==
  /\ "drop" \notin Edits
  /\ "Cancel" \notin OwnerSignals
  /\ Membership = {}

\* Then every step keeps one token per withheld event of a punctual conversation.
LEMMA TokenStep ==
  OnlyAcksRelease /\ TypeInv /\ PoolInv /\ LockInv /\ TokenInv /\ [Next]_vars => TokenInv'
<1> SUFFICES ASSUME OnlyAcksRelease, TypeInv, PoolInv, LockInv, TokenInv, [Next]_vars PROVE TokenInv'
  OBVIOUS
<1> USE DEF queueVars, poolVars
<1>1. QueueType(q) /\ CapOK(q) /\ clock \in Nat
  BY DEF TypeInv, QueueOK, TimeTyped
<1>2. CASE UNCHANGED vars
  BY <1>2, IdleToken DEF vars
<1>3. ASSUME NEW e \in Events, NEW x \in BOOLEAN, Ingest(e, x) PROVE TokenInv'
  BY <1>3, IngestToken
<1>4. ASSUME NEW e \in Events, NEW edit \in Edits, EditMessage(e, edit) PROVE TokenInv'
  <2>1. q' = PatchEvent(q, e) /\ UNCHANGED <<tasks, acks>>
    BY <1>4 DEF EditMessage, OnlyAcksRelease
  <2>2. StillWithheld
    BY <1>1, <2>1, PatchProperties DEF StillWithheld
  <2>3. SameSteers
    BY <2>1 DEF SameSteers
  <2> QED
    BY <2>1, <2>2, <2>3, QuietToken
<1>5. ASSUME NEW e \in Events, RetryTurn(e) PROVE TokenInv'
  <2>1. PICK k : k = ClearRetryAfter(q, ConvOf[e])
    OBVIOUS
  <2>2. QueueType(k) /\ SameEvents(q, k)
    BY <1>1, <2>1, ThrottleOps, QueueAssumption DEF OnlyThrottles
  <2>3. CapOK(k) /\ k.withheld_native_steer = q.withheld_native_steer
    BY <1>1, <2>2, SameEventsCap DEF SameEvents
  <2>4. clock + 1 \in Nat /\ TRUE \in BOOLEAN /\ FALSE \in BOOLEAN
    BY <1>1
  <2>5. Push(k, e, clock + 1, TRUE, FALSE).withheld_native_steer = k.withheld_native_steer
    BY <2>2, <2>3, <2>4, PushProperties DEF OnlyReady
  <2>6. (q' = k \/ q' = Push(k, e, clock + 1, TRUE, FALSE)) /\ UNCHANGED <<tasks, acks>>
    BY <1>5, <2>1 DEF RetryTurn
  <2> QED
    BY <2>3, <2>5, <2>6, IdleToken
<1>6. ASSUME NEW a \in Agents, NEW e, NEW kind, FinishTurn(a) \/ PanicTurn(a) \/ AnswerSteer(a, e, kind)
      PROVE  TokenInv'
  BY <1>6, TaskToken
<1>7. ASSUME NEW c \in Conversations, NEW s \in OwnerSignals, OwnerControl(c, s) PROVE TokenInv'
  <2>1. s # "Cancel"
    BY DEF OnlyAcksRelease
  <2>2. q' = q /\ acks' = acks
    BY <1>7, <2>1 DEF OwnerControl, OwnerCommand, ObserverSwitchModel
  <2>3. \/ UNCHANGED tasks
        \/ \E r : SendSignal(SignalTargets(c, Routing[c]), r) \/ SendSignal(TurnsOf(c), r)
    BY <1>7 DEF OwnerControl, OwnerCommand, ObserverCancel, ObserverSwitchModel
  <2>4. SameSteers
    BY <2>3, SignalToken, TargetsAreAgents DEF SameSteers
  <2>5. StillWithheld
    BY <2>2 DEF StillWithheld
  <2> QED
    BY <2>2, <2>4, <2>5, QuietToken
<1>8. ASSUME NEW c \in Conversations, Expire(c) PROVE TokenInv'
  <2>1. c \in Overruns /\ UNCHANGED <<tasks, acks>> /\ q' = ExpireInFlight(q, c)
    BY <1>8 DEF Expire, LockInv, NonePassed, Punctual
  <2>2. \A d \in Conversations \ {c} : q'.withheld_native_steer[d] = q.withheld_native_steer[d]
    BY <1>1, <1>8, <2>1, ExpireProperties
  <2>3. StillWithheld /\ SameSteers
    BY <2>1, <2>2 DEF StillWithheld, SameSteers
  <2> QED
    BY <2>1, <2>3, QuietToken
<1>9. ASSUME NEW c \in Conversations, RetryElapses(c) PROVE TokenInv'
  <2>1. q'.withheld_native_steer = q.withheld_native_steer
    BY <1>1, <1>9, ThrottleOps DEF RetryElapses, OnlyThrottles, SameEvents
  <2> QED
    BY <1>9, <2>1, IdleToken DEF RetryElapses
<1>10. ASSUME NEW c \in Conversations, DispatchBatch(c) PROVE TokenInv'
  <2>1. q'.withheld_native_steer = q.withheld_native_steer /\ acks' = acks
    BY <1>10, WithheldSame DEF DispatchBatch
  <2>2. SameSteers
    <3>1. CASE UNCHANGED tasks
      BY <3>1 DEF SameSteers
    <3>2. ASSUME NEW a \in ClaimChoices(c), NEW b, StartTurn(a, c, b, "open") PROVE SameSteers
      <4>1. PICK t : t = [NoTask EXCEPT !.phase = "running", !.conv = c, !.batch = b, !.control = "open"]
        OBVIOUS
      <4>2. a \in Agents /\ tasks' = [tasks EXCEPT ![a] = t] /\ t.steers = {}
        BY <3>2, <4>1 DEF ClaimChoices, PoolInv, StartTurn, NoTask
      <4> QED
        BY <4>2, SlotToken
    <3> QED
      BY <1>10, <3>1, <3>2 DEF DispatchBatch
  <2>3. StillWithheld
    BY <2>1 DEF StillWithheld
  <2> QED
    BY <2>1, <2>2, <2>3, QuietToken
<1>11. ASSUME NEW ch \in Membership, RemoveChannel(ch) \/ AddChannel(ch) PROVE TokenInv'
  BY <1>11 DEF OnlyAcksRelease
<1>12. ASSUME NEW a \in Agents, HandleResult(a) \/ RecoverPanic(a) PROVE TokenInv'
  <2>1. q'.withheld_native_steer = q.withheld_native_steer /\ acks' = acks
    BY <1>12, WithheldSame DEF HandleResult, RecoverPanic
  <2>2. SameSteers
    BY <1>12, SlotToken DEF HandleResult, RecoverPanic, NoTask
  <2>3. StillWithheld
    BY <2>1 DEF StillWithheld
  <2> QED
    BY <2>1, <2>2, <2>3, QuietToken
<1>13. ASSUME NEW a \in Agents, NEW success, CollectRespawn(a, success) \/ CoolDown(a) \/ CrashAges(a)
       PROVE  TokenInv'
  BY <1>13, IdleToken DEF CollectRespawn, CoolDown, CrashAges
<1>14. ASSUME NEW a \in Agents, DeadlinePasses(a) PROVE TokenInv'
  <2>1. q'.withheld_native_steer = q.withheld_native_steer
    BY <1>1, <1>14, DeadlineProperties, HarnessAssumption DEF DeadlinePasses, SameEvents
  <2> QED
    BY <1>14, <2>1, IdleToken DEF DeadlinePasses
<1>15. ASSUME NEW k \in acks, HandleSteerAck(k) PROVE TokenInv'
  BY <1>15, AckToken
<1>16. CASE RequeueWaiting
  <2>1. q'.withheld_native_steer = q.withheld_native_steer
    BY <1>16, WithheldSame
  <2> QED
    BY <1>16, <2>1, IdleToken DEF RequeueWaiting
<1>17. CASE DispatchDone \/ DrainDone \/ MaintainFlush \/ HeartbeatTick \/ HoldElapses \/ HoldWake
  BY <1>17, IdleToken DEF DispatchDone, DrainDone, MaintainFlush, HeartbeatTick, HoldElapses, HoldWake
<1>18. CASE Maintain
  <2>1. q'.withheld_native_steer = q.withheld_native_steer
    BY <1>1, <1>18, CompactProperties DEF Maintain, OnlyThrottles, SameEvents
  <2> QED
    BY <1>18, <2>1, IdleToken DEF Maintain
<1>19. CASE HeartbeatFlush
  <2>1. UNCHANGED <<q, acks>>
    BY <1>19 DEF HeartbeatFlush
  <2>2. SameSteers
    <3>1. CASE UNCHANGED tasks
      BY <3>1 DEF SameSteers
    <3>2. ASSUME NEW a \in idle, StartTurn(a, Heartbeat, NoBatch(Blank), "closed") PROVE SameSteers
      <4>1. PICK t : t = [NoTask EXCEPT !.phase = "running", !.conv = Heartbeat, !.batch = NoBatch(Blank),
                                        !.control = "closed"]
        OBVIOUS
      <4>2. a \in Agents /\ tasks' = [tasks EXCEPT ![a] = t] /\ t.steers = {}
        BY <3>2, <4>1 DEF PoolInv, StartTurn, NoTask
      <4> QED
        BY <4>2, SlotToken
    <3> QED
      BY <1>19, <3>1, <3>2 DEF HeartbeatFlush
  <2>3. StillWithheld
    BY <2>1 DEF StillWithheld
  <2> QED
    BY <2>1, <2>2, <2>3, QuietToken
<1> QED
  BY <1>2, <1>3, <1>4, <1>5, <1>6, <1>7, <1>8, <1>9, <1>10, <1>11, <1>12, <1>13, <1>14, <1>15,
     <1>16, <1>17, <1>18, <1>19
  DEF Next

\* A withheld event of an ack is not ready, not cancelled and in no batch.
LEMMA TokenMeans == TypeInv /\ LockInv /\ PlaceInv /\ TokenInv => SteeredNotPrompted
<1> SUFFICES ASSUME TypeInv, LockInv, PlaceInv, TokenInv, NEW k \in acks, k.channel_id \in Punctual
             PROVE  /\ k.event_id \notin Ids(q.queues[k.channel_id]) \cup Ids(q.cancelled_batches[k.channel_id])
                    /\ \A a \in Agents : Busy(a) => k.event_id \notin BatchIds(tasks[a].batch)
  BY DEF SteeredNotPrompted
<1>1. PICK c, e : c = k.channel_id /\ e = k.event_id
  OBVIOUS
<1>2. c \in Conversations /\ c \notin Overruns /\ e \in Events
  BY <1>1 DEF TypeInv, RestTyped, Punctual
<1>3. e \in Ids(q.withheld_native_steer[c]) /\ QueueApart(q, c) /\ ListsApart(q, c)
  BY <1>1, <1>2 DEF TokenInv, PlaceInv, QueueApart
<1>4. e \in HeldIds(q, c) /\ c = ConvOf[e]
  BY <1>3 DEF HeldIds, QueueApart
<1>5. e \notin Ids(q.queues[c]) \cup Ids(q.cancelled_batches[c])
  BY <1>3 DEF ListsApart
<1>6. \A a \in Agents : Busy(a) => e \notin BatchIds(tasks[a].batch)
  BY <1>2, <1>4, OutIsApart
<1> QED
  BY <1>1, <1>5, <1>6

\* SteeredNotPrompted: when nothing but acks and expiries takes events off the withheld
\* list, a message that a turn of a punctual conversation has taken in by a steer is
\* neither ready nor in a batch while its success ack is under way, for any number of
\* agents, conversations and steers, however acks, results, panics and redeliveries
\* interleave and whatever expires in the conversations beside it.
THEOREM SteeredOnce == ASSUME OnlyAcksRelease PROVE Spec => []SteeredNotPrompted
<1>1. TypeInv /\ PoolInv /\ LockInv /\ TokenInv /\ [Next]_vars => TokenInv'
  BY TokenStep
<1>2. TypeInv /\ LockInv /\ PlaceInv /\ TokenInv => SteeredNotPrompted
  BY TokenMeans
<1> QED
  BY <1>1, <1>2, TypeInvariant, PoolInvariant, LockInvariant, PlaceInvariant, TokenInit, PTL DEF Spec

-----------------------------------------------------------------------------
(* The prompt tasks *)

\* What a task carries fits its source: a heartbeat has no event, a batch is of the
\* task's conversation, and a turn that has not reported has no outcome.
Fits(t) ==
  t.phase # "free" =>
    /\ t.conv = Heartbeat => t.batch.events = <<>>
    /\ t.conv # Heartbeat => t.batch.channel_id = t.conv
    /\ t.phase # "done" => t.outcome = "none"

TaskInv == \A a \in Agents : Fits(tasks[a])

\* Every task keeps its batch and what has become of it.
SameWork ==
  \A a \in Agents :
    /\ tasks'[a].phase = tasks[a].phase /\ tasks'[a].conv = tasks[a].conv
    /\ tasks'[a].batch = tasks[a].batch /\ tasks'[a].outcome = tasks[a].outcome
    /\ tasks'[a].returned = tasks[a].returned

\* A step that leaves the tasks alone.
LEMMA IdleWork ==
  ASSUME UNCHANGED tasks
  PROVE  SameWork
  BY DEF SameWork

\* One task that changes in its control and steer requests only.
LEMMA OneSameWork ==
  ASSUME TypeInv, NEW d \in Agents, NEW t, tasks' = [tasks EXCEPT ![d] = t],
         t.phase = tasks[d].phase, t.conv = tasks[d].conv, t.batch = tasks[d].batch,
         t.outcome = tasks[d].outcome, t.returned = tasks[d].returned
  PROVE  SameWork
<1>1. tasks \in [Agents -> TaskType]
  BY DEF TypeInv, TasksTyped
<1> QED
  BY <1>1 DEF SameWork

\* A signal.
LEMMA SignalWork ==
  ASSUME TypeInv, NEW targets \in SUBSET Agents, NEW s, SendSignal(targets, s)
  PROVE  SameWork
<1>1. CASE UNCHANGED tasks
  BY <1>1, IdleWork
<1>2. ASSUME NEW d \in targets, tasks' = [tasks EXCEPT ![d] = Signalled(tasks[d], s)]
      PROVE  SameWork
  <2>1. PICK t : t = Signalled(tasks[d], s)
    OBVIOUS
  <2>2. tasks[d] \in TaskType /\ d \in Agents
    BY DEF TypeInv, TasksTyped
  <2>3. /\ t.phase = tasks[d].phase /\ t.conv = tasks[d].conv /\ t.batch = tasks[d].batch
        /\ t.outcome = tasks[d].outcome /\ t.returned = tasks[d].returned
    BY <2>1, <2>2 DEF Signalled, TaskType
  <2> QED
    BY <1>2, <2>1, <2>2, <2>3, OneSameWork
<1> QED
  BY <1>1, <1>2 DEF SendSignal

\* A steer request that is made or answered.
LEMMA SteerWork ==
  ASSUME TypeInv, NEW a \in Agents, NEW S, tasks' = [tasks EXCEPT ![a].steers = S]
  PROVE  SameWork
<1>1. PICK t : t = [tasks[a] EXCEPT !.steers = S]
  OBVIOUS
<1>2. tasks[a] \in TaskType
  BY DEF TypeInv, TasksTyped
<1>3. /\ t.phase = tasks[a].phase /\ t.conv = tasks[a].conv /\ t.batch = tasks[a].batch
      /\ t.outcome = tasks[a].outcome /\ t.returned = tasks[a].returned
  BY <1>1, <1>2 DEF TaskType
<1>4. tasks' = [tasks EXCEPT ![a] = t]
  BY <1>1
<1> QED
  BY <1>3, <1>4, OneSameWork

\* The actions that start and end no turn.
LEMMA QuietWork ==
  ASSUME TypeInv, NEW c, NEW e, NEW x, NEW s, NEW k, NEW kind,
         \/ Ingest(e, x) \/ OwnerControl(c, s) \/ HandleSteerAck(k)
         \/ \E a \in Agents : AnswerSteer(a, e, kind)
  PROVE  SameWork
<1>1. CASE UNCHANGED tasks
  BY <1>1, IdleWork
<1>2. ASSUME NEW r, \/ SendSignal(SignalTargets(c, Routing[c]), r) \/ SendSignal(TurnsOf(c), r)
      PROVE  SameWork
  BY <1>2, TargetsAreAgents, SignalWork
<1>3. CASE OwnerControl(c, s)
  BY <1>1, <1>2, <1>3 DEF OwnerControl, OwnerCommand, ObserverCancel, ObserverSwitchModel
<1>4. CASE HandleSteerAck(k)
  BY <1>1, <1>4, TargetsAreAgents, SignalWork DEF HandleSteerAck
<1>5. ASSUME NEW a \in Agents, AnswerSteer(a, e, kind) PROVE SameWork
  BY <1>5, SteerWork DEF AnswerSteer
<1>6. CASE Ingest(e, x)
  <2>1. ASSUME NEW d \in TurnsOf(ConvOf[e]), tasks' = [tasks EXCEPT ![d].steers = @ \cup {e}]
        PROVE  SameWork
    <3>1. d \in Agents
      BY DEF TurnsOf
    <3> QED
      BY <2>1, <3>1, SteerWork
  <2>2. CASE SendSignal(SignalTargets(ConvOf[e], Routing[ConvOf[e]]), "Interrupt")
    BY <2>2, TargetsAreAgents, SignalWork
  <2> QED
    BY <1>1, <1>6, <2>1, <2>2 DEF Ingest, NativeSteer
<1> QED
  BY <1>3, <1>4, <1>5, <1>6

\* A step that keeps every task's work keeps TaskInv.
LEMMA SameWorkFits ==
  ASSUME TaskInv, SameWork
  PROVE  TaskInv'
  BY DEF TaskInv, SameWork, Fits

\* One slot gets another task.
LEMMA OneFits ==
  ASSUME TypeInv, TaskInv, NEW a \in Agents, NEW t, Fits(t), tasks' = [tasks EXCEPT ![a] = t]
  PROVE  TaskInv'
<1>1. tasks \in [Agents -> TaskType]
  BY DEF TypeInv, TasksTyped
<1> QED
  BY <1>1 DEF TaskInv

\* A turn that ends, with a result or in a panic, keeps its conversation and its events.
LEMMA EndedWork ==
  ASSUME TypeInv, NEW a \in Agents, FinishTurn(a) \/ PanicTurn(a)
  PROVE  \E t : /\ tasks' = [tasks EXCEPT ![a] = t]
                /\ t.conv = tasks[a].conv /\ t.batch.channel_id = tasks[a].batch.channel_id
                /\ t.batch.events = tasks[a].batch.events
                /\ \/ FinishTurn(a) /\ t.phase = "done"
                   \/ PanicTurn(a) /\ t.phase = "panicked" /\ t.outcome = tasks[a].outcome
<1>1. tasks \in [Agents -> TaskType] /\ tasks[a] \in TaskType /\ tasks[a].batch \in FlushBatch
  BY DEF TypeInv, TasksTyped, TaskType
<1>2. CASE FinishTurn(a)
  <2>1. PICK end : tasks' = [tasks EXCEPT ![a] = Ended(tasks[a], end)]
    BY <1>2 DEF FinishTurn
  <2>2. PICK t : t = Ended(tasks[a], end)
    OBVIOUS
  <2>3. /\ t.phase = "done" /\ t.conv = tasks[a].conv
        /\ t.batch = [tasks[a].batch EXCEPT !.cancel_reason = end.reason]
    BY <1>1, <2>2 DEF Ended, TaskType
  <2>4. t.batch.channel_id = tasks[a].batch.channel_id /\ t.batch.events = tasks[a].batch.events
    BY <1>1, <2>3 DEF FlushBatch
  <2> QED
    BY <1>2, <2>1, <2>2, <2>3, <2>4
<1>3. CASE PanicTurn(a)
  <2>1. PICK t : t = [tasks[a] EXCEPT !.phase = "panicked", !.steers = {}]
    OBVIOUS
  <2>2. tasks' = [tasks EXCEPT ![a] = t]
    BY <1>1, <1>3, <2>1 DEF PanicTurn, TaskType
  <2>3. /\ t.phase = "panicked" /\ t.conv = tasks[a].conv /\ t.batch = tasks[a].batch
        /\ t.outcome = tasks[a].outcome
    BY <1>1, <2>1 DEF TaskType
  <2> QED
    BY <1>3, <2>2, <2>3
<1> QED
  BY <1>2, <1>3

\* A claimed agent starts on the batch it was claimed for.
LEMMA StartedWork ==
  ASSUME TypeInv, NEW a \in idle, NEW c, NEW b, NEW ctl, StartTurn(a, c, b, ctl)
  PROVE  \E t : /\ a \in Agents /\ tasks' = [tasks EXCEPT ![a] = t]
                /\ t.phase = "running" /\ t.conv = c /\ t.batch = b /\ t.outcome = "none"
<1>1. PICK t : t = [NoTask EXCEPT !.phase = "running", !.conv = c, !.batch = b, !.control = ctl]
  OBVIOUS
<1>2. t.phase = "running" /\ t.conv = c /\ t.batch = b /\ t.outcome = "none"
  BY <1>1 DEF NoTask
<1> QED
  BY <1>1, <1>2 DEF StartTurn, TypeInv, PoolTyped

\* No task at first.
LEMMA TaskInit == Init => TaskInv
<1>1. NoTask.phase = "free"
  BY DEF NoTask
<1> QED
  BY <1>1 DEF Init, TaskInv, Fits

\* Every step keeps what tasks carry.
LEMMA TaskStep == TypeInv /\ TaskInv /\ [Next]_vars => TaskInv'
<1> SUFFICES ASSUME TypeInv, TaskInv, [Next]_vars PROVE TaskInv'
  OBVIOUS
<1> USE DEF poolVars
<1>1. CASE UNCHANGED tasks
  BY <1>1, IdleWork, SameWorkFits
<1>2. ASSUME NEW c, NEW e, NEW x, NEW s, NEW k, NEW kind,
             \/ Ingest(e, x) \/ OwnerControl(c, s) \/ HandleSteerAck(k)
             \/ \E a \in Agents : AnswerSteer(a, e, kind)
      PROVE  TaskInv'
  BY <1>2, QuietWork, SameWorkFits
<1>3. ASSUME NEW a \in Agents, FinishTurn(a) \/ PanicTurn(a) PROVE TaskInv'
  <2>1. PICK t : /\ tasks' = [tasks EXCEPT ![a] = t]
                 /\ t.conv = tasks[a].conv /\ t.batch.channel_id = tasks[a].batch.channel_id
                 /\ t.batch.events = tasks[a].batch.events
                 /\ t.phase = "done" \/ (t.phase = "panicked" /\ t.outcome = tasks[a].outcome)
    BY <1>3, EndedWork
  <2>2. tasks[a].phase = "running"
    BY <1>3 DEF FinishTurn, PanicTurn
  <2>3. Fits(t)
    BY <2>1, <2>2 DEF TaskInv, Fits
  <2> QED
    BY <2>1, <2>3, OneFits
<1>4. ASSUME NEW a \in Agents, HandleResult(a) \/ RecoverPanic(a) PROVE TaskInv'
  <2>1. Fits(NoTask)
    BY DEF NoTask, Fits
  <2> QED
    BY <1>4, <2>1, OneFits DEF HandleResult, RecoverPanic
<1>5. ASSUME NEW a \in idle, NEW c \in Conversations, NEW b, b.channel_id = c, NEW ctl,
             StartTurn(a, c, b, ctl)
      PROVE  TaskInv'
  <2>1. PICK t : /\ a \in Agents /\ tasks' = [tasks EXCEPT ![a] = t]
                 /\ t.phase = "running" /\ t.conv = c /\ t.batch = b /\ t.outcome = "none"
    BY <1>5, StartedWork
  <2>2. Fits(t)
    BY <1>5, <2>1, HarnessAssumption DEF Fits
  <2> QED
    BY <2>1, <2>2, OneFits
<1>6. ASSUME NEW c \in Conversations, DispatchBatch(c) PROVE TaskInv'
  <2>1. BatchFor(q, matured, c).channel_id = c
    BY DEF BatchFor
  <2>2. ASSUME NEW a \in ClaimChoices(c), StartTurn(a, c, BatchFor(q, matured, c), "open") PROVE TaskInv'
    <3>1. a \in idle
      BY DEF ClaimChoices
    <3> QED
      BY <1>5, <2>1, <2>2, <3>1
  <2> QED
    BY <1>1, <1>6, <2>2 DEF DispatchBatch
<1>7. CASE HeartbeatFlush
  <2>1. ASSUME NEW a \in idle, StartTurn(a, Heartbeat, NoBatch(Blank), "closed") PROVE TaskInv'
    <3>1. PICK t : /\ a \in Agents /\ tasks' = [tasks EXCEPT ![a] = t]
                   /\ t.phase = "running" /\ t.conv = Heartbeat /\ t.batch = NoBatch(Blank)
                   /\ t.outcome = "none"
      BY <2>1, StartedWork
    <3>2. Fits(t)
      BY <3>1 DEF Fits, NoBatch
    <3> QED
      BY <3>1, <3>2, OneFits
  <2> QED
    BY <1>1, <1>7, <2>1 DEF HeartbeatFlush
<1>8. CASE UNCHANGED vars
  BY <1>1, <1>8 DEF vars
<1>9. ASSUME NEW e \in Events, \E edit \in Edits : EditMessage(e, edit) PROVE TaskInv'
  BY <1>1, <1>9 DEF EditMessage
<1>10. ASSUME NEW e \in Events, RetryTurn(e) PROVE TaskInv'
  BY <1>1, <1>10 DEF RetryTurn
<1>11. ASSUME NEW c \in Conversations, Expire(c) \/ RetryElapses(c) PROVE TaskInv'
  BY <1>1, <1>11 DEF Expire, RetryElapses
<1>12. ASSUME NEW ch \in Membership, RemoveChannel(ch) \/ AddChannel(ch) PROVE TaskInv'
  BY <1>1, <1>12 DEF RemoveChannel, AddChannel
<1>13. ASSUME NEW a \in Agents, NEW success,
              CollectRespawn(a, success) \/ DeadlinePasses(a) \/ CoolDown(a) \/ CrashAges(a)
       PROVE  TaskInv'
  BY <1>1, <1>13 DEF CollectRespawn, DeadlinePasses, CoolDown, CrashAges
<1>14. CASE \/ DispatchDone \/ RequeueWaiting \/ DrainDone \/ Maintain \/ MaintainFlush
            \/ HeartbeatTick \/ HoldElapses \/ HoldWake
  BY <1>1, <1>14 DEF DispatchDone, RequeueWaiting, DrainDone, Maintain, MaintainFlush,
                     HeartbeatTick, HoldElapses, HoldWake
<1> QED
  BY <1>2, <1>3, <1>4, <1>6, <1>7, <1>8, <1>9, <1>10, <1>11, <1>12, <1>13, <1>14 DEF Next

-----------------------------------------------------------------------------
(* Where an event that is owed can be *)

\* The main loop still has to do something with the batch of task t: the turn runs, it
\* panicked, or its result carries the batch back.
Owes(t) == t.phase \in {"running", "panicked"} \/ (t.phase = "done" /\ t.returned)

\* Event e is in the queue, in the new part of a batch that some task owes, or in the
\* new part of a parked batch.
Kept(e) ==
  \/ \E c \in Conversations : e \in HeldIds(q, c)
  \/ \E a \in Agents : Owes(tasks[a]) /\ e \in Ids(tasks[a].batch.events)
  \/ \E i \in DOMAIN waiting : e \in Ids(waiting[i].events)

\* The inductive invariant behind LossOnlyByMerge.
OwedInv == \A e \in owed : e \in merged \/ Kept(e)

\* The step keeps every event that it neither settles nor evicts.
Carries(settled) == \A e : Kept(e) => Kept(e)' \/ e \in settled \/ e \in q'.evicted

\* Then it keeps the account, if what it accepts is kept too.
LEMMA AccountKept ==
  ASSUME OwedInv, NEW accepted, NEW settled, Account(accepted, settled), Carries(settled),
         \A e \in accepted : Kept(e)' \/ e \in q'.evicted
  PROVE  OwedInv'
<1> SUFFICES ASSUME NEW e \in owed' PROVE e \in merged' \/ Kept(e)'
  BY DEF OwedInv
<1>1. e \in owed \cup accepted /\ e \notin settled /\ e \notin q'.evicted
  BY DEF Account
<1>2. CASE e \in accepted
  BY <1>1, <1>2
<1>3. CASE e \notin accepted
  <2>1. e \in merged \/ Kept(e)
    BY <1>1, <1>3 DEF OwedInv
  <2>2. CASE e \in merged
    BY <1>3, <2>2 DEF Account
  <2>3. CASE Kept(e)
    BY <1>1, <2>3 DEF Carries
  <2> QED
    BY <2>1, <2>2, <2>3
<1> QED
  BY <1>2, <1>3

\* The same for a step that accepts nothing.
LEMMA NoneAccepted ==
  ASSUME OwedInv, NEW settled, Account({}, settled), Carries(settled)
  PROVE  OwedInv'
  BY AccountKept

\* A step that starts and ends no turn keeps what the queue keeps.
LEMMA QuietCarries ==
  ASSUME SameWork, UNCHANGED waiting, NEW gone, NoneLost(q, q', gone)
  PROVE  Carries(gone)
<1> SUFFICES ASSUME NEW e, Kept(e) PROVE Kept(e)' \/ e \in gone \/ e \in q'.evicted
  BY DEF Carries
<1>1. CASE \E c \in Conversations : e \in HeldIds(q, c)
  BY <1>1 DEF NoneLost, Kept
<1>2. ASSUME NEW a \in Agents, Owes(tasks[a]), e \in Ids(tasks[a].batch.events) PROVE Kept(e)'
  <2>1. Owes(tasks'[a]) /\ e \in Ids(tasks'[a].batch.events)
    BY <1>2 DEF SameWork, Owes
  <2> QED
    BY <2>1 DEF Kept
<1>3. ASSUME NEW i \in DOMAIN waiting, e \in Ids(waiting[i].events) PROVE Kept(e)'
  BY <1>3 DEF Kept
<1> QED
  BY <1>1, <1>2, <1>3 DEF Kept

\* The same for a step that moves no event.
LEMMA StillCarries ==
  ASSUME SameWork, UNCHANGED waiting, SameEvents(q, q')
  PROVE  Carries({})
  BY SameLosesNone, QuietCarries

\* One task is replaced, and what it owed is kept or settled.
LEMMA ReplacedCarries ==
  ASSUME TypeInv, NEW a \in Agents, NEW t, tasks' = [tasks EXCEPT ![a] = t], UNCHANGED waiting,
         NEW gone, NoneLost(q, q', gone),
         Owes(tasks[a]) => \A e \in Ids(tasks[a].batch.events) : Kept(e)' \/ e \in gone \/ e \in q'.evicted
  PROVE  Carries(gone)
<1> SUFFICES ASSUME NEW e, Kept(e) PROVE Kept(e)' \/ e \in gone \/ e \in q'.evicted
  BY DEF Carries
<1>0. tasks \in [Agents -> TaskType]
  BY DEF TypeInv, TasksTyped
<1>1. CASE \E c \in Conversations : e \in HeldIds(q, c)
  BY <1>1 DEF NoneLost, Kept
<1>2. ASSUME NEW d \in Agents, Owes(tasks[d]), e \in Ids(tasks[d].batch.events)
      PROVE  Kept(e)' \/ e \in gone \/ e \in q'.evicted
  <2>1. CASE d = a
    BY <1>2, <2>1
  <2>2. CASE d # a
    <3>1. tasks'[d] = tasks[d]
      BY <1>0, <2>2
    <3> QED
      BY <1>2, <3>1 DEF Kept
  <2> QED
    BY <2>1, <2>2
<1>3. ASSUME NEW i \in DOMAIN waiting, e \in Ids(waiting[i].events) PROVE Kept(e)'
  BY <1>3 DEF Kept
<1> QED
  BY <1>1, <1>2, <1>3 DEF Kept

\* A relay event: an accepted event is in its queue, or withheld for the steer, when the
\* arm goes on to dispatch, and the eviction it may cause is logged.
LEMMA IngestOwed ==
  ASSUME TypeInv, OwedInv, NEW e \in Events, NEW x \in BOOLEAN, Ingest(e, x), Account(Accepted(e), {})
  PROVE  OwedInv'
<1>1. PICK c, pushed : c = ConvOf[e] /\ pushed = Push(q, e, clock + 1, x, FALSE)
  OBVIOUS
<1>2. /\ clock \in Nat /\ c \in Conversations /\ QueueType(q) /\ CapOK(q) /\ clock + 1 \in Nat
      /\ FALSE \in BOOLEAN /\ waiting' = waiting
  BY <1>1, QueueAssumption DEF TypeInv, TimeTyped, QueueOK, Ingest
<1>3. SameWork
  BY QuietWork
<1>4. CASE ~PushAccepts(q, e)
  <2>1. q' = q /\ Accepted(e) = {}
    BY <1>4 DEF Ingest, Accepted
  <2>2. Carries({})
    BY <1>2, <1>3, <2>1, StillCarries DEF SameEvents
  <2> QED
    BY <2>1, <2>2, NoneAccepted
<1>5. CASE PushAccepts(q, e)
  <2>1. QueueType(pushed) /\ CapOK(pushed)
    BY <1>1, <1>2, PushProperties
  <2>2. NoneLost(q, pushed, {}) /\ e \in HeldIds(pushed, c) \cup pushed.evicted
    BY <1>1, <1>2, PushLosesNone
  <2>3. NoneLost(q, q', {}) /\ e \in HeldIds(q', c) \cup q'.evicted
    <3>1. CASE q' = pushed
      BY <2>2, <3>1
    <3>2. CASE q' = MarkNativeSteerPending(pushed, c, e)
      <4>1. NoneLost(pushed, q', {}) /\ q'.evicted = pushed.evicted
        BY <1>2, <2>1, <3>2, WithholdLosesNone
      <4> QED
        BY <1>2, <2>2, <4>1, LossesAddUp DEF NoneLost
    <3>3. q' = pushed \/ q' = MarkNativeSteerPending(pushed, c, e)
      BY <1>1, <1>5 DEF Ingest, NativeSteer
    <3> QED
      BY <3>1, <3>2, <3>3
  <2>4. Carries({})
    BY <1>2, <1>3, <2>3, QuietCarries
  <2>5. \A f \in Accepted(e) : Kept(f)' \/ f \in q'.evicted
    BY <1>2, <1>5, <2>3 DEF Accepted, Kept
  <2> QED
    BY <2>4, <2>5, AccountKept
<1> QED
  BY <1>4, <1>5

\* retry_turn pushes too.
LEMMA RetryOwed ==
  ASSUME TypeInv, OwedInv, NEW e \in Events, RetryTurn(e), Account(Accepted(e), {})
  PROVE  OwedInv'
<1>1. PICK c, k : c = ConvOf[e] /\ k = ClearRetryAfter(q, c)
  OBVIOUS
<1>2. /\ clock \in Nat /\ c \in Conversations /\ QueueType(q) /\ CapOK(q) /\ clock + 1 \in Nat
      /\ FALSE \in BOOLEAN /\ TRUE \in BOOLEAN /\ UNCHANGED <<tasks, waiting>>
  BY <1>1, QueueAssumption DEF TypeInv, TimeTyped, QueueOK, RetryTurn, poolVars, loopVars
<1>3. QueueType(k) /\ OnlyThrottles(q, k) /\ SameEvents(q, k)
  BY <1>1, <1>2, ThrottleOps DEF OnlyThrottles
<1>4. CapOK(k) /\ NoneLost(q, k, {})
  BY <1>2, <1>3, SameEventsCap, SameLosesNone
<1>5. PushAccepts(k, e) <=> PushAccepts(q, e)
  BY <1>3 DEF PushAccepts, ContainsEvent, OnlyThrottles, SameEvents
<1>6. CASE ~PushAccepts(k, e)
  <2>1. q' = k /\ Accepted(e) = {}
    BY <1>1, <1>5, <1>6 DEF RetryTurn, Accepted
  <2>2. Carries({})
    BY <1>2, <1>4, <2>1, IdleWork, QuietCarries
  <2> QED
    BY <2>1, <2>2, NoneAccepted
<1>7. CASE PushAccepts(k, e)
  <2>1. q' = Push(k, e, clock + 1, TRUE, FALSE)
    BY <1>1, <1>7 DEF RetryTurn
  <2>2. NoneLost(k, q', {}) /\ e \in HeldIds(q', c) \cup q'.evicted
    BY <1>1, <1>2, <1>3, <1>4, <2>1, PushLosesNone
  <2>3. NoneLost(q, q', {})
    BY <1>3, <2>2 DEF NoneLost, HeldIds, SameEvents
  <2>4. Carries({})
    BY <1>2, <2>3, IdleWork, QuietCarries
  <2>5. \A f \in Accepted(e) : Kept(f)' \/ f \in q'.evicted
    BY <1>2, <1>5, <1>7, <2>2 DEF Accepted, Kept
  <2> QED
    BY <2>4, <2>5, AccountKept
<1> QED
  BY <1>6, <1>7

\* An edit drops the event it names, and the account settles it.
LEMMA EditOwed ==
  ASSUME TypeInv, OwedInv, NEW e \in Events, NEW edit, EditMessage(e, edit),
         Account({}, IF edit = "drop" /\ EditApplies(q, e) THEN {e} ELSE {})
  PROVE  OwedInv'
<1>1. PICK c \in Conversations : c = ConvOf[e]
  BY QueueAssumption
<1>2. QueueType(q) /\ CapOK(q) /\ UNCHANGED <<tasks, waiting>>
  BY DEF TypeInv, QueueOK, EditMessage, poolVars, loopVars
<1>3. CASE edit # "drop"
  <2>1. q' = PatchEvent(q, e)
    BY <1>3 DEF EditMessage
  <2>2. Carries({})
    BY <1>2, <2>1, PatchLosesNone, IdleWork, QuietCarries
  <2>3. Account({}, {})
    BY <1>3
  <2> QED
    BY <2>2, <2>3, NoneAccepted
<1>4. CASE edit = "drop"
  <2>1. q' = RemoveEvent(q, c, e)
    BY <1>1, <1>4 DEF EditMessage, RemoveEventById
  <2>2. NoneLost(q, q', {e})
    BY <1>2, <2>1, RemoveLosesOne
  <2>3. CASE EditApplies(q, e)
    <3>1. Account({}, {e})
      BY <1>4, <2>3
    <3> QED
      BY <1>2, <2>2, <3>1, IdleWork, QuietCarries, NoneAccepted
  <2>4. CASE ~EditApplies(q, e)
    <3>1. Account({}, {})
      BY <1>4, <2>4
    <3>2. /\ q'.cancelled_batches = q.cancelled_batches
          /\ \A d \in Conversations \ {c} : /\ q'.queues[d] = q.queues[d]
                                            /\ q'.withheld_native_steer[d] = q.withheld_native_steer[d]
          /\ Ids(q'.queues[c]) = Ids(q.queues[c]) \ {e}
          /\ Ids(q'.withheld_native_steer[c]) = Ids(q.withheld_native_steer[c]) \ {e}
      <4> DEFINE r == RemoveEvent(q, c, e)
      <4>1. /\ r.cancelled_batches = q.cancelled_batches
            /\ \A d \in Conversations \ {c} : /\ r.queues[d] = q.queues[d]
                                              /\ r.withheld_native_steer[d] = q.withheld_native_steer[d]
            /\ Ids(r.queues[c]) = Ids(q.queues[c]) \ {e}
            /\ Ids(r.withheld_native_steer[c]) = Ids(q.withheld_native_steer[c]) \ {e}
        BY <1>2, RemoveProperties
      <4> HIDE DEF r
      <4>2. q' = r
        BY <2>1 DEF r
      <4> QED
        BY <4>1, <4>2
    <3>3. e \notin Ids(q.queues[c]) /\ e \notin Ids(q.withheld_native_steer[c])
      BY <1>1, <2>4 DEF EditApplies
    <3>4. NoneLost(q, q', {})
      BY <3>2, <3>3 DEF NoneLost, HeldIds
    <3> QED
      BY <1>2, <3>1, <3>4, IdleWork, QuietCarries, NoneAccepted
  <2> QED
    BY <2>3, <2>4
<1> QED
  BY <1>3, <1>4

\* The owner's controls drop what they drain, and the account settles it.
LEMMA OwnerOwed ==
  ASSUME TypeInv, OwedInv, NEW c \in Conversations, NEW s, OwnerControl(c, s),
         Account({}, IF q' # q THEN Dropped({c}) ELSE {})
  PROVE  OwedInv'
<1>1. QueueType(q) /\ CapOK(q)
  BY DEF TypeInv, QueueOK
<1>2. waiting' = waiting /\ (q' = q \/ q' = DrainChannels(q, {c}))
  BY DEF OwnerControl, OwnerCommand, ObserverCancel, ObserverSwitchModel, queueVars, loopVars
<1>3. SameWork
  BY QuietWork
<1>4. CASE q' = q
  <2>1. Account({}, {})
    BY <1>4
  <2>2. Carries({})
    BY <1>2, <1>3, <1>4, StillCarries DEF SameEvents
  <2> QED
    BY <2>1, <2>2, NoneAccepted
<1>5. CASE q' # q
  <2>1. Account({}, Dropped({c}))
    BY <1>5
  <2>2. NoneLost(q, q', Dropped({c}))
    BY <1>1, <1>2, <1>5, DrainLoses DEF Dropped
  <2> QED
    BY <1>2, <1>3, <2>1, <2>2, QuietCarries, NoneAccepted
<1> QED
  BY <1>4, <1>5

\* So does a removal from a channel.
LEMMA RemovalOwed ==
  ASSUME TypeInv, OwedInv, NEW ch, RemoveChannel(ch), Account({}, Dropped(RoutedWork(q, ch)))
  PROVE  OwedInv'
<1>1. QueueType(q) /\ CapOK(q) /\ UNCHANGED <<tasks, waiting>>
  BY DEF TypeInv, QueueOK, RemoveChannel, loopVars
<1>2. NoneLost(q, q', Dropped(RoutedWork(q, ch)))
  BY <1>1, DrainLoses DEF RemoveChannel, Dropped
<1> QED
  BY <1>1, <1>2, IdleWork, QuietCarries, NoneAccepted

\* A turn that ends carries its events on, if the main loop is owed them or they are settled.
LEMMA EndedCarries ==
  ASSUME TypeInv, NEW a \in Agents, FinishTurn(a) \/ PanicTurn(a), NEW settled,
         Owes(tasks'[a]) \/ settled = BatchIds(tasks[a].batch)
  PROVE  Carries(settled)
<1>1. tasks \in [Agents -> TaskType] /\ UNCHANGED <<q, waiting>>
  BY DEF TypeInv, TasksTyped, FinishTurn, PanicTurn, queueVars, loopVars
<1>2. PICK t : tasks' = [tasks EXCEPT ![a] = t] /\ t.batch.events = tasks[a].batch.events
  BY EndedWork
<1>3. tasks'[a] = t
  BY <1>1, <1>2
<1>4. NoneLost(q, q', settled)
  BY <1>1 DEF NoneLost
<1>5. \A e \in Ids(tasks[a].batch.events) : Kept(e)' \/ e \in settled
  BY <1>2, <1>3 DEF Kept, BatchIds
<1> QED
  BY <1>1, <1>2, <1>4, <1>5, ReplacedCarries

\* A turn that reports keeps its batch for the main loop, or answers for it.
LEMMA FinishOwed ==
  ASSUME TypeInv, OwedInv, NEW a \in Agents, FinishTurn(a),
         Account({}, IF tasks'[a].returned THEN {} ELSE BatchIds(tasks[a].batch))
  PROVE  OwedInv'
<1>1. tasks \in [Agents -> TaskType] /\ tasks[a] \in TaskType
  BY DEF TypeInv, TasksTyped
<1>2. PICK end : tasks' = [tasks EXCEPT ![a] = Ended(tasks[a], end)]
  BY DEF FinishTurn
<1>3. Ended(tasks[a], end).phase = "done"
  BY <1>1 DEF Ended, TaskType
<1>4. tasks'[a].phase = "done"
  BY <1>1, <1>2, <1>3
<1>5. CASE tasks'[a].returned
  <2>1. Owes(tasks'[a]) /\ Account({}, {})
    BY <1>4, <1>5 DEF Owes
  <2> QED
    BY <2>1, EndedCarries, NoneAccepted
<1>6. CASE ~tasks'[a].returned
  <2>1. Account({}, BatchIds(tasks[a].batch))
    BY <1>6
  <2> QED
    BY <2>1, EndedCarries, NoneAccepted
<1> QED
  BY <1>5, <1>6

\* A turn that panics keeps its batch in its TaskMeta.
LEMMA PanicOwed ==
  ASSUME TypeInv, OwedInv, NEW a \in Agents, PanicTurn(a), Account({}, {})
  PROVE  OwedInv'
<1>1. tasks \in [Agents -> TaskType] /\ tasks[a] \in TaskType
  BY DEF TypeInv, TasksTyped
<1>2. tasks'[a].phase = "panicked"
  BY <1>1 DEF PanicTurn, TaskType
<1>3. Owes(tasks'[a])
  BY <1>2 DEF Owes
<1> QED
  BY <1>3, EndedCarries, NoneAccepted

\* A steer ack settles the event the turn took in, and releases any other to its queue.
LEMMA AckOwed ==
  ASSUME TypeInv, OwedInv, NEW k \in acks, HandleSteerAck(k),
         Account({}, IF k.kind = "success" THEN {k.event_id} ELSE {})
  PROVE  OwedInv'
<1>1. PICK c, e : c = k.channel_id /\ e = k.event_id
  OBVIOUS
<1>2. c \in Conversations /\ QueueType(q) /\ CapOK(q) /\ waiting' = waiting
  BY <1>1 DEF TypeInv, RestTyped, QueueOK, HandleSteerAck
<1>3. SameWork
  BY QuietWork
<1>4. CASE k.kind = "success"
  <2>1. PICK r : r = ExtendInFlightDeadline(q, c)
    OBVIOUS
  <2>2. QueueType(r) /\ SameEvents(q, r)
    BY <1>2, <2>1, ExtendProperties
  <2>3. CapOK(r)
    BY <1>2, <2>2, SameEventsCap
  <2>4. q' = RemoveEvent(r, c, e)
    BY <1>1, <1>4, <2>1 DEF HandleSteerAck
  <2>5. NoneLost(r, q', {e})
    BY <1>2, <2>2, <2>3, <2>4, RemoveLosesOne
  <2>6. NoneLost(q, q', {e})
    BY <2>2, <2>5 DEF NoneLost, HeldIds, SameEvents
  <2>7. Account({}, {e})
    BY <1>1, <1>4
  <2> QED
    BY <1>2, <1>3, <2>6, <2>7, QuietCarries, NoneAccepted
<1>5. CASE k.kind # "success"
  <2>1. q' = ReleaseNativeSteer(q, c, e)
    BY <1>1, <1>5 DEF HandleSteerAck
  <2>2. NoneLost(q, q', {})
    BY <1>2, <2>1, ReleaseLosesNone
  <2>3. Account({}, {})
    BY <1>5
  <2> QED
    BY <1>2, <1>3, <2>2, <2>3, QuietCarries, NoneAccepted
<1> QED
  BY <1>4, <1>5

\* The batch of a result or of a panic goes back to the queue, unless it is given up.
LEMMA BackOrGivenUp ==
  ASSUME TypeInv, TaskInv, NEW a \in Agents, HandleResult(a) \/ RecoverPanic(a),
         tasks[a].conv # Heartbeat, Owes(tasks[a])
  PROVE  /\ NoneLost(q, q', {})
         /\ Ids(tasks[a].batch.events) \subseteq
              HeldIds(q', tasks[a].conv) \cup q'.evicted \cup GivenUp(tasks[a])
<1>1. PICK t, b, c : t = tasks[a] /\ b = tasks[a].batch /\ c = tasks[a].conv
  OBVIOUS
<1>2. /\ QueueType(q) /\ CapOK(q) /\ t \in TaskType /\ b \in FlushBatch
      /\ t.conv = c /\ t.batch = b
  BY <1>1 DEF TypeInv, QueueOK, TasksTyped, TaskType
<1>3. /\ c \in Conversations /\ t.phase \in {"done", "panicked"} /\ b.channel_id = c
      /\ t.phase = "panicked" => t.outcome = "none"
  BY <1>1, <1>2 DEF TaskType, TaskInv, Fits, HandleResult, RecoverPanic
<1>4. PICK reason \in CancelReasons : reason = IF b.cancel_reason = "none" THEN "Steer" ELSE b.cancel_reason
  BY <1>2 DEF FlushBatch, CancelReasons
<1>5. PICK noticed : noticed = TakeBusyNotice(q, c)
  OBVIOUS
<1>6. QueueType(noticed) /\ SameEvents(q, noticed) /\ noticed.retry_counts = q.retry_counts
  <2>1. noticed.retry_counts = q.retry_counts
    BY <1>2, <1>5 DEF TakeBusyNotice, QueueType, QueueFields
  <2> QED
    BY <1>2, <1>3, <1>5, <2>1, ThrottleOps DEF OnlyThrottles
<1>7. CapOK(noticed) /\ NoneLost(q, noticed, {})
  BY <1>2, <1>6, SameEventsCap, SameLosesNone
<1>8. ASSUME NEW u, QueueType(u), NoneLost(q, u, {}), q' = MarkComplete(u, c)
      PROVE  SameEvents(u, q') /\ NoneLost(q, q', {})
  <2>1. SameEvents(u, q')
    BY <1>3, <1>8, MarkCompleteProperties
  <2> QED
    BY <1>8, <2>1 DEF NoneLost, HeldIds, SameEvents
<1>9. ASSUME NEW u, QueueType(u), NoneLost(q, u, {}), q' = MarkComplete(u, c),
             Ids(b.events) \subseteq HeldIds(u, c) \cup u.evicted \cup GivenUp(t)
      PROVE  /\ NoneLost(q, q', {})
             /\ Ids(b.events) \subseteq HeldIds(q', c) \cup q'.evicted \cup GivenUp(t)
  BY <1>8, <1>9 DEF SameEvents, HeldIds
<1>10. ASSUME NEW k \in {q, noticed}, q' = MarkComplete(Requeue(k, b), c),
              t.outcome \notin {"cancelled", "drain_timeout"}
       PROVE  /\ NoneLost(q, q', {})
              /\ Ids(b.events) \subseteq HeldIds(q', c) \cup q'.evicted \cup GivenUp(t)
  <2>1. PICK u : u = Requeue(k, b)
    OBVIOUS
  <2>2. QueueType(k) /\ CapOK(k) /\ SameEvents(q, k) /\ k.retry_counts = q.retry_counts
    BY <1>2, <1>6, <1>7 DEF SameEvents
  <2>3. QueueType(u)
    BY <1>2, <2>1, <2>2, RequeueProperties
  <2>4. /\ NoneLost(k, u, {})
        /\ ~RetryExhausted(k, c) => Ids(b.events) \subseteq HeldIds(u, c) \cup u.evicted
    BY <1>2, <1>3, <2>1, <2>2, RequeueLosesNone
  <2>5. NoneLost(q, u, {})
    BY <2>2, <2>4 DEF NoneLost, HeldIds, SameEvents
  <2>6. RetryExhausted(k, c) <=> RetryExhausted(q, c)
    BY <2>2 DEF RetryExhausted
  <2>7. RetryExhausted(q, c) => Ids(b.events) \subseteq GivenUp(t)
    BY <1>2, <1>10 DEF GivenUp, BatchIds
  <2> QED
    BY <1>9, <1>10, <2>1, <2>3, <2>4, <2>5, <2>6, <2>7
<1>11. NoneLost(q, q, {})
  BY DEF NoneLost
<1>12. ASSUME q' = MarkComplete(q, c), Ids(b.events) \subseteq GivenUp(t)
       PROVE  /\ NoneLost(q, q', {})
              /\ Ids(b.events) \subseteq HeldIds(q', c) \cup q'.evicted \cup GivenUp(t)
  BY <1>2, <1>9, <1>11, <1>12
<1>13. ASSUME q' = MarkComplete(RequeueAsCancelled(q, b, reason), c)
       PROVE  /\ NoneLost(q, q', {})
              /\ Ids(b.events) \subseteq HeldIds(q', c) \cup q'.evicted \cup GivenUp(t)
  <2>1. PICK u : u = RequeueAsCancelled(q, b, reason)
    OBVIOUS
  <2>2. QueueType(u)
    BY <1>2, <2>1, CancelProperties
  <2>3. NoneLost(q, u, {}) /\ BatchIds(b) \subseteq HeldIds(u, c) \cup u.evicted
    BY <1>2, <1>3, <2>1, CancelLosesNone
  <2>4. Ids(b.events) \subseteq HeldIds(u, c) \cup u.evicted \cup GivenUp(t)
    BY <2>3 DEF BatchIds
  <2> QED
    BY <1>9, <1>13, <2>1, <2>2, <2>3, <2>4
<1>14. CASE HandleResult(a)
  <2>1. t.phase = "done" /\ t.returned /\ q' = MarkComplete(RequeueResult(t), c)
    BY <1>1, <1>14 DEF HandleResult, Complete, Owes
  <2>2. CASE Routing[c] \in removed
    <3>1. RequeueResult(t) = q /\ Ids(b.events) \subseteq GivenUp(t)
      BY <1>2, <2>2 DEF RequeueResult, GivenUp, BatchIds
    <3> QED
      BY <1>1, <1>12, <2>1, <3>1
  <2>3. CASE Routing[c] \notin removed /\ t.outcome \in {"cancelled", "drain_timeout"}
    <3>1. RequeueResult(t) = RequeueAsCancelled(q, b, reason)
      BY <1>2, <1>4, <2>1, <2>3 DEF RequeueResult
    <3> QED
      BY <1>1, <1>13, <2>1, <3>1
  <2>4. CASE Routing[c] \notin removed /\ t.outcome \in {"hard_timeout", "auth_error"}
    <3>1. t.returned /\ t.outcome \notin {"cancelled", "drain_timeout"}
      BY <2>1, <2>4
    <3>2. RequeueResult(t) = q
      BY <1>2, <2>4, <3>1 DEF RequeueResult
    <3>3. Ids(b.events) \subseteq GivenUp(t)
      BY <1>2, <2>4 DEF GivenUp, BatchIds
    <3> QED
      BY <1>1, <1>12, <2>1, <3>2, <3>3
  <2>5. CASE /\ Routing[c] \notin removed
             /\ t.outcome \notin {"cancelled", "drain_timeout", "hard_timeout", "auth_error"}
    <3>1. \E k \in {q, noticed} : RequeueResult(t) = Requeue(k, b)
      BY <1>2, <1>5, <2>1, <2>5 DEF RequeueResult
    <3> QED
      BY <1>1, <1>10, <2>1, <2>5, <3>1
  <2> QED
    BY <2>2, <2>3, <2>4, <2>5
<1>15. CASE RecoverPanic(a)
  <2>1. /\ t.phase = "panicked"
        /\ q' = MarkComplete(IF DedupMode = "Queue" /\ Routing[c] \notin removed
                             THEN Requeue(q, b) ELSE q, c)
    BY <1>1, <1>15 DEF RecoverPanic, Complete
  <2>2. CASE DedupMode = "Queue" /\ Routing[c] \notin removed
    <3>1. q' = MarkComplete(Requeue(q, b), c) /\ t.outcome = "none"
      BY <1>3, <2>1, <2>2
    <3> QED
      BY <1>1, <1>10, <3>1
  <2>3. CASE ~(DedupMode = "Queue" /\ Routing[c] \notin removed)
    <3>1. q' = MarkComplete(q, c) /\ Ids(b.events) \subseteq GivenUp(t)
      BY <1>2, <2>1, <2>3, QueueAssumption DEF GivenUp, BatchIds
    <3> QED
      BY <1>1, <1>12, <3>1
  <2> QED
    BY <2>2, <2>3
<1> QED
  BY <1>14, <1>15

\* A result or a panic: the batch is back in the queue, logged as evicted or given up.
LEMMA EndOwed ==
  ASSUME TypeInv, TaskInv, OwedInv, NEW a \in Agents, HandleResult(a) \/ RecoverPanic(a),
         Account({}, IF tasks[a].conv = Heartbeat THEN {} ELSE GivenUp(tasks[a]))
  PROVE  OwedInv'
<1>1. /\ tasks' = [tasks EXCEPT ![a] = NoTask] /\ UNCHANGED waiting
      /\ tasks[a].phase \in {"done", "panicked"}
  BY DEF HandleResult, RecoverPanic
<1>2. QueueType(q) /\ tasks[a] \in TaskType
  BY DEF TypeInv, QueueOK, TasksTyped
<1>3. CASE tasks[a].conv = Heartbeat
  <2>1. q' = q /\ Account({}, {})
    BY <1>3 DEF HandleResult, RecoverPanic, Complete
  <2>2. tasks[a].batch.events = <<>>
    BY <1>1, <1>3 DEF TaskInv, Fits
  <2>3. Ids(tasks[a].batch.events) = {}
    BY <2>2 DEF Ids
  <2>4. NoneLost(q, q', {})
    BY <2>1 DEF NoneLost
  <2>5. Carries({})
    BY <1>1, <2>3, <2>4, ReplacedCarries
  <2> QED
    BY <2>1, <2>5, NoneAccepted
<1>4. CASE tasks[a].conv # Heartbeat /\ Owes(tasks[a])
  <2>1. Account({}, GivenUp(tasks[a])) /\ tasks[a].conv \in Conversations
    BY <1>2, <1>4 DEF TaskType
  <2>2. /\ NoneLost(q, q', {})
        /\ Ids(tasks[a].batch.events) \subseteq
              HeldIds(q', tasks[a].conv) \cup q'.evicted \cup GivenUp(tasks[a])
    BY <1>4, BackOrGivenUp
  <2>3. NoneLost(q, q', GivenUp(tasks[a]))
    BY <2>2 DEF NoneLost
  <2>4. \A e \in Ids(tasks[a].batch.events) : Kept(e)' \/ e \in GivenUp(tasks[a]) \/ e \in q'.evicted
    BY <2>1, <2>2 DEF Kept
  <2>5. Carries(GivenUp(tasks[a]))
    BY <1>1, <2>3, <2>4, ReplacedCarries
  <2> QED
    BY <2>1, <2>5, NoneAccepted
<1>5. CASE tasks[a].conv # Heartbeat /\ ~Owes(tasks[a])
  <2>1. Account({}, GivenUp(tasks[a])) /\ tasks[a].conv \in Conversations
    BY <1>2, <1>5 DEF TaskType
  <2>2. tasks[a].phase = "done" /\ ~tasks[a].returned
    BY <1>1, <1>5 DEF Owes
  <2>3. q' = MarkComplete(RequeueResult(tasks[a]), tasks[a].conv) /\ RequeueResult(tasks[a]) = q
    BY <1>5, <2>2 DEF HandleResult, RecoverPanic, Complete, RequeueResult
  <2>4. SameEvents(q, q')
    BY <1>2, <2>1, <2>3, MarkCompleteProperties
  <2>5. NoneLost(q, q', GivenUp(tasks[a]))
    BY <2>4 DEF NoneLost, HeldIds, SameEvents
  <2>6. Carries(GivenUp(tasks[a]))
    BY <1>1, <1>5, <2>5, ReplacedCarries
  <2> QED
    BY <2>1, <2>6, NoneAccepted
<1> QED
  BY <1>3, <1>4, <1>5

\* An idle agent owes nothing, and a batch it starts on is owed.
LEMMA StartedOwes ==
  ASSUME TypeInv, PoolInv, NEW a \in idle, NEW c, NEW b, NEW ctl, StartTurn(a, c, b, ctl),
         UNCHANGED waiting
  PROVE  /\ \A e \in Ids(b.events) : Kept(e)'
         /\ \A gone : NoneLost(q, q', gone) => Carries(gone)
<1>1. PICK t : /\ a \in Agents /\ tasks' = [tasks EXCEPT ![a] = t]
               /\ t.phase = "running" /\ t.conv = c /\ t.batch = b
  BY StartedWork
<1>2. tasks \in [Agents -> TaskType] /\ tasks[a].phase = "free"
  BY <1>1 DEF TypeInv, TasksTyped, PoolInv, SlotExclusive, Busy
<1>3. ~Owes(tasks[a]) /\ Owes(t) /\ tasks'[a] = t
  BY <1>1, <1>2 DEF Owes
<1>4. \A e \in Ids(b.events) : Kept(e)'
  BY <1>1, <1>3 DEF Kept
<1>5. ASSUME NEW gone, NoneLost(q, q', gone) PROVE Carries(gone)
  BY <1>1, <1>3, <1>5, ReplacedCarries
<1> QED
  BY <1>4, <1>5

\* A dispatch that neither starts nor ends a turn and parks more batches.
LEMMA ParkedCarries ==
  ASSUME SameWork, NEW gone, NoneLost(q, q', gone),
         \A i \in DOMAIN waiting : i \in DOMAIN waiting' /\ waiting'[i] = waiting[i]
  PROVE  Carries(gone)
<1> SUFFICES ASSUME NEW e, Kept(e) PROVE Kept(e)' \/ e \in gone \/ e \in q'.evicted
  BY DEF Carries
<1>1. CASE \E c \in Conversations : e \in HeldIds(q, c)
  BY <1>1 DEF NoneLost, Kept
<1>2. ASSUME NEW a \in Agents, Owes(tasks[a]), e \in Ids(tasks[a].batch.events) PROVE Kept(e)'
  <2>1. Owes(tasks'[a]) /\ e \in Ids(tasks'[a].batch.events)
    BY <1>2 DEF SameWork, Owes
  <2> QED
    BY <2>1 DEF Kept
<1>3. ASSUME NEW i \in DOMAIN waiting, e \in Ids(waiting[i].events) PROVE Kept(e)'
  BY <1>3 DEF Kept
<1> QED
  BY <1>1, <1>2, <1>3 DEF Kept

\* A dispatched batch: its new events are kept by the turn, by the parked batch or by
\* the queue; its interrupted part is in merged from now on.
LEMMA DispatchOwed ==
  ASSUME TypeInv, PoolInv, OwedInv, NEW c \in Conversations, DispatchBatch(c),
         owed' = owed \ q'.evicted,
         merged' = merged \cup Ids(BatchFor(q, matured, c).cancelled_events)
  PROVE  OwedInv'
<1>1. PICK b, f : b = BatchFor(q, matured, c) /\ f = Flushed(q, matured, c)
  OBVIOUS
<1>2. QueueType(q) /\ CapOK(q)
  BY DEF TypeInv, QueueOK
<1>3. b \in FlushBatch /\ b.channel_id = c
  BY <1>1, <1>2, BatchProperties
<1>4. QueueType(f) /\ CapOK(f)
  BY <1>1, <1>2, FlushedProperties
<1>5. NoneLost(q, f, BatchIds(b))
  BY <1>1, <1>2, FlushLosesBatch
<1>6. ASSUME Carries(BatchIds(b)), \A e \in Ids(b.events) : Kept(e)' \/ e \in q'.evicted
      PROVE  OwedInv'
  <2> SUFFICES ASSUME NEW e \in owed' PROVE e \in merged' \/ Kept(e)'
    BY DEF OwedInv
  <2>1. e \in owed /\ e \notin q'.evicted
    OBVIOUS
  <2>2. CASE e \in merged
    BY <2>2
  <2>3. CASE Kept(e)
    <3>1. Kept(e)' \/ e \in Ids(b.events) \/ e \in Ids(b.cancelled_events)
      BY <1>6, <2>1, <2>3 DEF Carries, BatchIds
    <3> QED
      BY <1>1, <1>6, <2>1, <3>1
  <2> QED
    BY <2>1, <2>2, <2>3 DEF OwedInv
<1>7. CASE q' = f /\ waiting' = Append(waiting, b) /\ UNCHANGED tasks
  <2>1. waiting \in Seq(FlushBatch)
    BY DEF TypeInv, WaitingTyped
  <2>2. /\ Len(waiting) \in Nat /\ DOMAIN waiting = 1 .. Len(waiting)
        /\ DOMAIN waiting' = 1 .. Len(waiting) + 1 /\ waiting'[Len(waiting) + 1] = b
        /\ \A i \in 1 .. Len(waiting) : waiting'[i] = waiting[i]
    BY <1>3, <1>7, <2>1, LenProperties, AppendProperties
  <2>3. \A i \in DOMAIN waiting : i \in DOMAIN waiting' /\ waiting'[i] = waiting[i]
    BY <2>2
  <2>4. Carries(BatchIds(b))
    BY <1>5, <1>7, <2>3, IdleWork, ParkedCarries
  <2>5. Len(waiting) + 1 \in DOMAIN waiting'
    BY <2>2
  <2>6. \A e \in Ids(b.events) : Kept(e)'
    BY <2>2, <2>5 DEF Kept
  <2> QED
    BY <1>6, <2>4, <2>6
<1>8. ASSUME q' = f, NEW a \in ClaimChoices(c), StartTurn(a, c, b, "open"), UNCHANGED waiting
      PROVE  OwedInv'
  <2>1. a \in idle
    BY DEF ClaimChoices
  <2>2. Carries(BatchIds(b)) /\ \A e \in Ids(b.events) : Kept(e)'
    BY <1>5, <1>8, <2>1, StartedOwes
  <2> QED
    BY <1>6, <2>2
<1>9. CASE /\ q' = MarkComplete(RequeuePreserveTimestamps(f, b), c)
           /\ UNCHANGED <<tasks, waiting>>
  <2>1. PICK r : r = RequeuePreserveTimestamps(f, b)
    OBVIOUS
  <2>2. QueueType(r)
    BY <1>3, <1>4, <2>1, RequeueProperties
  <2>3. /\ NoneLost(f, r, {}) /\ f.evicted \subseteq r.evicted
        /\ Ids(b.events) \subseteq HeldIds(r, c) \cup r.evicted
    BY <1>3, <1>4, <2>1, PreserveLosesNone
  <2>4. SameEvents(r, q')
    BY <1>9, <2>1, <2>2, MarkCompleteProperties
  <2>5. NoneLost(q, q', BatchIds(b))
    BY <1>5, <2>3, <2>4 DEF NoneLost, HeldIds, SameEvents
  <2>6. \A e \in Ids(b.events) : Kept(e)' \/ e \in q'.evicted
    BY <2>3, <2>4 DEF Kept, HeldIds, SameEvents
  <2>7. Carries(BatchIds(b))
    BY <1>9, <2>5, IdleWork, QuietCarries
  <2> QED
    BY <1>6, <2>6, <2>7
<1> QED
  BY <1>1, <1>7, <1>8, <1>9 DEF DispatchBatch, poolVars, loopVars

\* The parked batches go back one by one.
LEMMA RequeueOwed ==
  ASSUME TypeInv, OwedInv, RequeueWaiting, Account({}, {})
  PROVE  OwedInv'
<1>1. UNCHANGED tasks /\ QueueType(q) /\ CapOK(q)
  BY DEF RequeueWaiting, poolVars, TypeInv, QueueOK
<1>2. CASE waiting = <<>>
  <2>1. UNCHANGED waiting /\ SameEvents(q, q')
    BY <1>2 DEF RequeueWaiting, SameEvents
  <2> QED
    BY <1>1, <2>1, IdleWork, StillCarries, NoneAccepted
<1>3. CASE waiting # <<>>
  <2>1. PICK b, c : b = Head(waiting) /\ c = b.channel_id
    OBVIOUS
  <2>2. waiting \in Seq(FlushBatch) /\ DOMAIN waiting = 1 .. Len(waiting) /\ Len(waiting) \in Nat
    BY LenProperties DEF TypeInv, WaitingTyped
  <2>3. 1 \in 1 .. Len(waiting) /\ b = waiting[1]
    BY <1>3, <2>1, <2>2, LenProperties, EmptySeq, HeadTailProperties
  <2>4. b \in FlushBatch /\ c \in Conversations
    BY <2>1, <2>2, <2>3, ElementOfSeq, BatchTypes
  <2>5. q' = MarkComplete(RequeuePreserveTimestamps(q, b), c) /\ waiting' = Tail(waiting)
    BY <1>3, <2>1 DEF RequeueWaiting
  <2>6. PICK r : r = RequeuePreserveTimestamps(q, b)
    OBVIOUS
  <2>7. QueueType(r)
    BY <1>1, <2>4, <2>6, RequeueProperties
  <2>8. NoneLost(q, r, {}) /\ Ids(b.events) \subseteq HeldIds(r, c) \cup r.evicted
    BY <1>1, <2>1, <2>4, <2>6, PreserveLosesNone
  <2>9. SameEvents(r, q')
    BY <2>4, <2>5, <2>6, <2>7, MarkCompleteProperties
  <2>10. NoneLost(q, q', {}) /\ Ids(b.events) \subseteq HeldIds(q', c) \cup q'.evicted
    BY <2>8, <2>9 DEF NoneLost, HeldIds, SameEvents
  <2>11. /\ DOMAIN waiting' = 1 .. Len(waiting) - 1
         /\ \A j \in 1 .. Len(waiting) - 1 : waiting'[j] = waiting[j + 1]
    BY <1>3, <2>2, <2>5, HeadTailProperties, LenProperties
  <2>12. ASSUME NEW e, Kept(e) PROVE Kept(e)' \/ e \in {} \/ e \in q'.evicted
    <3>1. CASE \E d \in Conversations : e \in HeldIds(q, d)
      BY <2>10, <3>1 DEF NoneLost, Kept
    <3>2. CASE \E a \in Agents : Owes(tasks[a]) /\ e \in Ids(tasks[a].batch.events)
      BY <1>1, <3>2 DEF Kept
    <3>3. ASSUME NEW i \in DOMAIN waiting, e \in Ids(waiting[i].events)
          PROVE  Kept(e)' \/ e \in q'.evicted
      <4>1. CASE i = 1
        <5>1. e \in HeldIds(q', c) \cup q'.evicted
          BY <2>3, <2>10, <3>3, <4>1
        <5> QED
          BY <2>4, <5>1 DEF Kept
      <4>2. CASE i # 1
        <5>1. i - 1 \in 1 .. Len(waiting) - 1 /\ (i - 1) + 1 = i
          BY <2>2, <4>2
        <5>2. PICK j \in DOMAIN waiting' : waiting'[j] = waiting[i]
          BY <2>11, <5>1
        <5> QED
          BY <3>3, <5>2 DEF Kept
      <4> QED
        BY <4>1, <4>2
    <3> QED
      BY <2>12, <3>1, <3>2, <3>3 DEF Kept
  <2> QED
    BY <2>12, NoneAccepted DEF Carries
<1> QED
  BY <1>2, <1>3

\* A heartbeat starts on an idle agent.
LEMMA HeartbeatOwed ==
  ASSUME TypeInv, PoolInv, OwedInv, HeartbeatFlush, Account({}, {})
  PROVE  OwedInv'
<1>1. UNCHANGED <<q, waiting>> /\ SameEvents(q, q')
  BY DEF HeartbeatFlush, queueVars, SameEvents
<1>2. CASE UNCHANGED tasks
  BY <1>1, <1>2, IdleWork, StillCarries, NoneAccepted
<1>3. ASSUME NEW a \in idle, StartTurn(a, Heartbeat, NoBatch(Blank), "closed") PROVE OwedInv'
  <2>1. Carries({})
    BY <1>1, <1>3, StartedOwes, SameLosesNone
  <2> QED
    BY <2>1, NoneAccepted
<1> QED
  BY <1>2, <1>3 DEF HeartbeatFlush, poolVars

\* The expiry sweep gives the withheld events back to their queue.
LEMMA ExpireOwed ==
  ASSUME TypeInv, OwedInv, NEW c \in Conversations, Expire(c), Account({}, {})
  PROVE  OwedInv'
<1>1. QueueType(q) /\ CapOK(q) /\ UNCHANGED <<tasks, waiting>>
  BY DEF TypeInv, QueueOK, Expire, poolVars, loopVars
<1>2. NoneLost(q, q', {})
  BY <1>1, ExpireLosesNone DEF Expire
<1> QED
  BY <1>1, <1>2, IdleWork, QuietCarries, NoneAccepted

\* A step that moves no event and starts and ends no turn.
LEMMA StillOwed ==
  ASSUME OwedInv, SameWork, UNCHANGED waiting, SameEvents(q, q'), Account({}, {})
  PROVE  OwedInv'
  BY StillCarries, NoneAccepted

\* Nothing is owed at first.
LEMMA OwedInit == AInit => OwedInv
  BY DEF AInit, OwedInv

\* Every step keeps the account.
LEMMA OwedStep == TypeInv /\ PoolInv /\ TaskInv /\ OwedInv /\ [ANext]_avars => OwedInv'
<1> SUFFICES ASSUME TypeInv, PoolInv, TaskInv, OwedInv, [ANext]_avars PROVE OwedInv'
  OBVIOUS
<1> USE DEF poolVars, queueVars, loopVars
<1>1. QueueType(q)
  BY DEF TypeInv, QueueOK
<1>2. ASSUME UNCHANGED <<q, tasks, waiting>>, Account({}, {}) PROVE OwedInv'
  BY <1>2, IdleWork, StillOwed DEF SameEvents
<1>3. ASSUME UNCHANGED <<tasks, waiting>>, SameEvents(q, q'), Account({}, {}) PROVE OwedInv'
  BY <1>3, IdleWork, StillOwed
<1>4. ASSUME NEW e \in Events, NEW exempt \in (IF HoldEnabled THEN BOOLEAN ELSE {FALSE}),
             Ingest(e, exempt), Account(Accepted(e), {})
      PROVE  OwedInv'
  <2>1. exempt \in BOOLEAN
    OBVIOUS
  <2> QED
    BY <1>4, <2>1, IngestOwed
<1>5. ASSUME NEW e \in Events, NEW edit \in Edits, EditMessage(e, edit),
             Account({}, IF edit = "drop" /\ EditApplies(q, e) THEN {e} ELSE {})
      PROVE  OwedInv'
  BY <1>5, EditOwed
<1>6. ASSUME NEW e \in Events, RetryTurn(e), Account(Accepted(e), {}) PROVE OwedInv'
  BY <1>6, RetryOwed
<1>7. ASSUME NEW e \in Events, NEW a \in Agents, NEW kind \in AckKinds, AnswerSteer(a, e, kind),
             Account({}, {})
      PROVE  OwedInv'
  <2>1. SameWork
    BY <1>7, QuietWork
  <2>2. UNCHANGED waiting /\ SameEvents(q, q')
    BY <1>7 DEF AnswerSteer, SameEvents
  <2> QED
    BY <1>7, <2>1, <2>2, StillOwed
<1>8. ASSUME NEW c \in Conversations, NEW s \in OwnerSignals, OwnerControl(c, s),
             Account({}, IF q' # q THEN Dropped({c}) ELSE {})
      PROVE  OwedInv'
  BY <1>8, OwnerOwed
<1>9. ASSUME NEW c \in Conversations, Expire(c), Account({}, {}) PROVE OwedInv'
  BY <1>9, ExpireOwed
<1>10. ASSUME NEW c \in Conversations, DispatchBatch(c), owed' = owed \ q'.evicted,
              merged' = merged \cup Ids(BatchFor(q, matured, c).cancelled_events)
       PROVE  OwedInv'
  BY <1>10, DispatchOwed
<1>11. ASSUME NEW c \in Conversations, RetryElapses(c), Account({}, {}) PROVE OwedInv'
  <2>1. SameEvents(q, q')
    BY <1>1, <1>11, ThrottleOps DEF RetryElapses, OnlyThrottles
  <2> QED
    BY <1>3, <1>11, <2>1 DEF RetryElapses
<1>12. ASSUME NEW ch \in Membership, RemoveChannel(ch), Account({}, Dropped(RoutedWork(q, ch)))
       PROVE  OwedInv'
  BY <1>12, RemovalOwed
<1>13. ASSUME NEW ch \in Membership, AddChannel(ch), Account({}, {}) PROVE OwedInv'
  BY <1>2, <1>13 DEF AddChannel
<1>14. ASSUME NEW a \in Agents, FinishTurn(a),
              Account({}, IF tasks'[a].returned THEN {} ELSE BatchIds(tasks[a].batch))
       PROVE  OwedInv'
  BY <1>14, FinishOwed
<1>15. ASSUME NEW a \in Agents, PanicTurn(a), Account({}, {}) PROVE OwedInv'
  BY <1>15, PanicOwed
<1>16. ASSUME NEW a \in Agents, HandleResult(a) \/ RecoverPanic(a),
              Account({}, IF tasks[a].conv = Heartbeat THEN {} ELSE GivenUp(tasks[a]))
       PROVE  OwedInv'
  BY <1>16, EndOwed
<1>17. ASSUME NEW a \in Agents, NEW success \in BOOLEAN, CollectRespawn(a, success), Account({}, {})
       PROVE  OwedInv'
  BY <1>2, <1>17 DEF CollectRespawn
<1>18. ASSUME NEW a \in Agents, CoolDown(a) \/ CrashAges(a), Account({}, {}) PROVE OwedInv'
  BY <1>2, <1>18 DEF CoolDown, CrashAges
<1>19. ASSUME NEW a \in Agents, DeadlinePasses(a), Account({}, {}) PROVE OwedInv'
  <2>1. tasks[a].conv \in Conversations
    BY <1>19, HarnessAssumption DEF DeadlinePasses
  <2>2. SameEvents(q, q')
    BY <1>1, <1>19, <2>1, DeadlineProperties DEF DeadlinePasses
  <2> QED
    BY <1>3, <1>19, <2>2 DEF DeadlinePasses
<1>20. ASSUME NEW k \in acks, HandleSteerAck(k),
              Account({}, IF k.kind = "success" THEN {k.event_id} ELSE {})
       PROVE  OwedInv'
  BY <1>20, AckOwed
<1>21. ASSUME DispatchDone \/ DrainDone \/ MaintainFlush \/ HeartbeatTick \/ HoldElapses \/ HoldWake,
              Account({}, {})
       PROVE  OwedInv'
  BY <1>2, <1>21 DEF DispatchDone, DrainDone, MaintainFlush, HeartbeatTick, HoldElapses, HoldWake
<1>22. ASSUME RequeueWaiting, Account({}, {}) PROVE OwedInv'
  BY <1>22, RequeueOwed
<1>23. ASSUME Maintain, Account({}, {}) PROVE OwedInv'
  <2>1. SameEvents(q, q')
    BY <1>1, <1>23, CompactProperties DEF Maintain, OnlyThrottles
  <2> QED
    BY <1>3, <1>23, <2>1 DEF Maintain
<1>24. ASSUME HeartbeatFlush, Account({}, {}) PROVE OwedInv'
  BY <1>24, HeartbeatOwed
<1>25. CASE UNCHANGED avars
  BY <1>25 DEF avars, vars, history, OwedInv, Kept
<1> QED
  BY <1>4, <1>5, <1>6, <1>7, <1>8, <1>9, <1>10, <1>11, <1>12, <1>13, <1>14, <1>15, <1>16, <1>17,
     <1>18, <1>19, <1>20, <1>21, <1>22, <1>23, <1>24, <1>25
  DEF ANext

\* The account says that a lost event was merged.
LEMMA OwedIsHeld == OwedInv => LossOnlyByMerge
<1> SUFFICES ASSUME OwedInv, NEW e \in owed, e \notin Held PROVE e \in merged
  BY DEF LossOnlyByMerge
<1>0. PICK inQueue, inTasks, parked :
        /\ inQueue = UNION {HeldIds(q, c) : c \in Conversations}
        /\ inTasks = UNION {BatchIds(tasks[a].batch) : a \in {b \in Agents : Busy(b)}}
        /\ parked = UNION {BatchIds(waiting[i]) : i \in DOMAIN waiting}
        /\ e \notin inQueue /\ e \notin inTasks /\ e \notin parked
  BY DEF Held
<1>1. CASE \E c \in Conversations : e \in HeldIds(q, c)
  BY <1>1 DEF Held
<1>2. ASSUME NEW a \in Agents, Owes(tasks[a]), e \in Ids(tasks[a].batch.events) PROVE FALSE
  <2>1. Busy(a) /\ e \in BatchIds(tasks[a].batch)
    BY <1>2 DEF Owes, Busy, BatchIds
  <2>2. e \in UNION {BatchIds(tasks[d].batch) : d \in {x \in Agents : Busy(x)}}
    BY <2>1
  <2> QED
    BY <1>0, <2>2
<1>3. ASSUME NEW i \in DOMAIN waiting, e \in Ids(waiting[i].events) PROVE FALSE
  <2>1. e \in BatchIds(waiting[i])
    BY <1>3 DEF BatchIds
  <2>2. e \in UNION {BatchIds(waiting[j]) : j \in DOMAIN waiting}
    BY <2>1
  <2> QED
    BY <1>0, <2>2
<1>4. e \in merged \/ Kept(e)
  BY DEF OwedInv
<1> QED
  BY <1>1, <1>2, <1>3, <1>4 DEF Kept

\* The history variables only watch: every accounted behaviour is a behaviour of the
\* harness, so what is proved of the harness holds of it too.
THEOREM AccountingIsHarness == ASpec => Spec
<1>1. AInit => Init
  BY DEF AInit
<1>2. [ANext]_avars => [Next]_vars
  <2>1. ASSUME ANext PROVE Next
    BY <2>1 DEF ANext, Next
  <2>2. ASSUME UNCHANGED avars PROVE UNCHANGED vars
    BY <2>2 DEF avars
  <2> QED
    BY <2>1, <2>2
<1> QED
  BY <1>1, <1>2, PTL DEF ASpec, Spec

\* Through cancels, steers, panics, crashes, exhausted pools, parked batches, expired
\* deadlines and evictions, an event that EventQueue::push accepted is held somewhere
\* until it is settled, unless it was the interrupted part of a merged prompt.
THEOREM NothingLostButMerged == ASpec => []LossOnlyByMerge
<1>1. TypeInv /\ TaskInv /\ [Next]_vars => TaskInv'
  BY TaskStep
<1>2. Spec => []TaskInv
  BY <1>1, TaskInit, TypeInvariant, PTL DEF Spec
<1>3. TypeInv /\ PoolInv /\ TaskInv /\ OwedInv /\ [ANext]_avars => OwedInv'
  BY OwedStep
<1>4. ASpec => []OwedInv
  BY <1>2, <1>3, OwedInit, AccountingIsHarness, TypeInvariant, PoolInvariant, PTL DEF ASpec
<1> QED
  BY <1>4, OwedIsHeld, PTL
=============================================================================
