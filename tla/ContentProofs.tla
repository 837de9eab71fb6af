---------------------------- MODULE ContentProofs ----------------------------
(***************************************************************************)
(* Machine-checked proofs about what the agent harness does with the       *)
(* events themselves: types and caps of its queue, withheld events and the *)
(* steer acks they wait for.  Module QueueProofs has the facts about the   *)
(* queue operations they rest on, module HarnessProofs the invariants of   *)
(* turns and locks.                                                        *)
(***************************************************************************)
EXTENDS HarnessProofs, QueueProofs

-----------------------------------------------------------------------------
(* Arrival stamps: nothing held was received after the clock *)

\* The three lists of conversation c hold no event received after stamp n.
ListsStamped(k, c, n) ==
  /\ Stamped(k.queues[c], n)
  /\ Stamped(k.cancelled_batches[c], n)
  /\ Stamped(k.withheld_native_steer[c], n)

\* Nor does batch b.
BatchStamped(b, n) == Stamped(b.events, n) /\ Stamped(b.cancelled_events, n)

\* A queue with its types, within its caps, that holds nothing younger than n.
QueueOK(k, n) ==
  /\ QueueType(k)
  /\ CapOK(k)
  /\ \A c \in Conversations : ListsStamped(k, c, n)

\* The lists of a queue are lists of entries.
LEMMA ListTypes ==
  ASSUME NEW k, QueueType(k), NEW c \in Conversations
  PROVE  /\ k.queues[c] \in Seq(Entry)
         /\ k.cancelled_batches[c] \in Seq(Entry)
         /\ k.withheld_native_steer[c] \in Seq(Entry)
  BY DEF QueueType

\* The lists of a batch are lists of entries.
LEMMA BatchTypes ==
  ASSUME NEW b \in FlushBatch
  PROVE  b.events \in Seq(Entry) /\ b.cancelled_events \in Seq(Entry) /\ b.channel_id \in Conversations
  BY DEF FlushBatch

\* What is drawn from a list is not younger.
LEMMA DrawnStamped ==
  ASSUME NEW r \in Seq(Entry), NEW s \in Seq(Entry), Drawn(r, s), NEW n, Stamped(s, n)
  PROVE  Stamped(r, n)
  BY DrawnProperties

\* The clock only moves forward.
LEMMA LaterStamped ==
  ASSUME NEW s \in Seq(Entry), NEW n \in Nat, Stamped(s, n)
  PROVE  Stamped(s, n + 1)
<1> SUFFICES ASSUME NEW i \in 1 .. Len(s) PROVE s[i].received_at <= n + 1
  BY DEF Stamped
<1>1. s[i] \in Entry
  BY ElementOfSeq
<1>2. s[i].received_at \in Nat /\ s[i].received_at <= n
  BY <1>1 DEF Entry, Stamped
<1> QED
  BY <1>2

\* An empty list is as old as you like.
LEMMA EmptyStamped ==
  ASSUME NEW n
  PROVE  Stamped(<<>>, n)
<1>1. Len(<<>>) = 0
  BY LenProperties
<1> QED
  BY <1>1 DEF Stamped

\* Operations that move no event keep QueueOK.
LEMMA SameEventsOK ==
  ASSUME NEW k, NEW n, QueueOK(k, n), NEW r, QueueType(r), SameEvents(k, r)
  PROVE  QueueOK(r, n)
<1>1. CapOK(r)
  BY SameEventsCap DEF QueueOK
<1>2. \A c \in Conversations : ListsStamped(r, c, n)
  BY DEF QueueOK, SameEvents, ListsStamped
<1> QED
  BY <1>1, <1>2 DEF QueueOK

\* push at the next stamp.
LEMMA PushOK ==
  ASSUME NEW k, NEW n \in Nat, QueueOK(k, n), NEW e \in Events, NEW x \in BOOLEAN
  PROVE  QueueOK(Push(k, e, n + 1, x, FALSE), n + 1)
<1> DEFINE c == ConvOf[e]
           r == Push(k, e, n + 1, x, FALSE)
           entry == [id |-> e, received_at |-> n + 1, hold_exempt |-> x, edited |-> FALSE]
<1>1. c \in Conversations /\ n + 1 \in Nat /\ FALSE \in BOOLEAN /\ QueueType(k) /\ CapOK(k)
  BY QueueAssumption DEF QueueOK
<1>2. /\ QueueType(r) /\ CapOK(r) /\ OnlyReady(k, r)
      /\ \A d \in Conversations \ {c} : Drawn(r.queues[d], k.queues[d])
      /\ Drawn(r.queues[c], Append(k.queues[c], entry))
  BY <1>1, PushProperties
<1>3. entry \in Entry /\ entry.received_at = n + 1
  BY <1>1 DEF Entry
<1> HIDE DEF r, entry, c
<1>4. ASSUME NEW d \in Conversations PROVE ListsStamped(r, d, n + 1)
  <2>1. /\ k.queues[d] \in Seq(Entry) /\ k.cancelled_batches[d] \in Seq(Entry)
        /\ k.withheld_native_steer[d] \in Seq(Entry) /\ r.queues[d] \in Seq(Entry)
    BY <1>1, <1>2, ListTypes
  <2>2. /\ Stamped(k.queues[d], n + 1) /\ Stamped(k.cancelled_batches[d], n + 1)
        /\ Stamped(k.withheld_native_steer[d], n + 1)
    BY <2>1, LaterStamped DEF QueueOK, ListsStamped
  <2>3. Stamped(r.queues[d], n + 1)
    <3>1. CASE d # c
      BY <1>2, <2>1, <2>2, <3>1, DrawnStamped
    <3>2. CASE d = c
      <4>1. n + 1 <= n + 1
        BY <1>1
      <4>2. /\ Append(k.queues[d], entry) \in Seq(Entry)
            /\ Stamped(Append(k.queues[d], entry), n + 1)
        BY <1>1, <1>3, <2>1, <2>2, <4>1, AppendIds
      <4> QED
        BY <1>2, <2>1, <3>2, <4>2, DrawnStamped
    <3> QED
      BY <3>1, <3>2
  <2>4. r.cancelled_batches = k.cancelled_batches /\ r.withheld_native_steer = k.withheld_native_steer
    BY <1>2 DEF OnlyReady
  <2> QED
    BY <2>2, <2>3, <2>4 DEF ListsStamped
<1> QED
  BY <1>2, <1>4 DEF QueueOK, r

\* A queue whose lists are drawn from those of k.
LEMMA DrawnOK ==
  ASSUME NEW k, NEW n, QueueOK(k, n), NEW r, QueueType(r), CapOK(r),
         \A d \in Conversations : /\ Drawn(r.queues[d], k.queues[d])
                                  /\ Drawn(r.cancelled_batches[d], k.cancelled_batches[d])
                                  /\ Drawn(r.withheld_native_steer[d], k.withheld_native_steer[d])
  PROVE  QueueOK(r, n)
<1> SUFFICES ASSUME NEW d \in Conversations PROVE ListsStamped(r, d, n)
  BY DEF QueueOK
<1>1. QueueType(k) /\ ListsStamped(k, d, n)
  BY DEF QueueOK
<1>2. /\ k.queues[d] \in Seq(Entry) /\ k.cancelled_batches[d] \in Seq(Entry)
      /\ k.withheld_native_steer[d] \in Seq(Entry)
      /\ r.queues[d] \in Seq(Entry) /\ r.cancelled_batches[d] \in Seq(Entry)
      /\ r.withheld_native_steer[d] \in Seq(Entry)
  BY <1>1, ListTypes
<1> QED
  BY <1>1, <1>2, DrawnStamped DEF ListsStamped

\* A queue that lost some events to the flush, and the batch that took them.
LEMMA FlushOK ==
  ASSUME NEW k, NEW n, QueueOK(k, n), NEW m, NEW c \in Conversations
  PROVE  /\ QueueOK(Flushed(k, m, c), n)
         /\ BatchFor(k, m, c) \in FlushBatch
         /\ BatchFor(k, m, c).channel_id = c
         /\ BatchStamped(BatchFor(k, m, c), n)
<1> DEFINE r == Flushed(k, m, c)
           b == BatchFor(k, m, c)
<1>1. QueueType(k) /\ CapOK(k) /\ ListsStamped(k, c, n) /\ MaxBatch \in Nat
  BY QueueAssumption DEF QueueOK
<1>2. /\ QueueType(r) /\ CapOK(r)
      /\ r.cancelled_batches[c] = <<>>
      /\ r.withheld_native_steer = k.withheld_native_steer
      /\ \A d \in Conversations \ {c} : /\ r.queues[d] = k.queues[d]
                                        /\ r.cancelled_batches[d] = k.cancelled_batches[d]
      /\ Drawn(r.queues[c], k.queues[c])
  BY <1>1, FlushedProperties
<1>3. /\ b \in FlushBatch /\ b.channel_id = c
      /\ c \in Candidates(k, m) => /\ Drawn(b.events, KeepFirst(k.queues[c], MaxBatch))
                                   /\ b.cancelled_events = k.cancelled_batches[c]
      /\ c \notin Candidates(k, m) => b.events = k.cancelled_batches[c] /\ b.cancelled_events = <<>>
  BY <1>1, BatchProperties
<1> HIDE DEF r, b
<1>4. /\ k.queues[c] \in Seq(Entry) /\ k.cancelled_batches[c] \in Seq(Entry)
      /\ b.events \in Seq(Entry) /\ k.cancelled_batches \in [Conversations -> Seq(Entry)]
  BY <1>1, <1>3, ListTypes, BatchTypes DEF QueueType
<1>5. KeepFirst(k.queues[c], MaxBatch) \in Seq(Entry) /\ Drawn(KeepFirst(k.queues[c], MaxBatch), k.queues[c])
  BY <1>1, <1>4, KeepProperties
<1>6. c \in Candidates(k, m) => Drawn(b.events, k.queues[c])
  BY <1>3, <1>5, DrawnTrans
<1>7. BatchStamped(b, n)
  <2>1. CASE c \in Candidates(k, m)
    BY <1>1, <1>3, <1>4, <1>6, <2>1, DrawnStamped DEF BatchStamped, ListsStamped
  <2>2. CASE c \notin Candidates(k, m)
    BY <1>1, <1>3, <2>2, EmptyStamped DEF BatchStamped, ListsStamped
  <2> QED
    BY <2>1, <2>2
<1>8. \A d \in Conversations : /\ Drawn(r.queues[d], k.queues[d])
                               /\ Drawn(r.cancelled_batches[d], k.cancelled_batches[d])
                               /\ Drawn(r.withheld_native_steer[d], k.withheld_native_steer[d])
  <2> SUFFICES ASSUME NEW d \in Conversations
               PROVE  /\ Drawn(r.queues[d], k.queues[d])
                      /\ Drawn(r.cancelled_batches[d], k.cancelled_batches[d])
                      /\ Drawn(r.withheld_native_steer[d], k.withheld_native_steer[d])
    OBVIOUS
  <2>1. Drawn(r.queues[d], k.queues[d])
    BY <1>2, DrawnSelf
  <2>2. r.cancelled_batches[d] = <<>> \/ r.cancelled_batches[d] = k.cancelled_batches[d]
    BY <1>2, <1>4
  <2>3. Drawn(r.cancelled_batches[d], k.cancelled_batches[d])
    BY <1>4, <2>2, DrawnSelf, DrawnEmpty
  <2> QED
    BY <1>2, <2>1, <2>3, DrawnSelf
<1>9. QueueOK(r, n)
  BY <1>2, <1>8, DrawnOK
<1> QED
  BY <1>3, <1>7, <1>9 DEF r, b


\* The expiry sweep.
LEMMA ExpireOK ==
  ASSUME NEW k, NEW n, QueueOK(k, n), NEW c \in Conversations
  PROVE  QueueOK(ExpireInFlight(k, c), n)
<1> DEFINE r == ExpireInFlight(k, c)
<1>1. QueueType(k) /\ CapOK(k) /\ \A d \in Conversations : ListsStamped(k, d, n)
  BY DEF QueueOK
<1>2. /\ QueueType(r) /\ CapOK(r) /\ r.cancelled_batches = k.cancelled_batches
      /\ r.withheld_native_steer[c] = <<>>
      /\ \A d \in Conversations \ {c} : /\ Drawn(r.queues[d], k.queues[d])
                                        /\ r.withheld_native_steer[d] = k.withheld_native_steer[d]
      /\ Drawn(r.queues[c], k.withheld_native_steer[c] \o k.queues[c])
  BY <1>1, ExpireProperties
<1> HIDE DEF r
<1>3. ASSUME NEW d \in Conversations PROVE ListsStamped(r, d, n)
  <2>1. k.queues[d] \in Seq(Entry) /\ k.withheld_native_steer[d] \in Seq(Entry) /\ r.queues[d] \in Seq(Entry)
    BY <1>1, <1>2, ListTypes
  <2>2. /\ k.withheld_native_steer[d] \o k.queues[d] \in Seq(Entry)
        /\ Stamped(k.withheld_native_steer[d] \o k.queues[d], n)
    BY <1>1, <2>1, ConcatIds DEF ListsStamped
  <2>3. Stamped(k.queues[d], n)
    BY <1>1 DEF ListsStamped
  <2>4. Stamped(r.queues[d], n)
    BY <1>2, <2>1, <2>2, <2>3, DrawnStamped
  <2>5. Stamped(r.withheld_native_steer[d], n) /\ Stamped(r.cancelled_batches[d], n)
    BY <1>1, <1>2, EmptyStamped DEF ListsStamped
  <2> QED
    BY <2>4, <2>5 DEF ListsStamped
<1> QED
  BY <1>2, <1>3 DEF QueueOK, r

\* A requeue puts back what the batch held.
LEMMA RequeueOK ==
  ASSUME NEW k, NEW n, QueueOK(k, n), NEW b \in FlushBatch, BatchStamped(b, n)
  PROVE  QueueOK(Requeue(k, b), n) /\ QueueOK(RequeuePreserveTimestamps(k, b), n)
<1>1. QueueType(k) /\ CapOK(k) /\ \A d \in Conversations : ListsStamped(k, d, n)
  BY DEF QueueOK
<1>2. ASSUME NEW r \in {Requeue(k, b), RequeuePreserveTimestamps(k, b)} PROVE QueueOK(r, n)
  <2>1. /\ QueueType(r) /\ CapOK(r) /\ r.cancelled_batches = k.cancelled_batches
        /\ r.withheld_native_steer = k.withheld_native_steer
        /\ \A d \in Conversations \ {b.channel_id} : Drawn(r.queues[d], k.queues[d])
        /\ Drawn(r.queues[b.channel_id], b.events \o k.queues[b.channel_id])
    BY <1>1, RequeueProperties
  <2>2. ASSUME NEW d \in Conversations PROVE ListsStamped(r, d, n)
    <3>1. k.queues[d] \in Seq(Entry) /\ b.events \in Seq(Entry) /\ r.queues[d] \in Seq(Entry)
      BY <1>1, <2>1, ListTypes, BatchTypes
    <3>2. Stamped(k.queues[d], n) /\ Stamped(b.events, n)
      BY <1>1 DEF ListsStamped, BatchStamped
    <3>3. b.events \o k.queues[d] \in Seq(Entry) /\ Stamped(b.events \o k.queues[d], n)
      BY <3>1, <3>2, ConcatIds
    <3>4. Stamped(r.queues[d], n)
      BY <2>1, <3>1, <3>2, <3>3, DrawnStamped
    <3> QED
      BY <1>1, <2>1, <3>4 DEF ListsStamped
  <2> QED
    BY <2>1, <2>2 DEF QueueOK
<1> QED
  BY <1>2

\* A cancelled batch is kept apart.
LEMMA CancelOK ==
  ASSUME NEW k, NEW n, QueueOK(k, n), NEW b \in FlushBatch, BatchStamped(b, n),
         NEW reason \in CancelReasons
  PROVE  QueueOK(RequeueAsCancelled(k, b, reason), n)
<1> DEFINE r == RequeueAsCancelled(k, b, reason)
           c == b.channel_id
           whole == k.cancelled_batches[c] \o b.cancelled_events \o b.events
<1>1. QueueType(k) /\ CapOK(k) /\ \A d \in Conversations : ListsStamped(k, d, n)
  BY DEF QueueOK
<1>2. /\ QueueType(r) /\ CapOK(r) /\ r.queues = k.queues
      /\ r.withheld_native_steer = k.withheld_native_steer
      /\ \A d \in Conversations \ {c} : r.cancelled_batches[d] = k.cancelled_batches[d]
      /\ Drawn(r.cancelled_batches[c], whole)
  BY <1>1, CancelProperties
<1>3. b.events \in Seq(Entry) /\ b.cancelled_events \in Seq(Entry) /\ c \in Conversations
  BY BatchTypes
<1> HIDE DEF r, c
<1>4. k.cancelled_batches[c] \in Seq(Entry) /\ Stamped(k.cancelled_batches[c], n)
  BY <1>1, <1>3, ListTypes DEF ListsStamped
<1>5. /\ k.cancelled_batches[c] \o b.cancelled_events \in Seq(Entry)
      /\ Stamped(k.cancelled_batches[c] \o b.cancelled_events, n)
  BY <1>3, <1>4, ConcatIds DEF BatchStamped
<1>6. whole \in Seq(Entry) /\ Stamped(whole, n)
  BY <1>3, <1>5, ConcatIds DEF BatchStamped
<1> HIDE DEF whole
<1>7. r.cancelled_batches[c] \in Seq(Entry)
  BY <1>2, <1>3, ListTypes
<1>8. Stamped(r.cancelled_batches[c], n)
  BY <1>2, <1>6, <1>7, DrawnStamped
<1>9. \A d \in Conversations : ListsStamped(r, d, n)
  BY <1>1, <1>2, <1>8 DEF ListsStamped
<1> QED
  BY <1>2, <1>9 DEF QueueOK, r

\* Draining.
LEMMA DrainOK ==
  ASSUME NEW k, NEW n, QueueOK(k, n), NEW cs
  PROVE  QueueOK(DrainChannels(k, cs), n)
<1> DEFINE r == DrainChannels(k, cs)
<1>1. QueueType(k) /\ CapOK(k) /\ \A d \in Conversations : ListsStamped(k, d, n)
  BY DEF QueueOK
<1>2. /\ QueueType(r) /\ CapOK(r)
      /\ \A d \in Conversations :
           /\ r.queues[d] = IF d \in cs THEN <<>> ELSE k.queues[d]
           /\ r.cancelled_batches[d] = IF d \in cs THEN <<>> ELSE k.cancelled_batches[d]
           /\ r.withheld_native_steer[d] = IF d \in cs THEN <<>> ELSE k.withheld_native_steer[d]
  BY <1>1, DrainProperties
<1> HIDE DEF r
<1>3. \A d \in Conversations : ListsStamped(r, d, n)
  BY <1>1, <1>2, EmptyStamped DEF ListsStamped
<1> QED
  BY <1>2, <1>3 DEF QueueOK, r

\* Withholding a steered event.
LEMMA WithholdOK ==
  ASSUME NEW k, NEW n \in Nat, QueueOK(k, n), NEW c \in Conversations, NEW e
  PROVE  QueueOK(MarkNativeSteerPending(k, c, e), n)
<1> DEFINE r == MarkNativeSteerPending(k, c, e)
<1>1. QueueType(k) /\ CapOK(k) /\ \A d \in Conversations : ListsStamped(k, d, n)
  BY DEF QueueOK
<1>2. /\ QueueType(r) /\ CapOK(r) /\ r.cancelled_batches = k.cancelled_batches
      /\ \A d \in Conversations : Drawn(r.queues[d], k.queues[d])
      /\ \A d \in Conversations \ {c} : r.withheld_native_steer[d] = k.withheld_native_steer[d]
      /\ \/ r = k
         \/ \E x \in Entry : /\ \E i \in 1 .. Len(k.queues[c]) : x = k.queues[c][i]
                             /\ r.withheld_native_steer[c] = Append(k.withheld_native_steer[c], x)
  BY <1>1, WithholdProperties
<1> HIDE DEF r
<1>3. CASE r = k
  BY <1>3 DEF r
<1>4. ASSUME NEW x \in Entry, NEW i \in 1 .. Len(k.queues[c]), x = k.queues[c][i],
             r.withheld_native_steer[c] = Append(k.withheld_native_steer[c], x)
      PROVE  QueueOK(r, n)
  <2>1. x.received_at <= n
    BY <1>1, <1>4 DEF ListsStamped, Stamped
  <2>2. Stamped(r.withheld_native_steer[c], n)
    <3>1. k.withheld_native_steer[c] \in Seq(Entry) /\ Stamped(k.withheld_native_steer[c], n)
      BY <1>1, ListTypes DEF ListsStamped
    <3> QED
      BY <1>4, <2>1, <3>1, AppendIds
  <2>3. ASSUME NEW d \in Conversations PROVE Stamped(r.queues[d], n)
    <3>1. r.queues[d] \in Seq(Entry) /\ k.queues[d] \in Seq(Entry)
      BY <1>1, <1>2, ListTypes
    <3> QED
      BY <1>1, <1>2, <3>1, DrawnStamped DEF ListsStamped
  <2>4. \A d \in Conversations : ListsStamped(r, d, n)
    BY <1>1, <1>2, <2>2, <2>3 DEF ListsStamped
  <2> QED
    BY <1>2, <2>4 DEF QueueOK
<1> QED
  BY <1>2, <1>3, <1>4 DEF r

\* Releasing one.
LEMMA ReleaseOK ==
  ASSUME NEW k, NEW n \in Nat, QueueOK(k, n), NEW c \in Conversations, NEW e
  PROVE  QueueOK(ReleaseNativeSteer(k, c, e), n)
<1> DEFINE r == ReleaseNativeSteer(k, c, e)
<1>1. QueueType(k) /\ CapOK(k) /\ \A d \in Conversations : ListsStamped(k, d, n)
  BY DEF QueueOK
<1>2. /\ QueueType(r) /\ CapOK(r) /\ r.cancelled_batches = k.cancelled_batches
      /\ \A d \in Conversations \ {c} : /\ Drawn(r.queues[d], k.queues[d])
                                        /\ r.withheld_native_steer[d] = k.withheld_native_steer[d]
      /\ \/ r = k
         \/ /\ Drawn(r.withheld_native_steer[c], k.withheld_native_steer[c])
            /\ \E x \in Entry : /\ \E i \in 1 .. Len(k.withheld_native_steer[c]) :
                                     x = k.withheld_native_steer[c][i]
                                /\ Drawn(r.queues[c], <<x>> \o k.queues[c])
  <2> DEFINE w == k.withheld_native_steer[c]
  <2>1. /\ QueueType(r) /\ CapOK(r) /\ r.cancelled_batches = k.cancelled_batches
        /\ \A d \in Conversations \ {c} : /\ Drawn(r.queues[d], k.queues[d])
                                          /\ r.withheld_native_steer[d] = k.withheld_native_steer[d]
    BY <1>1, ReleaseProperties
  <2>2. \/ r = k /\ e \notin Ids(w)
        \/ /\ Drawn(r.withheld_native_steer[c], w)
           /\ Ids(w) \subseteq Ids(r.withheld_native_steer[c]) \cup {e}
           /\ NoDup(w) => e \notin Ids(r.withheld_native_steer[c])
           /\ e \in Ids(w)
           /\ \E x \in Entry : /\ x.id = e
                               /\ \E i \in 1 .. Len(w) : x = w[i]
                               /\ Drawn(r.queues[c], <<x>> \o k.queues[c])
    BY <1>1, ReleaseProperties, Zenon
  <2> HIDE DEF r
  <2> QED
    BY <2>1, <2>2
<1> HIDE DEF r
<1>3. CASE r = k
  BY <1>3 DEF r
<1>4. ASSUME Drawn(r.withheld_native_steer[c], k.withheld_native_steer[c]),
             NEW x \in Entry, NEW i \in 1 .. Len(k.withheld_native_steer[c]),
             x = k.withheld_native_steer[c][i], Drawn(r.queues[c], <<x>> \o k.queues[c])
      PROVE  QueueOK(r, n)
  <2>1. x.received_at <= n
    BY <1>1, <1>4 DEF ListsStamped, Stamped
  <2>2. <<x>> \in Seq(Entry) /\ Stamped(<<x>>, n)
    <3>1. Stamped(<<>>, n) /\ <<>> \in Seq(Entry) /\ Append(<<>>, x) = <<x>>
      BY EmptyStamped, EmptySeq
    <3>2. Append(<<>>, x) \in Seq(Entry) /\ Stamped(Append(<<>>, x), n)
      BY <2>1, <3>1, AppendIds
    <3> QED
      BY <3>1, <3>2
  <2>3. r.queues[c] \in Seq(Entry) /\ k.queues[c] \in Seq(Entry)
    BY <1>1, <1>2, ListTypes
  <2>4. <<x>> \o k.queues[c] \in Seq(Entry) /\ Stamped(<<x>> \o k.queues[c], n)
    BY <1>1, <2>2, <2>3, ConcatIds DEF ListsStamped
  <2>5. Stamped(r.queues[c], n)
    BY <1>4, <2>3, <2>4, DrawnStamped
  <2>6. ASSUME NEW d \in Conversations \ {c} PROVE Stamped(r.queues[d], n)
    <3>1. r.queues[d] \in Seq(Entry) /\ k.queues[d] \in Seq(Entry)
      BY <1>1, <1>2, ListTypes
    <3> QED
      BY <1>1, <1>2, <3>1, DrawnStamped DEF ListsStamped
  <2>7. Stamped(r.withheld_native_steer[c], n)
    <3>1. r.withheld_native_steer[c] \in Seq(Entry) /\ k.withheld_native_steer[c] \in Seq(Entry)
      BY <1>1, <1>2, ListTypes
    <3> QED
      BY <1>1, <1>4, <3>1, DrawnStamped DEF ListsStamped
  <2>8. \A d \in Conversations : ListsStamped(r, d, n)
    BY <1>1, <1>2, <2>5, <2>6, <2>7 DEF ListsStamped
  <2> QED
    BY <1>2, <2>8 DEF QueueOK
<1> QED
  BY <1>2, <1>3, <1>4 DEF r

\* Removing and rewriting an event.
LEMMA EditOK ==
  ASSUME NEW k, NEW n, QueueOK(k, n), NEW c \in Conversations, NEW e
  PROVE  /\ QueueOK(RemoveEvent(k, c, e), n)
         /\ e \in Events => QueueOK(RemoveEventById(k, e), n) /\ QueueOK(PatchEvent(k, e), n)
<1>1. QueueType(k) /\ CapOK(k)
  BY DEF QueueOK
<1>2. ASSUME NEW d \in Conversations PROVE QueueOK(RemoveEvent(k, d, e), n)
  <2> DEFINE r == RemoveEvent(k, d, e)
  <2>1. /\ QueueType(r) /\ CapOK(r) /\ r.cancelled_batches = k.cancelled_batches
        /\ \A f \in Conversations : /\ Drawn(r.queues[f], k.queues[f])
                                    /\ Drawn(r.withheld_native_steer[f], k.withheld_native_steer[f])
    BY <1>1, RemoveProperties
  <2> HIDE DEF r
  <2> QED
    BY <2>1, DrawnOK, DrawnSelf DEF r
<1>3. ASSUME e \in Events PROVE QueueOK(RemoveEventById(k, e), n)
  BY <1>2, <1>3, QueueAssumption DEF RemoveEventById
<1>4. ASSUME e \in Events PROVE QueueOK(PatchEvent(k, e), n)
  <2> DEFINE r == PatchEvent(k, e)
  <2>1. /\ QueueType(r) /\ CapOK(r) /\ r.cancelled_batches = k.cancelled_batches
        /\ \A f \in Conversations : /\ Drawn(r.queues[f], k.queues[f])
                                    /\ Drawn(r.withheld_native_steer[f], k.withheld_native_steer[f])
    BY <1>1, <1>4, PatchProperties
  <2> HIDE DEF r
  <2> QED
    BY <2>1, DrawnOK, DrawnSelf DEF r
<1> QED
  BY <1>2, <1>3, <1>4


-----------------------------------------------------------------------------
(* The inductive invariant behind TypeOK and RoutingCap *)

\* A task with its type, a batch no younger than n, and steer requests only while the
\* turn of a conversation runs.
TaskOK(t, n) ==
  /\ t \in TaskType
  /\ BatchStamped(t.batch, n)
  /\ t.steers # {} => t.phase = "running" /\ t.conv \in Conversations

TasksTyped == tasks \in [Agents -> TaskType] /\ \A a \in Agents : TaskOK(tasks[a], clock)

WaitingTyped ==
  waiting \in Seq(FlushBatch) /\ \A i \in 1 .. Len(waiting) : BatchStamped(waiting[i], clock)

PoolTyped ==
  /\ idle \subseteq Agents
  /\ sessions \in [Agents -> SUBSET Conversations]
  /\ checkedOut \in [Agents -> SUBSET Conversations]

SlotsTyped ==
  /\ circuits \in [Agents -> [crashes : 0 .. CrashLimit, state : {"closed", "open", "cooled"}]]
  /\ respawning \subseteq Agents

RestTyped ==
  /\ acks \subseteq [channel_id : Conversations, event_id : Events, kind : AckKinds]
  /\ removed \subseteq Channels
  /\ heartbeatInFlight \in BOOLEAN
  /\ pc \in LoopSteps

TimeTyped == clock \in Nat /\ matured \in 0 .. clock

\* TypeOK with the caps, and with what keeps the dispatch hold behind the clock:
\* nothing held or dispatched was received after it.
TypeInv ==
  /\ QueueOK(q, clock)
  /\ TasksTyped
  /\ WaitingTyped
  /\ PoolTyped
  /\ SlotsTyped
  /\ RestTyped
  /\ TimeTyped

\* A batch as old as before is not younger than a later clock.
LEMMA LaterBatch ==
  ASSUME NEW b \in FlushBatch, NEW n \in Nat, BatchStamped(b, n)
  PROVE  BatchStamped(b, n + 1)
  BY BatchTypes, LaterStamped DEF BatchStamped

\* So with a task.
LEMMA LaterTask ==
  ASSUME NEW t, NEW n \in Nat, TaskOK(t, n)
  PROVE  TaskOK(t, n + 1)
<1>1. t.batch \in FlushBatch
  BY DEF TaskOK, TaskType
<1> QED
  BY <1>1, LaterBatch DEF TaskOK

\* A queue that only gained younger stamps.
LEMMA LaterQueue ==
  ASSUME NEW k, NEW n \in Nat, QueueOK(k, n)
  PROVE  QueueOK(k, n + 1)
<1>1. QueueType(k)
  BY DEF QueueOK
<1>2. \A c \in Conversations : ListsStamped(k, c, n + 1)
  BY <1>1, ListTypes, LaterStamped DEF QueueOK, ListsStamped
<1> QED
  BY <1>2 DEF QueueOK

\* An empty slot.
LEMMA NoTaskOK ==
  ASSUME NEW n
  PROVE  TaskOK(NoTask, n) /\ NoBatch(Blank) \in FlushBatch /\ BatchStamped(NoBatch(Blank), n)
<1>1. Blank \in Conversations
  BY HarnessAssumption DEF Blank
<1>2. <<>> \in Seq(Entry)
  BY EmptySeq
<1>3. NoBatch(Blank) \in FlushBatch
  BY <1>1, <1>2 DEF NoBatch, FlushBatch
<1>4. BatchStamped(NoBatch(Blank), n)
  BY EmptyStamped DEF BatchStamped, NoBatch
<1> HIDE DEF NoBatch
<1>5. NoTask \in TaskType
  BY <1>3 DEF NoTask, TaskType, Phases, Controls
<1>6. NoTask.batch = NoBatch(Blank) /\ NoTask.steers = {}
  BY DEF NoTask
<1> QED
  BY <1>3, <1>4, <1>5, <1>6 DEF TaskOK

\* A claimed slot.
LEMMA StartedOK ==
  ASSUME NEW n, NEW c \in Conversations \cup {Heartbeat}, NEW b \in FlushBatch, BatchStamped(b, n),
         NEW ctl \in Controls
  PROVE  TaskOK([NoTask EXCEPT !.phase = "running", !.conv = c, !.batch = b, !.control = ctl], n)
<1> DEFINE t == [NoTask EXCEPT !.phase = "running", !.conv = c, !.batch = b, !.control = ctl]
<1>1. NoTask \in TaskType /\ NoTask.steers = {}
  BY NoTaskOK DEF TaskOK, NoTask
<1>2. t \in TaskType /\ t.batch = b /\ t.steers = {}
  BY <1>1 DEF TaskType, Phases
<1> HIDE DEF t
<1>3. TaskOK(t, n)
  BY <1>2 DEF TaskOK
<1> QED
  BY <1>3 DEF t

\* A signal changes the control only.
LEMMA SignalledOK ==
  ASSUME NEW t, NEW n, TaskOK(t, n), NEW s \in Signals
  PROVE  TaskOK(Signalled(t, s), n)
<1> DEFINE r == Signalled(t, s)
<1>1. t \in TaskType
  BY DEF TaskOK
<1>2. /\ r \in TaskType /\ r.batch = t.batch /\ r.steers = t.steers /\ r.phase = t.phase
      /\ r.conv = t.conv
  BY <1>1 DEF Signalled, TaskType, Controls
<1> HIDE DEF r
<1> QED
  BY <1>2 DEF TaskOK, r

\* Steer requests come and go while the turn runs.
LEMMA SteersOK ==
  ASSUME NEW t, NEW n, TaskOK(t, n), NEW E \in SUBSET Events,
         E # {} => t.phase = "running" /\ t.conv \in Conversations
  PROVE  TaskOK([t EXCEPT !.steers = E], n)
<1> DEFINE r == [t EXCEPT !.steers = E]
<1>1. t \in TaskType
  BY DEF TaskOK
<1>2. /\ r \in TaskType /\ r.batch = t.batch /\ r.steers = E /\ r.phase = t.phase
      /\ r.conv = t.conv
  BY <1>1 DEF TaskType
<1> HIDE DEF r
<1> QED
  BY <1>2 DEF TaskOK, r

\* A turn that panics.
LEMMA PanickedOK ==
  ASSUME NEW t, NEW n, TaskOK(t, n)
  PROVE  TaskOK([t EXCEPT !.phase = "panicked", !.steers = {}], n)
<1> DEFINE r == [t EXCEPT !.phase = "panicked", !.steers = {}]
<1>1. t \in TaskType
  BY DEF TaskOK
<1>2. r \in TaskType /\ r.batch = t.batch /\ r.steers = {}
  BY <1>1 DEF TaskType, Phases
<1> HIDE DEF r
<1> QED
  BY <1>2 DEF TaskOK, r

\* The ends of a turn are ends: outcomes, reasons and sessions have their types.
EndType ==
  [outcome : ReturningOutcomes \cup FatalOutcomes, returned : BOOLEAN,
   reason : CancelReasons \cup {"none"}, sessions : SUBSET Conversations]

\* One end with its parts.
LEMMA OneEnd ==
  ASSUME NEW o \in ReturningOutcomes \cup FatalOutcomes, NEW back \in BOOLEAN,
         NEW reason \in CancelReasons \cup {"none"}, NEW S \in SUBSET Conversations
  PROVE  End(o, back, reason, S) \in EndType
  BY DEF End, EndType

\* Ends that differ in outcome and sessions.
LEMMA SomeEnds ==
  ASSUME NEW O \in SUBSET (ReturningOutcomes \cup FatalOutcomes), NEW back \in BOOLEAN,
         NEW reason \in CancelReasons \cup {"none"}, NEW SS \in SUBSET (SUBSET Conversations)
  PROVE  /\ {End(o, back, reason, s) : o \in O, s \in SS} \subseteq EndType
         /\ \A o \in O : {End(o, back, reason, s) : s \in SS} \subseteq EndType
         /\ \A s \in SS : {End(o, back, reason, s) : o \in O} \subseteq EndType
<1>1. \A o \in O, s \in SS : End(o, back, reason, s) \in EndType
  BY OneEnd
<1> QED
  BY <1>1

\* Every end of a turn.
LEMMA EndsTyped ==
  ASSUME NEW t \in TaskType, t.conv \in Conversations, NEW S \in SUBSET Conversations
  PROVE  TurnEnds(t, S) \subseteq EndType
<1> DEFINE reason == t.batch.cancel_reason
           all == ReturningOutcomes \cup FatalOutcomes
           faults == {"transport", "exited", "idle_timeout", "hard_timeout", "hard_timeout_active"}
           errors == {"app_error", "auth_error"}
           two == {S, S \ {t.conv}}
           three == {S, S \cup {t.conv}, S \ {t.conv}}
           after == {S \cup {t.conv}, S \ {t.conv}}
<1>1. /\ reason \in CancelReasons \cup {"none"} /\ KeepsBatch \in BOOLEAN
      /\ "Steer" \in CancelReasons \cup {"none"} /\ "Interrupt" \in CancelReasons \cup {"none"}
  BY DEF TaskType, FlushBatch, KeepsBatch, CancelReasons
<1>2. /\ two \in SUBSET (SUBSET Conversations) /\ three \in SUBSET (SUBSET Conversations)
      /\ after \in SUBSET (SUBSET Conversations) /\ {S} \in SUBSET (SUBSET Conversations)
      /\ {{}, S, S \ {t.conv}} \in SUBSET (SUBSET Conversations)
  OBVIOUS
<1>3. /\ all \in SUBSET all /\ faults \in SUBSET all /\ errors \in SUBSET all
      /\ "ok" \in all /\ "indeterminate" \in all /\ "workspace_busy" \in all /\ "app_error" \in all
      /\ {"cancelled", "app_error", "auth_error"} \in SUBSET all
      /\ {"drain_timeout", "exited", "idle_timeout", "transport"} \in SUBSET all
  BY DEF ReturningOutcomes, FatalOutcomes
<1> HIDE DEF reason, all, two, three, after, faults, errors
<1>4. \A o \in all, back \in BOOLEAN, SS \in SUBSET (SUBSET Conversations) :
        {End(o, back, reason, s) : s \in SS} \subseteq EndType
  BY <1>1, <1>3, SomeEnds DEF all
<1>5. \A O \in SUBSET all, SS \in SUBSET (SUBSET Conversations) :
        {End(o, KeepsBatch, reason, s) : o \in O, s \in SS} \subseteq EndType
  BY <1>1, SomeEnds DEF all
<1>6. \A O \in SUBSET all, back \in BOOLEAN, why \in CancelReasons \cup {"none"},
         s \in SUBSET Conversations :
        {End(o, back, why, s) : o \in O} \subseteq EndType
  BY OneEnd DEF all
<1>7. SetupEnds(t, S) \subseteq EndType
  <2>1. {End("ok", FALSE, reason, s) : s \in two} \subseteq EndType
    BY <1>2, <1>3, <1>4
  <2>2. {End("workspace_busy", TRUE, reason, s) : s \in two} \subseteq EndType
    BY <1>2, <1>3, <1>4
  <2>3. {End("app_error", KeepsBatch, reason, s) : s \in two} \subseteq EndType
    BY <1>1, <1>2, <1>3, <1>4
  <2>4. End("indeterminate", KeepsBatch, reason, S) \in EndType
    BY <1>1, <1>3, OneEnd DEF all
  <2>5. SetupEnds(t, S) = {End("ok", FALSE, reason, s) : s \in two}
          \cup {End("indeterminate", KeepsBatch, reason, S)}
          \cup {End("workspace_busy", TRUE, reason, s) : s \in two}
          \cup {End("app_error", KeepsBatch, reason, s) : s \in two}
    BY DEF SetupEnds, reason, two
  <2> QED
    BY <2>1, <2>2, <2>3, <2>4, <2>5
<1>8. {End(o, KeepsBatch, reason, {}) : o \in faults} \subseteq EndType
  BY <1>1, <1>3, <1>6
<1>9. SessionEnds(t, S) \subseteq EndType
  <2>1. {End(o, KeepsBatch, reason, s) : o \in errors, s \in three} \subseteq EndType
    BY <1>2, <1>3, <1>5
  <2>2. SessionEnds(t, S) = {End(o, KeepsBatch, reason, s) : o \in errors, s \in three}
          \cup {End(o, KeepsBatch, reason, {}) : o \in faults}
    BY DEF SessionEnds, reason, errors, three, faults
  <2> QED
    BY <1>8, <2>1, <2>2
<1>10. PromptEnds(t, S) \subseteq EndType
  <2> DEFINE A == {End("ok", FALSE, reason, s) : s \in after}
             B == {End(o, KeepsBatch, reason, s) : o \in errors, s \in after}
             C == {End(o, KeepsBatch, reason, {}) : o \in faults}
  <2>1. B \subseteq EndType
    BY <1>2, <1>3, <1>5
  <2>2. A \subseteq EndType
    BY <1>2, <1>3, <1>4
  <2>3. C \subseteq EndType
    BY <1>8
  <2>4. PromptEnds(t, S) = A \cup B \cup C
    BY DEF PromptEnds, reason, errors, after, faults
  <2> HIDE DEF A, B, C
  <2> QED
    BY <2>1, <2>2, <2>3, <2>4
<1>11. StopEnds(t, S) \subseteq EndType
  <2>1. PICK kept \in BOOLEAN : kept = (KeepsBatch /\ t.control \notin {"Cancel", "Rotate"})
    OBVIOUS
  <2>2. PICK why \in CancelReasons \cup {"none"} : why = IF t.control = "Steer" THEN "Steer" ELSE "Interrupt"
    BY <1>1
  <2> DEFINE left == S \ {t.conv}
  <2>3. left \in SUBSET Conversations /\ {} \in SUBSET Conversations
    OBVIOUS
  <2> HIDE DEF left
  <2>4. /\ {End(o, kept, why, left) : o \in {"cancelled", "app_error", "auth_error"}} \subseteq EndType
        /\ {End(o, kept, why, {}) : o \in {"drain_timeout", "exited", "idle_timeout", "transport"}}
             \subseteq EndType
    BY <1>3, <1>6, <2>3
  <2>5. StopEnds(t, S) \subseteq {End(o, kept, why, left) : o \in {"cancelled", "app_error", "auth_error"}}
          \cup {End(o, kept, why, {}) : o \in {"drain_timeout", "exited", "idle_timeout", "transport"}}
    BY <2>1, <2>2 DEF StopEnds, left
  <2> QED
    BY <2>4, <2>5
<1> QED
  BY <1>7, <1>9, <1>10, <1>11 DEF TurnEnds

\* Every end of a heartbeat.
LEMMA HeartbeatEndsTyped ==
  ASSUME NEW S \in SUBSET Conversations, NEW end \in HeartbeatEnds(S)
  PROVE  end \in EndType
<1>1. PICK o \in {"ok", "app_error"} \cup (FatalOutcomes \ {"drain_timeout"}) :
        end = [outcome |-> o, returned |-> FALSE, reason |-> "none",
               sessions |-> IF o \in FatalOutcomes THEN {} ELSE S]
  BY DEF HeartbeatEnds
<1>2. o \in ReturningOutcomes \cup FatalOutcomes
  BY DEF ReturningOutcomes
<1>3. PICK T \in SUBSET Conversations : T = IF o \in FatalOutcomes THEN {} ELSE S
  OBVIOUS
<1> QED
  BY <1>1, <1>2, <1>3 DEF EndType

\* A turn that ends.
LEMMA EndedOK ==
  ASSUME NEW t, NEW n, TaskOK(t, n), NEW end \in EndType
  PROVE  TaskOK(Ended(t, end), n)
<1> DEFINE r == Ended(t, end)
           b == [t.batch EXCEPT !.cancel_reason = end.reason]
<1>1. /\ t \in TaskType /\ t.batch \in FlushBatch /\ end.outcome \in ReturningOutcomes \cup FatalOutcomes
      /\ end.returned \in BOOLEAN /\ end.reason \in CancelReasons \cup {"none"}
  BY DEF TaskOK, TaskType, EndType
<1>2. /\ b \in FlushBatch /\ b.events = t.batch.events /\ b.cancelled_events = t.batch.cancelled_events
  BY <1>1 DEF FlushBatch
<1>3. r = [t EXCEPT !.phase = "done", !.outcome = end.outcome, !.returned = end.returned, !.steers = {},
                    !.batch = b]
  BY DEF Ended
<1> HIDE DEF b, r
<1>4. r \in TaskType /\ r.batch = b /\ r.steers = {}
  BY <1>1, <1>2, <1>3 DEF TaskType, Phases
<1>5. BatchStamped(b, n)
  BY <1>2 DEF TaskOK, BatchStamped
<1> QED
  BY <1>4, <1>5 DEF TaskOK, r


-----------------------------------------------------------------------------
(* Every step keeps the types *)

\* The parts of the state that only the main loop's own bookkeeping touches.
LEMMA TasksKept ==
  ASSUME TypeInv, UNCHANGED tasks, clock' \in {clock, clock + 1}
  PROVE  TasksTyped'
<1>1. clock \in Nat
  BY DEF TypeInv, TimeTyped
<1>2. \A a \in Agents : TaskOK(tasks[a], clock')
  BY <1>1, LaterTask DEF TypeInv, TasksTyped
<1> QED
  BY <1>2 DEF TypeInv, TasksTyped

\* One slot gets another task.
LEMMA TaskReplaced ==
  ASSUME TypeInv, NEW a \in Agents, NEW t, TaskOK(t, clock),
         tasks' = [tasks EXCEPT ![a] = t], clock' \in {clock, clock + 1}
  PROVE  TasksTyped'
<1>1. clock \in Nat /\ tasks \in [Agents -> TaskType] /\ t \in TaskType
  BY DEF TypeInv, TimeTyped, TasksTyped, TaskOK
<1>2. \A b \in Agents : TaskOK(tasks[b], clock')
  BY <1>1, LaterTask DEF TypeInv, TasksTyped
<1>3. TaskOK(t, clock')
  BY <1>1, LaterTask
<1>4. tasks' \in [Agents -> TaskType] /\ tasks'[a] = t /\ \A b \in Agents \ {a} : tasks'[b] = tasks[b]
  BY <1>1
<1>5. \A b \in Agents : TaskOK(tasks'[b], clock')
  BY <1>2, <1>3, <1>4
<1> QED
  BY <1>4, <1>5 DEF TasksTyped

\* A signal.
LEMMA SignalTyped ==
  ASSUME TypeInv, NEW targets \in SUBSET Agents, NEW s \in Signals, SendSignal(targets, s),
         clock' \in {clock, clock + 1}
  PROVE  TasksTyped'
<1>1. CASE UNCHANGED tasks
  BY <1>1, TasksKept
<1>2. CASE \E a \in targets : tasks' = [tasks EXCEPT ![a] = Signalled(@, s)]
  <2>1. PICK a \in Agents : tasks' = [tasks EXCEPT ![a] = Signalled(tasks[a], s)]
    BY <1>2
  <2>2. TaskOK(Signalled(tasks[a], s), clock)
    BY SignalledOK DEF TypeInv, TasksTyped
  <2> QED
    BY <2>1, <2>2, TaskReplaced
<1> QED
  BY <1>1, <1>2 DEF SendSignal

\* The parked batches.
LEMMA WaitingKept ==
  ASSUME TypeInv, UNCHANGED waiting, clock' \in {clock, clock + 1}
  PROVE  WaitingTyped'
<1>1. clock \in Nat /\ waiting \in Seq(FlushBatch)
  BY DEF TypeInv, TimeTyped, WaitingTyped
<1>2. ASSUME NEW i \in 1 .. Len(waiting) PROVE BatchStamped(waiting[i], clock')
  <2>1. waiting[i] \in FlushBatch /\ BatchStamped(waiting[i], clock)
    BY <1>1, ElementOfSeq DEF TypeInv, WaitingTyped
  <2> QED
    BY <1>1, <2>1, LaterBatch
<1> QED
  BY <1>1, <1>2 DEF WaitingTyped

\* A queue step at an unchanged clock.
LEMMA QueueStepTyped ==
  ASSUME TypeInv, QueueOK(q', clock), pc' \in LoopSteps,
         UNCHANGED <<clock, matured, poolVars, slotVars, acks, removed, heartbeatInFlight, waiting>>
  PROVE  TypeInv'
<1>1. UNCHANGED <<clock, matured, tasks, idle, sessions, checkedOut, circuits, respawning, acks,
                  removed, heartbeatInFlight, waiting>>
  BY DEF poolVars, slotVars
<1>2. clock' \in {clock, clock + 1}
  BY <1>1
<1>3. TasksTyped' /\ WaitingTyped'
  BY <1>1, <1>2, TasksKept, WaitingKept
<1>4. QueueOK(q', clock')
  BY <1>1
<1>5. PoolTyped' /\ SlotsTyped' /\ RestTyped' /\ TimeTyped'
  BY <1>1 DEF TypeInv, PoolTyped, SlotsTyped, RestTyped, TimeTyped
<1> QED
  BY <1>3, <1>4, <1>5 DEF TypeInv

\* A step that leaves the queue, its clock and the parked batches alone.
LEMMA PoolStepTyped ==
  ASSUME TypeInv, UNCHANGED <<queueVars, waiting>>, TasksTyped', PoolTyped', SlotsTyped', RestTyped'
  PROVE  TypeInv'
<1>1. UNCHANGED <<q, clock, matured, waiting>>
  BY DEF queueVars
<1>2. clock' \in {clock, clock + 1}
  BY <1>1
<1>3. WaitingTyped'
  BY <1>1, <1>2, WaitingKept
<1>4. QueueOK(q', clock') /\ TimeTyped'
  BY <1>1 DEF TypeInv, TimeTyped
<1> QED
  BY <1>3, <1>4 DEF TypeInv

\* push with the signal or the steer it sends.
LEMMA IngestTyped ==
  ASSUME TypeInv, NEW e \in Events, NEW x \in BOOLEAN, Ingest(e, x)
  PROVE  TypeInv'
<1> DEFINE c == ConvOf[e]
           pushed == Push(q, e, clock + 1, x, FALSE)
<1>1. /\ clock \in Nat /\ c \in Conversations /\ "Interrupt" \in Signals /\ matured \in 0 .. clock
      /\ QueueOK(q, clock) /\ tasks \in [Agents -> TaskType]
  BY QueueAssumption DEF TypeInv, TimeTyped, TasksTyped, Signals
<1>2. /\ UNCHANGED <<matured, idle, sessions, checkedOut, circuits, respawning, acks, removed,
                     heartbeatInFlight, waiting>>
      /\ pc' = "dispatch"
  BY DEF Ingest, slotVars
<1>3. PoolTyped' /\ SlotsTyped' /\ RestTyped'
  BY <1>2 DEF TypeInv, PoolTyped, SlotsTyped, RestTyped, LoopSteps
<1>4. CASE UNCHANGED <<q, clock, tasks>>
  <2>1. TasksTyped' /\ WaitingTyped'
    BY <1>2, <1>4, TasksKept, WaitingKept
  <2>2. QueueOK(q', clock') /\ TimeTyped'
    BY <1>1, <1>2, <1>4 DEF TimeTyped
  <2> QED
    BY <1>3, <2>1, <2>2 DEF TypeInv
<1>5. CASE /\ clock' = clock + 1
           /\ q' \in {pushed, MarkNativeSteerPending(pushed, c, e)}
           /\ TasksTyped'
  <2>0. clock + 1 \in Nat
    BY <1>1
  <2>1. QueueOK(pushed, clock + 1)
    BY <1>1, PushOK, Zenon
  <2> HIDE DEF pushed
  <2>2. QueueOK(MarkNativeSteerPending(pushed, c, e), clock + 1)
    BY <1>1, <2>0, <2>1, WithholdOK
  <2>3. QueueOK(q', clock')
    BY <1>5, <2>1, <2>2
  <2>4. WaitingTyped'
    BY <1>2, <1>5, WaitingKept
  <2>5. TimeTyped'
    BY <1>1, <1>2, <1>5 DEF TimeTyped
  <2> QED
    BY <1>3, <1>5, <2>3, <2>4, <2>5 DEF TypeInv
<1>6. ASSUME clock' = clock + 1, UNCHANGED tasks PROVE TasksTyped'
  BY <1>6, TasksKept
<1>7. ASSUME clock' = clock + 1, SendSignal(SignalTargets(c, Routing[c]), "Interrupt") PROVE TasksTyped'
  BY <1>1, <1>7, SignalTyped, TargetsAreAgents
<1>8. ASSUME clock' = clock + 1, NEW a \in TurnsOf(c), tasks[a].phase = "running",
             tasks' = [tasks EXCEPT ![a].steers = @ \cup {e}]
      PROVE  TasksTyped'
  <2>1. a \in Agents /\ tasks[a].conv = c /\ TaskOK(tasks[a], clock) /\ tasks[a] \in TaskType
    BY <1>1 DEF TurnsOf, TypeInv, TasksTyped
  <2> DEFINE E == tasks[a].steers \cup {e}
             t == [tasks[a] EXCEPT !.steers = E]
  <2>2. E \in SUBSET Events
    BY <2>1 DEF TaskType
  <2>3. tasks' = [tasks EXCEPT ![a] = t]
    BY <1>8
  <2>4. TaskOK(t, clock)
    BY <1>1, <1>8, <2>1, <2>2, SteersOK
  <2> HIDE DEF t, E
  <2> QED
    BY <1>8, <2>1, <2>3, <2>4, TaskReplaced
<1> QED
  BY <1>4, <1>5, <1>6, <1>7, <1>8 DEF Ingest, NativeSteer

\* The expiry sweep and the retry timer.
LEMMA TimerTyped ==
  ASSUME TypeInv, NEW c \in Conversations, Expire(c) \/ RetryElapses(c)
  PROVE  TypeInv'
<1>1. QueueOK(q, clock) /\ QueueType(q) /\ pc \in LoopSteps
  BY DEF TypeInv, QueueOK, RestTyped
<1>2. CASE Expire(c)
  <2>1. QueueOK(q', clock)
    BY <1>1, <1>2, ExpireOK DEF Expire
  <2> QED
    BY <1>1, <1>2, <2>1, QueueStepTyped DEF Expire, loopVars
<1>3. CASE RetryElapses(c)
  <2>1. QueueOK(q', clock)
    BY <1>1, <1>3, ThrottleOps, SameEventsOK DEF RetryElapses, OnlyThrottles
  <2> QED
    BY <1>1, <1>3, <2>1, QueueStepTyped DEF RetryElapses, loopVars
<1> QED
  BY <1>2, <1>3

\* A deadline that passes under a turn that is not yet handled.
LEMMA DeadlineTyped ==
  ASSUME TypeInv, NEW a \in Agents, DeadlinePasses(a)
  PROVE  TypeInv'
<1>1. QueueOK(q, clock) /\ QueueType(q) /\ pc \in LoopSteps
  BY DEF TypeInv, QueueOK, RestTyped
<1>2. tasks[a].conv \in Conversations
  BY HarnessAssumption DEF DeadlinePasses
<1>3. QueueOK(q', clock)
  BY <1>1, <1>2, DeadlineProperties, SameEventsOK DEF DeadlinePasses
<1> QED
  BY <1>1, <1>3, QueueStepTyped DEF DeadlinePasses, loopVars

\* retry_turn pushes the event again, exempt from the hold.
LEMMA RetryTyped ==
  ASSUME TypeInv, NEW e \in Events, RetryTurn(e)
  PROVE  TypeInv'
<1> DEFINE k == ClearRetryAfter(q, ConvOf[e])
           pushed == Push(k, e, clock + 1, TRUE, FALSE)
<1>1. /\ clock \in Nat /\ ConvOf[e] \in Conversations /\ matured \in 0 .. clock /\ TRUE \in BOOLEAN
      /\ QueueOK(q, clock) /\ QueueType(q)
  BY QueueAssumption DEF TypeInv, TimeTyped, QueueOK
<1>2. QueueOK(k, clock)
  BY <1>1, ThrottleOps, SameEventsOK DEF OnlyThrottles
<1> HIDE DEF k
<1>3. QueueOK(pushed, clock + 1)
  BY <1>1, <1>2, PushOK, Zenon
<1>4. \/ q' = pushed /\ clock' = clock + 1
      \/ q' = k /\ clock' = clock
  BY DEF RetryTurn, k
<1> HIDE DEF pushed
<1>5. QueueOK(q', clock') /\ clock' \in {clock, clock + 1}
  BY <1>2, <1>3, <1>4
<1>6. UNCHANGED <<matured, tasks, idle, sessions, checkedOut, circuits, respawning, acks, removed,
                  heartbeatInFlight, waiting, pc>>
  BY DEF RetryTurn, slotVars, poolVars, loopVars
<1>7. PoolTyped' /\ SlotsTyped' /\ RestTyped'
  BY <1>6 DEF TypeInv, PoolTyped, SlotsTyped, RestTyped
<1>8. TasksTyped' /\ WaitingTyped'
  BY <1>5, <1>6, TasksKept, WaitingKept
<1>9. TimeTyped'
  BY <1>1, <1>5, <1>6 DEF TimeTyped
<1> QED
  BY <1>5, <1>7, <1>8, <1>9 DEF TypeInv

\* The acks a dying turn leaves behind are acks.
LEMMA NeutralTyped ==
  ASSUME TypeInv, NEW a \in Agents
  PROVE  Neutral(a) \subseteq [channel_id : Conversations, event_id : Events, kind : AckKinds]
<1>1. TaskOK(tasks[a], clock) /\ tasks[a] \in TaskType
  BY DEF TypeInv, TasksTyped
<1>2. tasks[a].steers \subseteq Events
  BY <1>1 DEF TaskType
<1>3. tasks[a].steers # {} => tasks[a].conv \in Conversations
  BY <1>1 DEF TaskOK
<1> QED
  BY <1>2, <1>3 DEF Neutral, AckKinds

\* What a prompt task does: it ends or panics.
LEMMA TaskEndTyped ==
  ASSUME TypeInv, NEW a \in Agents, FinishTurn(a) \/ PanicTurn(a)
  PROVE  TypeInv'
<1>1. /\ TaskOK(tasks[a], clock) /\ tasks[a] \in TaskType /\ clock' \in {clock, clock + 1}
      /\ sessions \in [Agents -> SUBSET Conversations] /\ sessions[a] \in SUBSET Conversations
  BY DEF TypeInv, TasksTyped, PoolTyped, FinishTurn, PanicTurn, queueVars
<1>2. UNCHANGED <<queueVars, idle, checkedOut, circuits, respawning, removed, heartbeatInFlight, pc,
                  waiting>>
  BY DEF FinishTurn, PanicTurn, slotVars, loopVars
<1>3. SlotsTyped'
  BY <1>2 DEF TypeInv, SlotsTyped
<1>4. CASE FinishTurn(a)
  <2>1. PICK end \in IF tasks[a].conv = Heartbeat THEN HeartbeatEnds(sessions[a])
                     ELSE TurnEnds(tasks[a], sessions[a]) :
          /\ tasks' = [tasks EXCEPT ![a] = Ended(tasks[a], end)]
          /\ sessions' = [sessions EXCEPT ![a] = end.sessions]
    BY <1>4 DEF FinishTurn
  <2>2. end \in EndType
    <3>1. CASE tasks[a].conv = Heartbeat
      BY <1>1, <2>1, <3>1, HeartbeatEndsTyped
    <3>2. CASE tasks[a].conv # Heartbeat
      <4>1. tasks[a].conv \in Conversations
        BY <1>1, <3>2 DEF TaskType
      <4> QED
        BY <1>1, <2>1, <3>2, <4>1, EndsTyped
    <3> QED
      BY <3>1, <3>2
  <2>3. TaskOK(Ended(tasks[a], end), clock)
    BY <1>1, <2>2, EndedOK
  <2>4. TasksTyped'
    BY <1>1, <2>1, <2>3, TaskReplaced
  <2>5. end.sessions \in SUBSET Conversations
    BY <2>2 DEF EndType
  <2>6. PoolTyped'
    BY <1>1, <1>2, <2>1, <2>5 DEF TypeInv, PoolTyped
  <2>7. RestTyped'
    BY <1>2, <1>4, NeutralTyped DEF TypeInv, RestTyped, FinishTurn
  <2> QED
    BY <1>2, <1>3, <2>4, <2>6, <2>7, PoolStepTyped
<1>5. CASE PanicTurn(a)
  <2>1. tasks' = [tasks EXCEPT ![a] = [tasks[a] EXCEPT !.phase = "panicked", !.steers = {}]]
    BY <1>1, <1>5 DEF PanicTurn, TypeInv, TasksTyped
  <2>2. TaskOK([tasks[a] EXCEPT !.phase = "panicked", !.steers = {}], clock)
    BY <1>1, PanickedOK
  <2>3. TasksTyped'
    BY <1>1, <2>1, <2>2, TaskReplaced
  <2>4. PoolTyped'
    BY <1>2, <1>5 DEF TypeInv, PoolTyped, PanicTurn
  <2>5. RestTyped'
    BY <1>2, <1>5, NeutralTyped DEF TypeInv, RestTyped, PanicTurn
  <2> QED
    BY <1>2, <1>3, <2>3, <2>4, <2>5, PoolStepTyped
<1> QED
  BY <1>4, <1>5

\* The read loop answers a steer request.
LEMMA AnswerTyped ==
  ASSUME TypeInv, NEW a \in Agents, NEW e \in Events, NEW kind \in AckKinds, AnswerSteer(a, e, kind)
  PROVE  TypeInv'
<1>1. /\ TaskOK(tasks[a], clock) /\ tasks[a] \in TaskType /\ clock' \in {clock, clock + 1}
  BY DEF TypeInv, TasksTyped, AnswerSteer, queueVars
<1>2. UNCHANGED <<queueVars, idle, checkedOut, circuits, respawning, removed, heartbeatInFlight, pc,
                  waiting>>
  BY DEF AnswerSteer, slotVars, loopVars
<1>3. SlotsTyped'
  BY <1>2 DEF TypeInv, SlotsTyped
<1> DEFINE E == tasks[a].steers \ {e}
<1>4. E \in SUBSET Events /\ tasks[a].conv \in Conversations /\ tasks[a].phase = "running"
  BY <1>1 DEF AnswerSteer, TaskOK, TaskType
<1>5. tasks' = [tasks EXCEPT ![a] = [tasks[a] EXCEPT !.steers = E]]
  BY DEF AnswerSteer
<1> HIDE DEF E
<1>6. TaskOK([tasks[a] EXCEPT !.steers = E], clock)
  BY <1>1, <1>4, SteersOK
<1>7. TasksTyped'
  BY <1>1, <1>5, <1>6, TaskReplaced
<1>8. PoolTyped'
  BY <1>2 DEF TypeInv, PoolTyped, AnswerSteer
<1>9. [channel_id |-> tasks[a].conv, event_id |-> e, kind |-> kind]
        \in [channel_id : Conversations, event_id : Events, kind : AckKinds]
  BY <1>4
<1>10. RestTyped'
  BY <1>2, <1>9 DEF TypeInv, RestTyped, AnswerSteer
<1> QED
  BY <1>2, <1>3, <1>7, <1>8, <1>10, PoolStepTyped

\* Sessions are only ever forgotten.
LEMMA ForgetTyped ==
  ASSUME sessions \in [Agents -> SUBSET Conversations], NEW as, NEW cs
  PROVE  Forget(as, cs) \in [Agents -> SUBSET Conversations]
  BY DEF Forget

\* The owner's controls: a signal, sessions forgotten, or a queue drained.
LEMMA OwnerTyped ==
  ASSUME TypeInv, NEW c \in Conversations, NEW s \in OwnerSignals, OwnerControl(c, s)
  PROVE  TypeInv'
<1>1. /\ clock' \in {clock, clock + 1} /\ "Cancel" \in Signals /\ "SwitchModel" \in Signals
      /\ s \in Signals /\ sessions \in [Agents -> SUBSET Conversations]
      /\ UNCHANGED <<clock, matured, idle, checkedOut, circuits, respawning, acks, removed,
                     heartbeatInFlight, pc, waiting>>
  BY HarnessAssumption
  DEF TypeInv, PoolTyped, Signals, OwnerControl, OwnerCommand, ObserverCancel, ObserverSwitchModel,
      queueVars, slotVars, loopVars
<1>2. \/ UNCHANGED tasks
      \/ \E r \in Signals : SendSignal(SignalTargets(c, Routing[c]), r) \/ SendSignal(TurnsOf(c), r)
  BY <1>1 DEF OwnerControl, OwnerCommand, ObserverCancel, ObserverSwitchModel
<1>3. TasksTyped'
  BY <1>1, <1>2, TasksKept, SignalTyped, TargetsAreAgents
<1>4. sessions' = sessions \/ \E as, cs : sessions' = Forget(as, cs)
  BY DEF OwnerControl, OwnerCommand, ObserverCancel, ObserverSwitchModel
<1>5. PoolTyped' /\ SlotsTyped' /\ RestTyped' /\ TimeTyped'
  BY <1>1, <1>4, ForgetTyped DEF TypeInv, PoolTyped, SlotsTyped, RestTyped, TimeTyped
<1>6. q' = q \/ q' = DrainChannels(q, {c})
  BY DEF OwnerControl, OwnerCommand, ObserverCancel, ObserverSwitchModel, queueVars
<1>7. QueueOK(q', clock')
  BY <1>1, <1>6, DrainOK DEF TypeInv
<1>8. WaitingTyped'
  BY <1>1, WaitingKept
<1> QED
  BY <1>3, <1>5, <1>7, <1>8 DEF TypeInv

\* Membership changes.
LEMMA MembershipTyped ==
  ASSUME TypeInv, NEW ch \in Membership, RemoveChannel(ch) \/ AddChannel(ch)
  PROVE  TypeInv'
<1>1. /\ clock' \in {clock, clock + 1} /\ ch \in Channels
      /\ sessions \in [Agents -> SUBSET Conversations]
      /\ UNCHANGED <<clock, matured, idle, checkedOut, tasks, circuits, respawning, acks,
                     heartbeatInFlight, pc, waiting>>
  BY HarnessAssumption
  DEF TypeInv, PoolTyped, RemoveChannel, AddChannel, queueVars, slotVars, loopVars, poolVars
<1>2. sessions' = sessions \/ \E as, cs : sessions' = Forget(as, cs)
  BY DEF RemoveChannel, AddChannel, poolVars
<1>3. removed' = removed \cup {ch} \/ removed' = removed \ {ch}
  BY DEF RemoveChannel, AddChannel
<1>4. PoolTyped' /\ SlotsTyped' /\ RestTyped' /\ TimeTyped'
  BY <1>1, <1>2, <1>3, ForgetTyped DEF TypeInv, PoolTyped, SlotsTyped, RestTyped, TimeTyped
<1>5. q' = q \/ q' = DrainChannels(q, RoutedWork(q, ch))
  BY DEF RemoveChannel, AddChannel, queueVars
<1>6. QueueOK(q', clock')
  BY <1>1, <1>5, DrainOK DEF TypeInv
<1>7. TasksTyped' /\ WaitingTyped'
  BY <1>1, TasksKept, WaitingKept
<1> QED
  BY <1>4, <1>6, <1>7 DEF TypeInv

\* A steer ack removes or releases its event.
LEMMA AckTyped ==
  ASSUME TypeInv, NEW k \in acks, HandleSteerAck(k)
  PROVE  TypeInv'
<1> DEFINE c == k.channel_id
<1>1. /\ clock' \in {clock, clock + 1} /\ clock \in Nat /\ c \in Conversations /\ "Steer" \in Signals
      /\ QueueOK(q, clock) /\ QueueType(q)
      /\ UNCHANGED <<clock, matured, idle, sessions, checkedOut, circuits, respawning, removed,
                     heartbeatInFlight, waiting>>
      /\ pc' = "dispatch" /\ acks' \subseteq acks
  BY DEF TypeInv, TimeTyped, RestTyped, QueueOK, Signals, HandleSteerAck, slotVars
<1>2. TasksTyped'
  BY <1>1, TasksKept, SignalTyped, TargetsAreAgents DEF HandleSteerAck
<1>3. PoolTyped' /\ SlotsTyped' /\ RestTyped' /\ TimeTyped'
  BY <1>1 DEF TypeInv, PoolTyped, SlotsTyped, RestTyped, TimeTyped, LoopSteps
<1>4. q' = RemoveEvent(ExtendInFlightDeadline(q, c), c, k.event_id)
        \/ q' = ReleaseNativeSteer(q, c, k.event_id)
  BY DEF HandleSteerAck
<1> HIDE DEF c
<1>5. QueueOK(ExtendInFlightDeadline(q, c), clock)
  BY <1>1, ExtendProperties, SameEventsOK
<1>6. QueueOK(q', clock')
  BY <1>1, <1>4, <1>5, EditOK, ReleaseOK
<1>7. WaitingTyped'
  BY <1>1, WaitingKept
<1> QED
  BY <1>2, <1>3, <1>6, <1>7 DEF TypeInv

\* A requeued batch that found no agent, and its unlock.
LEMMA UndispatchedOK ==
  ASSUME NEW k, NEW n, QueueOK(k, n), NEW b \in FlushBatch, BatchStamped(b, n), NEW c \in Conversations
  PROVE  /\ QueueOK(MarkComplete(RequeuePreserveTimestamps(k, b), c), n)
         /\ QueueOK(MarkComplete(Requeue(k, b), c), n)
         /\ QueueOK(MarkComplete(k, c), n)
<1>1. ASSUME NEW r, QueueOK(r, n) PROVE QueueOK(MarkComplete(r, c), n)
  <2>1. QueueType(r)
    BY <1>1 DEF QueueOK
  <2> QED
    BY <1>1, <2>1, MarkCompleteProperties, SameEventsOK
<1> QED
  BY <1>1, RequeueOK

\* A claimed agent.
LEMMA StartTyped ==
  ASSUME TypeInv, NEW a \in Agents, NEW c \in Conversations \cup {Heartbeat}, NEW b \in FlushBatch,
         BatchStamped(b, clock), NEW ctl \in Controls, StartTurn(a, c, b, ctl),
         clock' \in {clock, clock + 1}
  PROVE  TasksTyped' /\ PoolTyped'
<1> DEFINE t == [NoTask EXCEPT !.phase = "running", !.conv = c, !.batch = b, !.control = ctl]
<1>1. TaskOK(t, clock)
  BY StartedOK
<1>2. tasks' = [tasks EXCEPT ![a] = t]
  BY DEF StartTurn
<1> HIDE DEF t
<1>3. TasksTyped'
  BY <1>1, <1>2, TaskReplaced
<1>4. PoolTyped'
  BY DEF TypeInv, PoolTyped, StartTurn
<1> QED
  BY <1>3, <1>4

\* One iteration of dispatch_pending.
LEMMA DispatchTyped ==
  ASSUME TypeInv, NEW c \in Conversations, DispatchBatch(c)
  PROVE  TypeInv'
<1>1. /\ clock' \in {clock, clock + 1} /\ clock \in Nat /\ QueueOK(q, clock)
      /\ idle \subseteq Agents /\ waiting \in Seq(FlushBatch)
      /\ UNCHANGED <<clock, matured, circuits, respawning, acks, removed, heartbeatInFlight>>
      /\ "open" \in Controls /\ "requeue" \in LoopSteps
  BY DEF TypeInv, TimeTyped, PoolTyped, WaitingTyped, DispatchBatch, slotVars, Controls, LoopSteps
<1>2. PICK b, flushed : b = BatchFor(q, matured, c) /\ flushed = Flushed(q, matured, c)
  OBVIOUS
<1>3. QueueOK(flushed, clock) /\ b \in FlushBatch /\ b.channel_id = c /\ BatchStamped(b, clock)
  BY <1>1, <1>2, FlushOK
<1>4. SlotsTyped' /\ TimeTyped'
  BY <1>1 DEF TypeInv, SlotsTyped, TimeTyped
<1>5. CASE /\ q' = flushed
           /\ waiting' = Append(waiting, b)
           /\ UNCHANGED <<poolVars, pc>>
  <2>1. TasksTyped' /\ PoolTyped' /\ RestTyped'
    BY <1>1, <1>5, TasksKept DEF TypeInv, PoolTyped, RestTyped, poolVars
  <2>2. /\ waiting' \in Seq(FlushBatch) /\ Len(waiting') = Len(waiting) + 1 /\ Len(waiting) \in Nat
        /\ \A i \in 1 .. Len(waiting) : waiting'[i] = waiting[i]
        /\ waiting'[Len(waiting) + 1] = b
    BY <1>1, <1>3, <1>5, AppendProperties
  <2>3. ASSUME NEW i \in 1 .. Len(waiting') PROVE BatchStamped(waiting'[i], clock')
    <3>1. i \in 1 .. Len(waiting) \/ i = Len(waiting) + 1
      BY <2>2
    <3> QED
      BY <1>1, <1>3, <2>2, <3>1 DEF TypeInv, WaitingTyped
  <2>4. WaitingTyped'
    BY <2>2, <2>3 DEF WaitingTyped
  <2> QED
    BY <1>1, <1>3, <1>4, <1>5, <2>1, <2>4 DEF TypeInv
<1>6. CASE /\ q' = flushed
           /\ \E a \in ClaimChoices(c) : StartTurn(a, c, b, "open")
           /\ UNCHANGED loopVars
  <2>1. PICK a \in Agents : StartTurn(a, c, b, "open")
    BY <1>1, <1>6 DEF ClaimChoices
  <2>2. TasksTyped' /\ PoolTyped'
    BY <1>1, <1>3, <2>1, StartTyped
  <2>3. RestTyped' /\ WaitingTyped'
    BY <1>1, <1>6, WaitingKept DEF TypeInv, RestTyped, loopVars
  <2> QED
    BY <1>1, <1>3, <1>4, <1>6, <2>2, <2>3 DEF TypeInv
<1>7. CASE /\ q' = MarkComplete(RequeuePreserveTimestamps(flushed, b), c)
           /\ pc' = "requeue"
           /\ UNCHANGED <<poolVars, waiting>>
  <2>1. QueueOK(q', clock')
    BY <1>1, <1>3, <1>7, UndispatchedOK
  <2>2. TasksTyped' /\ PoolTyped' /\ RestTyped' /\ WaitingTyped'
    BY <1>1, <1>7, TasksKept, WaitingKept DEF TypeInv, PoolTyped, RestTyped, poolVars
  <2> QED
    BY <1>4, <2>1, <2>2 DEF TypeInv
<1> QED
  BY <1>2, <1>5, <1>6, <1>7 DEF DispatchBatch

\* The loop over the parked batches.
LEMMA RequeueTyped ==
  ASSUME TypeInv, RequeueWaiting
  PROVE  TypeInv'
<1>1. /\ clock' \in {clock, clock + 1} /\ clock \in Nat /\ QueueOK(q, clock)
      /\ waiting \in Seq(FlushBatch) /\ "select" \in LoopSteps /\ pc \in LoopSteps
      /\ UNCHANGED <<clock, matured, poolVars, slotVars, acks, removed, heartbeatInFlight>>
  BY DEF TypeInv, TimeTyped, WaitingTyped, RequeueWaiting, LoopSteps, RestTyped
<1>2. CASE waiting = <<>>
  <2>1. pc' \in LoopSteps /\ q' = q /\ UNCHANGED waiting
    BY <1>1, <1>2 DEF RequeueWaiting
  <2> QED
    BY <1>1, <2>1, QueueStepTyped
<1>3. CASE waiting # <<>>
  <2>1. PICK b : b = Head(waiting)
    OBVIOUS
  <2>2. /\ q' = MarkComplete(RequeuePreserveTimestamps(q, b), b.channel_id)
        /\ waiting' = Tail(waiting) /\ pc' = pc
    BY <1>3, <2>1 DEF RequeueWaiting
  <2>3. /\ Tail(waiting) \in Seq(FlushBatch) /\ Len(Tail(waiting)) = Len(waiting) - 1
        /\ Len(waiting) \in Nat /\ Len(waiting) >= 1 /\ b = waiting[1]
        /\ \A i \in 1 .. Len(Tail(waiting)) : Tail(waiting)[i] = waiting[i + 1]
    BY <1>1, <1>3, <2>1, HeadTailProperties, LenProperties, EmptySeq
  <2>4. b \in FlushBatch /\ BatchStamped(b, clock) /\ b.channel_id \in Conversations
    <3>1. 1 \in 1 .. Len(waiting)
      BY <2>3
    <3>2. waiting[1] \in FlushBatch
      BY <1>1, <3>1, ElementOfSeq
    <3> QED
      BY <2>3, <3>1, <3>2, BatchTypes DEF TypeInv, WaitingTyped
  <2>5. QueueOK(q', clock')
    BY <1>1, <2>2, <2>4, UndispatchedOK
  <2>6. ASSUME NEW i \in 1 .. Len(Tail(waiting)) PROVE BatchStamped(Tail(waiting)[i], clock)
    <3>1. i + 1 \in 1 .. Len(waiting)
      BY <2>3
    <3> QED
      BY <2>3, <3>1 DEF TypeInv, WaitingTyped
  <2>7. WaitingTyped'
    BY <1>1, <2>2, <2>3, <2>6 DEF WaitingTyped
  <2>8. TasksTyped' /\ PoolTyped' /\ SlotsTyped' /\ RestTyped' /\ TimeTyped'
    BY <1>1, <2>2, TasksKept
    DEF TypeInv, PoolTyped, SlotsTyped, RestTyped, TimeTyped, poolVars, slotVars
  <2> QED
    BY <2>5, <2>7, <2>8 DEF TypeInv
<1> QED
  BY <1>2, <1>3


\* What becomes of the batch a result carries.
LEMMA ResultOK ==
  ASSUME TypeInv, NEW a \in Agents, tasks[a].conv \in Conversations
  PROVE  QueueOK(RequeueResult(tasks[a]), clock)
<1> DEFINE t == tasks[a]
           b == tasks[a].batch
           reason == IF b.cancel_reason = "none" THEN "Steer" ELSE b.cancel_reason
<1>1. /\ QueueOK(q, clock) /\ QueueType(q) /\ t \in TaskType /\ b \in FlushBatch
      /\ BatchStamped(b, clock)
  BY DEF TypeInv, QueueOK, TasksTyped, TaskOK, TaskType
<1>2. reason \in CancelReasons
  BY <1>1 DEF FlushBatch, CancelReasons
<1>3. QueueOK(TakeBusyNotice(q, t.conv), clock)
  BY <1>1, ThrottleOps, SameEventsOK DEF OnlyThrottles
<1>4. QueueOK(Requeue(q, b), clock) /\ QueueOK(Requeue(TakeBusyNotice(q, t.conv), b), clock)
  BY <1>1, <1>3, RequeueOK
<1> HIDE DEF reason
<1>5. QueueOK(RequeueAsCancelled(q, b, reason), clock)
  BY <1>1, <1>2, CancelOK
<1>6. RequeueResult(t) \in {q, RequeueAsCancelled(q, b, reason),
                            Requeue(TakeBusyNotice(q, t.conv), b), Requeue(q, b)}
  BY DEF RequeueResult, reason
<1> QED
  BY <1>1, <1>4, <1>5, <1>6

\* A crash.
LEMMA CrashTyped ==
  ASSUME SlotsTyped, NEW a \in Agents, CrashSlot(a)
  PROVE  SlotsTyped'
<1>1. CrashLimit \in Nat \ {0} /\ circuits[a].crashes \in 0 .. CrashLimit
      /\ circuits[a].state \in {"closed", "open", "cooled"}
  BY HarnessAssumption DEF SlotsTyped
<1>2. /\ [crashes |-> CrashLimit - 1, state |-> "closed"]
           \in [crashes : 0 .. CrashLimit, state : {"closed", "open", "cooled"}]
      /\ [crashes |-> CrashLimit, state |-> "open"]
           \in [crashes : 0 .. CrashLimit, state : {"closed", "open", "cooled"}]
      /\ circuits[a] \in [crashes : 0 .. CrashLimit, state : {"closed", "open", "cooled"}]
      /\ ~(circuits[a].crashes + 1 >= CrashLimit) =>
           [crashes |-> circuits[a].crashes + 1, state |-> "closed"]
             \in [crashes : 0 .. CrashLimit, state : {"closed", "open", "cooled"}]
  BY <1>1 DEF SlotsTyped
<1>3. RecordCrash(circuits[a]) \in [crashes : 0 .. CrashLimit, state : {"closed", "open", "cooled"}]
  BY <1>2 DEF RecordCrash
<1>4. circuits' = [circuits EXCEPT ![a] = RecordCrash(circuits[a])] /\ respawning' \subseteq Agents
  BY DEF CrashSlot, SlotsTyped
<1> QED
  BY <1>3, <1>4 DEF SlotsTyped

\* A result or a panic that the main loop handles.
LEMMA EndTyped ==
  ASSUME TypeInv, NEW a \in Agents, HandleResult(a) \/ RecoverPanic(a)
  PROVE  TypeInv'
<1>1. /\ clock' \in {clock, clock + 1} /\ QueueOK(q, clock) /\ tasks[a] \in TaskType
      /\ tasks[a].batch \in FlushBatch /\ BatchStamped(tasks[a].batch, clock)
      /\ UNCHANGED <<clock, matured, acks, removed, waiting>>
      /\ tasks' = [tasks EXCEPT ![a] = NoTask] /\ pc' \in LoopSteps
      /\ sessions \in [Agents -> SUBSET Conversations] /\ checkedOut \in [Agents -> SUBSET Conversations]
      /\ idle \subseteq Agents /\ heartbeatInFlight \in BOOLEAN
  BY DEF TypeInv, TasksTyped, TaskOK, TaskType, PoolTyped, RestTyped, HandleResult, RecoverPanic,
         LoopSteps
<1>2. TasksTyped' /\ WaitingTyped' /\ TimeTyped'
  BY <1>1, NoTaskOK, TaskReplaced, WaitingKept DEF TypeInv, TimeTyped
<1>3. /\ idle' \subseteq Agents
      /\ sessions' \in [Agents -> SUBSET Conversations]
      /\ checkedOut' \in [Agents -> SUBSET Conversations]
  BY <1>1 DEF HandleResult, RecoverPanic, Stripped
<1>4. PoolTyped'
  BY <1>3 DEF PoolTyped
<1>5. CrashSlot(a) \/ UNCHANGED slotVars
  BY DEF HandleResult, RecoverPanic
<1>6. SlotsTyped'
  BY <1>5, CrashTyped DEF TypeInv, SlotsTyped, slotVars
<1>7. RestTyped'
  <2>1. heartbeatInFlight' \in BOOLEAN
    BY <1>1 DEF HandleResult, RecoverPanic, Complete
  <2> QED
    BY <1>1, <2>1 DEF TypeInv, RestTyped
<1>8. QueueOK(q', clock)
  <2>1. CASE tasks[a].conv = Heartbeat
    BY <1>1, <2>1 DEF HandleResult, RecoverPanic, Complete
  <2>2. CASE tasks[a].conv # Heartbeat
    <3>1. tasks[a].conv \in Conversations
      BY <1>1, <2>2 DEF TaskType
    <3>2. QueueOK(RequeueResult(tasks[a]), clock)
      BY <3>1, ResultOK
    <3>3. q' \in {MarkComplete(RequeueResult(tasks[a]), tasks[a].conv),
                  MarkComplete(Requeue(q, tasks[a].batch), tasks[a].conv),
                  MarkComplete(q, tasks[a].conv)}
      BY <2>2 DEF HandleResult, RecoverPanic, Complete
    <3> QED
      BY <1>1, <3>1, <3>2, <3>3, UndispatchedOK
  <2> QED
    BY <2>1, <2>2
<1> QED
  BY <1>1, <1>2, <1>4, <1>6, <1>7, <1>8 DEF TypeInv

\* Respawns, cool-downs and old crashes.
LEMMA SlotStepTyped ==
  ASSUME TypeInv, NEW a \in Agents, NEW success \in BOOLEAN,
         CollectRespawn(a, success) \/ CoolDown(a) \/ CrashAges(a)
  PROVE  TypeInv'
<1>1. /\ clock' \in {clock, clock + 1}
      /\ UNCHANGED <<queueVars, tasks, acks, removed, heartbeatInFlight, waiting>>
      /\ pc' \in LoopSteps
      /\ circuits \in [Agents -> [crashes : 0 .. CrashLimit, state : {"closed", "open", "cooled"}]]
      /\ circuits[a] \in [crashes : 0 .. CrashLimit, state : {"closed", "open", "cooled"}]
      /\ CrashLimit \in Nat
  BY HarnessAssumption
  DEF TypeInv, SlotsTyped, RestTyped, CollectRespawn, CoolDown, CrashAges, queueVars, poolVars,
      loopVars, LoopSteps
<1>2. TasksTyped' /\ RestTyped'
  BY <1>1, TasksKept DEF TypeInv, RestTyped
<1>3. PoolTyped'
  BY DEF TypeInv, PoolTyped, CollectRespawn, CoolDown, CrashAges, poolVars
<1>4. \/ circuits' = circuits
      \/ \E k \in [crashes : 0 .. CrashLimit, state : {"closed", "open", "cooled"}] :
           circuits' = [circuits EXCEPT ![a] = k]
  <2>1. CASE CollectRespawn(a, success)
    <3>1. [circuits[a] EXCEPT !.state = "open"]
            \in [crashes : 0 .. CrashLimit, state : {"closed", "open", "cooled"}]
      BY <1>1
    <3>2. circuits' = circuits \/ circuits' = [circuits EXCEPT ![a] = [circuits[a] EXCEPT !.state = "open"]]
      BY <2>1 DEF CollectRespawn
    <3> QED
      BY <3>1, <3>2
  <2>2. CASE CoolDown(a)
    <3>1. [circuits[a] EXCEPT !.state = "cooled"]
            \in [crashes : 0 .. CrashLimit, state : {"closed", "open", "cooled"}]
      BY <1>1
    <3>2. circuits' = [circuits EXCEPT ![a] = [circuits[a] EXCEPT !.state = "cooled"]]
      BY <2>2 DEF CoolDown
    <3> QED
      BY <3>1, <3>2
  <2>3. CASE CrashAges(a)
    <3>1. circuits[a].crashes - 1 \in 0 .. CrashLimit
      BY <1>1, <2>3 DEF CrashAges
    <3>2. [circuits[a] EXCEPT !.crashes = circuits[a].crashes - 1]
            \in [crashes : 0 .. CrashLimit, state : {"closed", "open", "cooled"}]
      BY <1>1, <3>1
    <3>3. circuits' = [circuits EXCEPT ![a] = [circuits[a] EXCEPT !.crashes = circuits[a].crashes - 1]]
      BY <2>3 DEF CrashAges
    <3> QED
      BY <3>2, <3>3
  <2> QED
    BY <2>1, <2>2, <2>3
<1>5. circuits' \in [Agents -> [crashes : 0 .. CrashLimit, state : {"closed", "open", "cooled"}]]
  BY <1>1, <1>4
<1>6. SlotsTyped'
  BY <1>5 DEF TypeInv, SlotsTyped, CollectRespawn, CoolDown, CrashAges
<1> QED
  BY <1>1, <1>2, <1>3, <1>6, PoolStepTyped

\* The maintenance tick.
LEMMA MaintainTyped ==
  ASSUME TypeInv, Maintain
  PROVE  TypeInv'
<1>1. /\ clock' \in {clock, clock + 1} /\ QueueOK(q, clock) /\ QueueType(q)
      /\ UNCHANGED <<clock, matured, poolVars, acks, removed, heartbeatInFlight, waiting>>
      /\ pc' \in LoopSteps
      /\ circuits \in [Agents -> [crashes : 0 .. CrashLimit, state : {"closed", "open", "cooled"}]]
      /\ CrashLimit \in Nat \ {0}
  BY HarnessAssumption DEF TypeInv, QueueOK, SlotsTyped, Maintain, LoopSteps
<1>2. QueueOK(CompactExpiredState(q), clock)
  BY <1>1, CompactProperties, SameEventsOK DEF OnlyThrottles
<1>3. QueueOK(q', clock')
  BY <1>1, <1>2 DEF Maintain
<1>4. [crashes |-> CrashLimit - 1, state |-> "closed"]
        \in [crashes : 0 .. CrashLimit, state : {"closed", "open", "cooled"}]
  BY <1>1
<1>5. circuits' \in [Agents -> [crashes : 0 .. CrashLimit, state : {"closed", "open", "cooled"}]]
  BY <1>1, <1>4 DEF Maintain
<1>6. SlotsTyped'
  BY <1>5 DEF TypeInv, SlotsTyped, Maintain
<1>7. TasksTyped' /\ WaitingTyped' /\ PoolTyped' /\ RestTyped' /\ TimeTyped'
  BY <1>1, TasksKept, WaitingKept DEF TypeInv, PoolTyped, RestTyped, TimeTyped, poolVars
<1> QED
  BY <1>3, <1>6, <1>7 DEF TypeInv

\* A heartbeat.
LEMMA HeartbeatTyped ==
  ASSUME TypeInv, HeartbeatFlush
  PROVE  TypeInv'
<1>1. /\ clock' \in {clock, clock + 1}
      /\ UNCHANGED <<queueVars, circuits, respawning, acks, removed, waiting>>
      /\ pc' \in LoopSteps /\ heartbeatInFlight' \in BOOLEAN /\ "closed" \in Controls
      /\ idle \subseteq Agents
  BY DEF TypeInv, PoolTyped, RestTyped, HeartbeatFlush, slotVars, queueVars, LoopSteps, Controls
<1>2. SlotsTyped' /\ RestTyped'
  BY <1>1 DEF TypeInv, SlotsTyped, RestTyped
<1>3. TasksTyped' /\ PoolTyped'
  <2>1. CASE UNCHANGED poolVars
    BY <1>1, <2>1, TasksKept DEF TypeInv, PoolTyped, poolVars
  <2>2. CASE \E a \in idle : StartTurn(a, Heartbeat, NoBatch(Blank), "closed")
    <3>1. PICK a \in Agents : StartTurn(a, Heartbeat, NoBatch(Blank), "closed")
      BY <1>1, <2>2
    <3>2. NoBatch(Blank) \in FlushBatch /\ BatchStamped(NoBatch(Blank), clock)
      BY NoTaskOK
    <3> QED
      BY <1>1, <3>1, <3>2, StartTyped
  <2> QED
    BY <2>1, <2>2 DEF HeartbeatFlush
<1> QED
  BY <1>1, <1>2, <1>3, PoolStepTyped

\* The dispatch hold: it elapses only up to the clock, and a held head is no younger.
LEMMA HoldTyped ==
  ASSUME TypeInv, HoldElapses \/ HoldWake
  PROVE  TypeInv'
<1>1. /\ clock' \in {clock, clock + 1} /\ clock \in Nat /\ matured \in 0 .. clock /\ matured' = matured + 1
      /\ UNCHANGED <<q, clock, poolVars, slotVars, acks, removed, heartbeatInFlight, waiting>>
      /\ pc' \in LoopSteps
  BY DEF TypeInv, TimeTyped, RestTyped, HoldElapses, HoldWake, loopVars, LoopSteps
<1>2. matured + 1 <= clock
  <2>1. CASE HoldElapses
    BY <1>1, <2>1 DEF HoldElapses
  <2>2. CASE HoldWake
    <3>1. PICK d \in Conversations : q.queues[d] # <<>> /\ matured + 1 = Head(q.queues[d]).received_at
      BY <2>2 DEF HoldWake, HeldHeads
    <3>2. q.queues[d] \in Seq(Entry) /\ Stamped(q.queues[d], clock)
      BY ListTypes DEF TypeInv, QueueOK, ListsStamped
    <3>3. Len(q.queues[d]) \in Nat \ {0} /\ Head(q.queues[d]) = q.queues[d][1]
      BY <3>1, <3>2, LenProperties, EmptySeq, HeadTailProperties
    <3>4. 1 \in 1 .. Len(q.queues[d])
      BY <3>3
    <3> QED
      BY <3>1, <3>2, <3>3, <3>4 DEF Stamped
  <2> QED
    BY <2>1, <2>2
<1>3. TimeTyped'
  BY <1>1, <1>2 DEF TimeTyped
<1>4. TasksTyped' /\ WaitingTyped' /\ PoolTyped' /\ SlotsTyped' /\ RestTyped'
  BY <1>1, TasksKept, WaitingKept
  DEF TypeInv, PoolTyped, SlotsTyped, RestTyped, poolVars, slotVars
<1> QED
  BY <1>1, <1>3, <1>4 DEF TypeInv


\* The harness starts with an empty queue.
LEMMA TypeInit == Init => TypeInv
<1> SUFFICES ASSUME Init PROVE TypeInv
  OBVIOUS
<1>1. QueueType(q) /\ CapOK(q) /\ clock = 0
  BY NewQueueProperties DEF Init
<1>2. \A c \in Conversations : /\ q.queues[c] = <<>> /\ q.cancelled_batches[c] = <<>>
                               /\ q.withheld_native_steer[c] = <<>>
  BY DEF Init, NewQueue
<1>3. QueueOK(q, clock)
  BY <1>1, <1>2, EmptyStamped DEF QueueOK, ListsStamped
<1>4. TasksTyped
  <2>1. NoTask \in TaskType /\ TaskOK(NoTask, clock) /\ tasks = [a \in Agents |-> NoTask]
    BY NoTaskOK DEF TaskOK, Init
  <2> HIDE DEF NoTask
  <2> QED
    BY <2>1 DEF TasksTyped
<1>5. WaitingTyped
  <2>1. waiting = <<>> /\ <<>> \in Seq(FlushBatch) /\ Len(<<>>) = 0
    BY EmptySeq, LenProperties DEF Init
  <2> QED
    BY <2>1 DEF WaitingTyped
<1>6. SlotsTyped
  BY HarnessAssumption DEF Init, SlotsTyped
<1>7. PoolTyped
  BY DEF Init, PoolTyped
<1>8. RestTyped
  BY DEF Init, RestTyped, LoopSteps
<1>9. TimeTyped
  BY DEF Init, TimeTyped
<1> QED
  BY <1>3, <1>4, <1>5, <1>6, <1>7, <1>8, <1>9 DEF TypeInv

\* Every step of the harness keeps its types, its caps and its stamps.
LEMMA TypeStep == TypeInv /\ [Next]_vars => TypeInv'
<1> SUFFICES ASSUME TypeInv, [Next]_vars PROVE TypeInv'
  OBVIOUS
<1>1. QueueOK(q, clock) /\ pc \in LoopSteps
  BY DEF TypeInv, RestTyped
<1>2. CASE UNCHANGED vars
  BY <1>1, <1>2, QueueStepTyped DEF vars, queueVars, loopVars
<1>3. ASSUME NEW e \in Events, NEW x \in BOOLEAN, Ingest(e, x) PROVE TypeInv'
  BY <1>3, IngestTyped
<1>4. ASSUME NEW e \in Events, NEW edit \in Edits, EditMessage(e, edit) PROVE TypeInv'
  <2>1. QueueOK(q', clock)
    BY <1>1, <1>4, EditOK, QueueAssumption DEF EditMessage
  <2> QED
    BY <1>1, <1>4, <2>1, QueueStepTyped DEF EditMessage, loopVars
<1>5. ASSUME NEW e \in Events, RetryTurn(e) PROVE TypeInv'
  BY <1>5, RetryTyped
<1>6. ASSUME NEW a \in Agents, NEW e \in Events, NEW kind \in AckKinds, AnswerSteer(a, e, kind)
      PROVE  TypeInv'
  BY <1>6, AnswerTyped
<1>7. ASSUME NEW a \in Agents, FinishTurn(a) \/ PanicTurn(a) PROVE TypeInv'
  BY <1>7, TaskEndTyped
<1>8. ASSUME NEW c \in Conversations, NEW s \in OwnerSignals, OwnerControl(c, s) PROVE TypeInv'
  BY <1>8, OwnerTyped
<1>9. ASSUME NEW c \in Conversations, Expire(c) \/ RetryElapses(c) PROVE TypeInv'
  BY <1>9, TimerTyped
<1>10. ASSUME NEW c \in Conversations, DispatchBatch(c) PROVE TypeInv'
  BY <1>10, DispatchTyped
<1>11. ASSUME NEW ch \in Membership, RemoveChannel(ch) \/ AddChannel(ch) PROVE TypeInv'
  BY <1>11, MembershipTyped
<1>12. ASSUME NEW a \in Agents, HandleResult(a) \/ RecoverPanic(a) PROVE TypeInv'
  BY <1>12, EndTyped
<1>13. ASSUME NEW a \in Agents, NEW success \in BOOLEAN,
              CollectRespawn(a, success) \/ CoolDown(a) \/ CrashAges(a)
       PROVE  TypeInv'
  BY <1>13, SlotStepTyped
<1>14. ASSUME NEW a \in Agents, DeadlinePasses(a) PROVE TypeInv'
  BY <1>14, DeadlineTyped
<1>15. ASSUME NEW k \in acks, HandleSteerAck(k) PROVE TypeInv'
  BY <1>15, AckTyped
<1>16. CASE RequeueWaiting
  BY <1>16, RequeueTyped
<1>17. CASE DispatchDone \/ DrainDone \/ MaintainFlush \/ HeartbeatTick
  <2>1. pc' \in LoopSteps /\ q' = q
    BY <1>17 DEF DispatchDone, DrainDone, MaintainFlush, HeartbeatTick, LoopSteps, queueVars
  <2> QED
    BY <1>1, <1>17, <2>1, QueueStepTyped
    DEF DispatchDone, DrainDone, MaintainFlush, HeartbeatTick, queueVars
<1>18. CASE Maintain
  BY <1>18, MaintainTyped
<1>19. CASE HeartbeatFlush
  BY <1>19, HeartbeatTyped
<1>20. CASE HoldElapses \/ HoldWake
  BY <1>20, HoldTyped
<1>21. TRUE \in BOOLEAN
  OBVIOUS
<1> QED
  BY <1>2, <1>3, <1>4, <1>5, <1>6, <1>7, <1>8, <1>9, <1>10, <1>11, <1>12, <1>13, <1>14, <1>15,
     <1>16, <1>17, <1>18, <1>19, <1>20, <1>21
  DEF Next

\* TypeInv is an invariant of the harness, for every configuration.
LEMMA TypeInvariant == Spec => []TypeInv
  BY TypeInit, TypeStep, PTL DEF Spec

\* TypeOK: every variable of the harness has its type, whatever the configuration; the
\* retry counter never exceeds MAX_RETRIES and the hold never runs ahead of the clock.
THEOREM HarnessTypeCorrect == Spec => []TypeOK
<1>1. TypeInv => TypeOK
  BY DEF TypeInv, TypeOK, QueueOK, TasksTyped, WaitingTyped, PoolTyped, SlotsTyped, RestTyped, TimeTyped
<1> QED
  BY <1>1, TypeInvariant, PTL

\* RoutingCap: whichever path puts events back (a push, a requeue, a release, an expiry),
\* the ready queues of one routing channel never hold more than MAX_PENDING_PER_CHANNEL.
THEOREM RoutingCapHolds == Spec => []RoutingCap
<1>1. TypeInv => RoutingCap
  BY DEF TypeInv, QueueOK, CapOK, RoutingCap
<1> QED
  BY <1>1, TypeInvariant, PTL



-----------------------------------------------------------------------------
(* Withheld events and the acks they wait for *)

\* Something will release or remove the withheld event e of conversation c.
Backed(c, e) ==
  \/ \E a \in TurnsOf(c) : e \in tasks[a].steers
  \/ \E k \in acks : k.channel_id = c /\ k.event_id = e

\* The inductive invariant behind WithheldHasAck: an ack removes one copy only, so no
\* event may be withheld twice.
WithheldInv ==
  /\ WithheldHasAck
  /\ \A c \in Conversations : NoDup(q.withheld_native_steer[c])

\* The step withholds nothing new.
NoneWithheld ==
  \A c \in Conversations : Drawn(q'.withheld_native_steer[c], q.withheld_native_steer[c])

\* No steer request and no ack is lost.
SupportKept ==
  /\ \A a \in Agents : tasks[a].steers # {} =>
       /\ tasks'[a].phase # "free" /\ tasks'[a].conv = tasks[a].conv
       /\ tasks[a].steers \subseteq tasks'[a].steers
  /\ acks \subseteq acks'

\* A step that withholds nothing and keeps what backs each withheld event.
LEMMA WithheldKept ==
  ASSUME TypeInv, TypeInv', WithheldInv, NoneWithheld,
         \A c \in Conversations : \A e \in Ids(q'.withheld_native_steer[c]) : Backed(c, e) => Backed(c, e)'
  PROVE  WithheldInv'
<1>1. ASSUME NEW c \in Conversations
      PROVE  /\ NoDup(q'.withheld_native_steer[c])
             /\ Ids(q'.withheld_native_steer[c]) \subseteq Ids(q.withheld_native_steer[c])
  <2>1. q.withheld_native_steer[c] \in Seq(Entry) /\ q'.withheld_native_steer[c] \in Seq(Entry)
    BY ListTypes DEF TypeInv, QueueOK
  <2>2. NoDup(q.withheld_native_steer[c]) /\ Drawn(q'.withheld_native_steer[c], q.withheld_native_steer[c])
    BY DEF WithheldInv, NoneWithheld
  <2> QED
    BY <2>1, <2>2, DrawnProperties
<1>2. ASSUME NEW c \in Conversations, NEW e \in Ids(q'.withheld_native_steer[c]) PROVE Backed(c, e)'
  <2>1. Backed(c, e)
    BY <1>1, <1>2 DEF WithheldInv, WithheldHasAck, Backed
  <2> QED
    BY <1>2, <2>1
<1>3. WithheldHasAck'
  BY <1>2 DEF WithheldHasAck, Backed
<1> QED
  BY <1>1, <1>3 DEF WithheldInv

\* Steer requests and acks that stay keep backing their events.
LEMMA SupportBacks ==
  ASSUME SupportKept, NEW c, NEW e, Backed(c, e)
  PROVE  Backed(c, e)'
  BY DEF SupportKept, Backed, TurnsOf, Busy

\* A step that withholds nothing and loses neither request nor ack.
LEMMA QuietWithheld ==
  ASSUME TypeInv, TypeInv', WithheldInv, NoneWithheld, SupportKept
  PROVE  WithheldInv'
  BY WithheldKept, SupportBacks

\* The same, when the tasks do not change at all.
LEMMA IdleSupport ==
  ASSUME TypeInv, UNCHANGED <<tasks, acks>>
  PROVE  SupportKept
<1>1. \A a \in Agents : tasks[a].steers # {} => tasks[a].phase # "free"
  BY DEF TypeInv, TasksTyped, TaskOK
<1> QED
  BY <1>1 DEF SupportKept

\* A signal changes no steer request.
LEMMA SignalSteers ==
  ASSUME TypeInv, NEW targets \in SUBSET Agents, NEW s, SendSignal(targets, s)
  PROVE  \A a \in Agents : /\ tasks'[a].phase = tasks[a].phase /\ tasks'[a].conv = tasks[a].conv
                           /\ tasks'[a].steers = tasks[a].steers /\ tasks'[a].batch = tasks[a].batch
<1>1. tasks \in [Agents -> TaskType]
  BY DEF TypeInv, TasksTyped
<1>2. CASE UNCHANGED tasks
  BY <1>2
<1>3. ASSUME NEW d \in targets, tasks' = [tasks EXCEPT ![d] = Signalled(tasks[d], s)]
      PROVE  \A a \in Agents : /\ tasks'[a].phase = tasks[a].phase /\ tasks'[a].conv = tasks[a].conv
                               /\ tasks'[a].steers = tasks[a].steers /\ tasks'[a].batch = tasks[a].batch
  <2>1. PICK t : t = Signalled(tasks[d], s)
    OBVIOUS
  <2>2. tasks[d] \in TaskType
    BY <1>1
  <2>3. /\ t.phase = tasks[d].phase /\ t.conv = tasks[d].conv /\ t.steers = tasks[d].steers
        /\ t.batch = tasks[d].batch
    BY <2>1, <2>2 DEF Signalled, TaskType
  <2> QED
    BY <1>1, <1>3, <2>1, <2>3
<1> QED
  BY <1>2, <1>3 DEF SendSignal

\* A slot without steer requests gets another task.
LEMMA SlotSupport ==
  ASSUME TypeInv, NEW a \in Agents, tasks[a].steers = {}, NEW t, tasks' = [tasks EXCEPT ![a] = t],
         UNCHANGED acks
  PROVE  SupportKept
<1>1. tasks \in [Agents -> TaskType] /\ \A b \in Agents : tasks[b].steers # {} => tasks[b].phase # "free"
  BY DEF TypeInv, TasksTyped, TaskOK
<1>2. \A b \in Agents \ {a} : tasks'[b] = tasks[b]
  BY <1>1
<1> QED
  BY <1>1, <1>2 DEF SupportKept

\* A queue whose withheld events are those of q.
LEMMA SameWithheld ==
  ASSUME q'.withheld_native_steer = q.withheld_native_steer
  PROVE  NoneWithheld
  BY DrawnSelf DEF NoneWithheld

\* Completions and requeues withhold nothing and release nothing.
LEMMA CompleteWithheld ==
  ASSUME NEW k, NEW n, QueueOK(k, n), NEW b \in FlushBatch, BatchStamped(b, n), NEW c \in Conversations
  PROVE  /\ MarkComplete(k, c).withheld_native_steer = k.withheld_native_steer
         /\ MarkComplete(Requeue(k, b), c).withheld_native_steer = k.withheld_native_steer
         /\ MarkComplete(RequeuePreserveTimestamps(k, b), c).withheld_native_steer = k.withheld_native_steer
<1>1. ASSUME NEW r, QueueType(r) PROVE MarkComplete(r, c).withheld_native_steer = r.withheld_native_steer
  BY <1>1, MarkCompleteProperties DEF SameEvents
<1>2. QueueType(k) /\ CapOK(k)
  BY DEF QueueOK
<1>3. /\ QueueType(Requeue(k, b)) /\ Requeue(k, b).withheld_native_steer = k.withheld_native_steer
      /\ QueueType(RequeuePreserveTimestamps(k, b))
      /\ RequeuePreserveTimestamps(k, b).withheld_native_steer = k.withheld_native_steer
  BY <1>2, RequeueProperties
<1> QED
  BY <1>1, <1>2, <1>3

\* A handled result or panic withholds nothing and releases nothing.
LEMMA EndWithheldSame ==
  ASSUME TypeInv, NEW a \in Agents, HandleResult(a) \/ RecoverPanic(a)
  PROVE  q'.withheld_native_steer = q.withheld_native_steer
<1> DEFINE t == tasks[a]
           b == tasks[a].batch
           reason == IF b.cancel_reason = "none" THEN "Steer" ELSE b.cancel_reason
<1>1. /\ QueueOK(q, clock) /\ QueueType(q) /\ CapOK(q) /\ t \in TaskType /\ b \in FlushBatch
      /\ BatchStamped(b, clock)
  BY DEF TypeInv, QueueOK, TasksTyped, TaskOK, TaskType
<1>2. CASE t.conv = Heartbeat
  BY <1>2 DEF HandleResult, RecoverPanic, Complete
<1>3. CASE t.conv # Heartbeat
  <2>1. t.conv \in Conversations
    BY <1>1, <1>3 DEF TaskType
  <2>2. reason \in CancelReasons
    BY <1>1 DEF FlushBatch, CancelReasons
  <2>3. RequeueResult(t) \in {q, RequeueAsCancelled(q, b, reason),
                              Requeue(TakeBusyNotice(q, t.conv), b), Requeue(q, b)}
    BY DEF RequeueResult
  <2> HIDE DEF reason
  <2>4. PICK noticed : noticed = TakeBusyNotice(q, t.conv)
    OBVIOUS
  <2>a. QueueType(noticed) /\ SameEvents(q, noticed)
    BY <1>1, <2>1, <2>4, ThrottleOps DEF OnlyThrottles
  <2>b. CapOK(noticed) /\ noticed.withheld_native_steer = q.withheld_native_steer
    BY <1>1, <2>a, SameEventsCap DEF SameEvents
  <2>c. /\ Requeue(noticed, b).withheld_native_steer = noticed.withheld_native_steer
        /\ Requeue(q, b).withheld_native_steer = q.withheld_native_steer
    BY <1>1, <2>a, <2>b, RequeueProperties
  <2>d. RequeueAsCancelled(q, b, reason).withheld_native_steer = q.withheld_native_steer
    BY <1>1, <2>2, CancelProperties
  <2>5. RequeueResult(t).withheld_native_steer = q.withheld_native_steer
    BY <2>3, <2>4, <2>b, <2>c, <2>d
  <2>6. QueueType(RequeueResult(t))
    BY <2>1, ResultOK DEF QueueOK
  <2>7. MarkComplete(RequeueResult(t), t.conv).withheld_native_steer = q.withheld_native_steer
    BY <2>1, <2>5, <2>6, MarkCompleteProperties DEF SameEvents
  <2>8. q' \in {MarkComplete(RequeueResult(t), t.conv), MarkComplete(Requeue(q, b), t.conv),
                MarkComplete(q, t.conv)}
    BY <1>3 DEF HandleResult, RecoverPanic, Complete
  <2> QED
    BY <1>1, <2>1, <2>7, <2>8, CompleteWithheld
<1> QED
  BY <1>2, <1>3

\* A relay event: only a steer that a turn has taken withholds it.
LEMMA IngestWithheld ==
  ASSUME TypeInv, TypeInv', WithheldInv, NEW e \in Events, NEW x \in BOOLEAN, Ingest(e, x)
  PROVE  WithheldInv'
<1> DEFINE c == ConvOf[e]
           pushed == Push(q, e, clock + 1, x, FALSE)
<1>1. /\ clock \in Nat /\ c \in Conversations /\ QueueType(q) /\ CapOK(q) /\ clock + 1 \in Nat
      /\ FALSE \in BOOLEAN /\ tasks \in [Agents -> TaskType] /\ acks' = acks
      /\ \A a \in Agents : tasks[a].steers # {} => tasks[a].phase # "free"
  BY QueueAssumption DEF TypeInv, TimeTyped, TasksTyped, QueueOK, TaskOK, Ingest
<1>2. QueueType(pushed) /\ CapOK(pushed) /\ pushed.withheld_native_steer = q.withheld_native_steer
  BY <1>1, PushProperties DEF OnlyReady
<1> HIDE DEF pushed
<1>3. CASE /\ q' = pushed \/ q' = q
           /\ UNCHANGED tasks \/ SendSignal(SignalTargets(c, Routing[c]), "Interrupt")
  <2>1. SupportKept
    BY <1>1, <1>3, SignalSteers, TargetsAreAgents DEF SupportKept
  <2>2. NoneWithheld
    BY <1>2, <1>3, SameWithheld
  <2> QED
    BY <2>1, <2>2, QuietWithheld
<1>4. ASSUME PushAccepts(q, e), NEW a \in TurnsOf(c), tasks[a].phase = "running",
             tasks' = [tasks EXCEPT ![a].steers = @ \cup {e}],
             q' = MarkNativeSteerPending(pushed, c, e)
      PROVE  WithheldInv'
  <2>1. a \in Agents /\ tasks[a] \in TaskType /\ tasks[a].conv = c
    BY <1>1 DEF TurnsOf
  <2>2. SupportKept /\ a \in TurnsOf(c)' /\ e \in tasks'[a].steers
    BY <1>1, <1>4, <2>1 DEF SupportKept, TaskType, TurnsOf, Busy
  <2>3. e \notin Ids(q.withheld_native_steer[c])
    BY <1>4 DEF PushAccepts, ContainsEvent
  <2> HIDE DEF c
  <2> DEFINE r == MarkNativeSteerPending(pushed, c, e)
  <2>a. \/ r = pushed /\ e \notin Ids(pushed.queues[c])
        \/ /\ \E y \in Entry : /\ y.id = e
                               /\ \E i \in 1 .. Len(pushed.queues[c]) : y = pushed.queues[c][i]
                               /\ r.withheld_native_steer[c] = Append(pushed.withheld_native_steer[c], y)
           /\ NoDup(pushed.queues[c]) => e \notin Ids(r.queues[c])
    BY <1>1, <1>2, WithholdProperties, Zenon
  <2>b. \A d \in Conversations \ {c} : q'.withheld_native_steer[d] = pushed.withheld_native_steer[d]
    BY <1>1, <1>2, <1>4, WithholdProperties
  <2>4. /\ \A d \in Conversations \ {c} : q'.withheld_native_steer[d] = pushed.withheld_native_steer[d]
        /\ \/ q' = pushed
           \/ \E y \in Entry : /\ y.id = e
                               /\ q'.withheld_native_steer[c] = Append(pushed.withheld_native_steer[c], y)
    BY <1>4, <2>a, <2>b
  <2>5. CASE q' = pushed
    BY <1>2, <2>2, <2>5, SameWithheld, QuietWithheld
  <2>6. ASSUME NEW y \in Entry, y.id = e,
               q'.withheld_native_steer[c] = Append(q.withheld_native_steer[c], y)
        PROVE  WithheldInv'
    <3>1. q.withheld_native_steer[c] \in Seq(Entry) /\ NoDup(q.withheld_native_steer[c])
      BY <1>1, ListTypes DEF WithheldInv
    <3>2. /\ Ids(q'.withheld_native_steer[c]) = Ids(q.withheld_native_steer[c]) \cup {e}
          /\ NoDup(q'.withheld_native_steer[c])
      BY <2>3, <2>6, <3>1, AppendIds
    <3>3. \A d \in Conversations \ {c} : q'.withheld_native_steer[d] = q.withheld_native_steer[d]
      BY <1>2, <2>4
    <3>4. ASSUME NEW d \in Conversations, NEW f \in Ids(q'.withheld_native_steer[d]) PROVE Backed(d, f)'
      <4>1. CASE d = c /\ f = e
        BY <2>2, <4>1 DEF Backed
      <4>2. CASE ~(d = c /\ f = e)
        <5>1. f \in Ids(q.withheld_native_steer[d])
          BY <3>2, <3>3, <3>4, <4>2
        <5>2. Backed(d, f)
          BY <5>1 DEF WithheldInv, WithheldHasAck, Backed
        <5> QED
          BY <2>2, <5>2, SupportBacks
      <4> QED
        BY <4>1, <4>2
    <3>5. WithheldHasAck'
      BY <3>4 DEF WithheldHasAck, Backed
    <3> QED
      BY <3>2, <3>3, <3>5 DEF WithheldInv
  <2> QED
    BY <1>2, <2>4, <2>5, <2>6
<1> QED
  BY <1>3, <1>4 DEF Ingest, NativeSteer, pushed

\* A turn that ends hands its unanswered requests over to neutral acks; an answer is
\* an ack itself.
LEMMA TaskWithheld ==
  ASSUME TypeInv, TypeInv', WithheldInv, NEW a \in Agents, NEW e, NEW kind,
         FinishTurn(a) \/ PanicTurn(a) \/ AnswerSteer(a, e, kind)
  PROVE  WithheldInv'
<1>1. /\ tasks \in [Agents -> TaskType] /\ acks \subseteq acks' /\ UNCHANGED q
      /\ \A b \in Agents : tasks[b].steers # {} => tasks[b].phase # "free"
  BY DEF TypeInv, TasksTyped, TaskOK, FinishTurn, PanicTurn, AnswerSteer, queueVars
<1>2. \A b \in Agents \ {a} : tasks'[b] = tasks[b]
  BY <1>1 DEF FinishTurn, PanicTurn, AnswerSteer
<1>3. ASSUME NEW f \in tasks[a].steers, NEW c, tasks[a].conv = c PROVE Backed(c, f)'
  <2>1. CASE FinishTurn(a) \/ PanicTurn(a)
    <3>1. [channel_id |-> c, event_id |-> f, kind |-> "release"] \in acks'
      BY <1>3, <2>1 DEF FinishTurn, PanicTurn, Neutral
    <3> QED
      BY <3>1 DEF Backed
  <2>2. CASE AnswerSteer(a, e, kind) /\ f = e
    <3>1. [channel_id |-> c, event_id |-> f, kind |-> kind] \in acks'
      BY <1>3, <2>2 DEF AnswerSteer
    <3> QED
      BY <3>1 DEF Backed
  <2>3. CASE AnswerSteer(a, e, kind) /\ f # e
    <3>1. tasks[a] \in TaskType
      BY <1>1
    <3>2. tasks'[a].steers = tasks[a].steers \ {e} /\ tasks'[a].phase = "running" /\ tasks'[a].conv = c
      BY <1>1, <1>3, <2>3, <3>1 DEF AnswerSteer, TaskType
    <3> QED
      BY <1>3, <2>3, <3>2 DEF Backed, TurnsOf, Busy
  <2> QED
    BY <2>1, <2>2, <2>3
<1>4. ASSUME NEW c \in Conversations, NEW f, Backed(c, f) PROVE Backed(c, f)'
  <2>1. CASE \E k \in acks : k.channel_id = c /\ k.event_id = f
    BY <1>1, <2>1 DEF Backed
  <2>2. ASSUME NEW b \in TurnsOf(c), f \in tasks[b].steers PROVE Backed(c, f)'
    <3>1. CASE b = a
      BY <1>3, <2>2, <3>1 DEF TurnsOf
    <3>2. CASE b # a
      BY <1>2, <2>2, <3>2 DEF Backed, TurnsOf, Busy
    <3> QED
      BY <3>1, <3>2
  <2> QED
    BY <1>4, <2>1, <2>2 DEF Backed
<1>5. NoneWithheld
  BY <1>1, SameWithheld
<1> QED
  BY <1>4, <1>5, WithheldKept

\* The steer-ack arm: the ack goes with the one copy of its event.
LEMMA AckWithheld ==
  ASSUME TypeInv, TypeInv', WithheldInv, NEW k \in acks, HandleSteerAck(k)
  PROVE  WithheldInv'
<1>1. PICK c, e : c = k.channel_id /\ e = k.event_id
  OBVIOUS
<1>2. c \in Conversations /\ QueueType(q) /\ CapOK(q) /\ acks' = acks \ {k}
  BY <1>1 DEF TypeInv, RestTyped, QueueOK, HandleSteerAck
<1>3. \A a \in Agents : /\ tasks'[a].phase = tasks[a].phase /\ tasks'[a].conv = tasks[a].conv
                        /\ tasks'[a].steers = tasks[a].steers
  BY <1>1, SignalSteers, TargetsAreAgents DEF HandleSteerAck
<1>4. NoneWithheld /\ e \notin Ids(q'.withheld_native_steer[c])
  <2>1. CASE q' = RemoveEvent(ExtendInFlightDeadline(q, c), c, e)
    <3>1. PICK r : r = ExtendInFlightDeadline(q, c)
      OBVIOUS
    <3>2. QueueType(r) /\ CapOK(r) /\ r.withheld_native_steer = q.withheld_native_steer
      BY <1>2, <3>1, ExtendProperties, SameEventsCap DEF SameEvents
    <3>3. /\ \A d \in Conversations : Drawn(q'.withheld_native_steer[d], r.withheld_native_steer[d])
          /\ Ids(q'.withheld_native_steer[c]) = Ids(r.withheld_native_steer[c]) \ {e}
      BY <1>2, <2>1, <3>1, <3>2, RemoveProperties
    <3> QED
      BY <3>2, <3>3 DEF NoneWithheld
  <2>2. CASE q' = ReleaseNativeSteer(q, c, e)
    <3>1. \A d \in Conversations \ {c} : q'.withheld_native_steer[d] = q.withheld_native_steer[d]
      BY <1>2, <2>2, ReleaseProperties
    <3>2. \/ q' = q /\ e \notin Ids(q.withheld_native_steer[c])
          \/ /\ Drawn(q'.withheld_native_steer[c], q.withheld_native_steer[c])
             /\ NoDup(q.withheld_native_steer[c]) => e \notin Ids(q'.withheld_native_steer[c])
      BY <1>2, <2>2, ReleaseProperties, Zenon
    <3>3. Drawn(q'.withheld_native_steer[c], q.withheld_native_steer[c])
          /\ e \notin Ids(q'.withheld_native_steer[c])
      BY <1>2, <3>2, DrawnSelf DEF WithheldInv
    <3> QED
      BY <3>1, <3>3, DrawnSelf DEF NoneWithheld
  <2> QED
    BY <1>1, <2>1, <2>2 DEF HandleSteerAck
<1>5. ASSUME NEW d \in Conversations, NEW f \in Ids(q'.withheld_native_steer[d]), Backed(d, f)
      PROVE  Backed(d, f)'
  <2>1. ~(d = c /\ f = e)
    BY <1>4, <1>5
  <2>2. TurnsOf(d)' = TurnsOf(d)
    BY <1>3 DEF TurnsOf, Busy
  <2> QED
    BY <1>1, <1>2, <1>3, <1>5, <2>1, <2>2 DEF Backed, TurnsOf
<1> QED
  BY <1>4, <1>5, WithheldKept


\* Drains, edits and expiries withhold nothing.
LEMMA OpsWithholdNone ==
  ASSUME TypeInv
  PROVE  /\ \A cs : q' = DrainChannels(q, cs) => NoneWithheld
         /\ \A e \in Events : q' \in {RemoveEventById(q, e), PatchEvent(q, e)} => NoneWithheld
         /\ \A c \in Conversations : q' = ExpireInFlight(q, c) => NoneWithheld
<1>1. QueueType(q) /\ CapOK(q) /\ \A c \in Conversations : q.withheld_native_steer[c] \in Seq(Entry)
  BY ListTypes DEF TypeInv, QueueOK
<1>2. ASSUME NEW cs, q' = DrainChannels(q, cs) PROVE NoneWithheld
  <2>1. \A d \in Conversations : q'.withheld_native_steer[d] \in {<<>>, q.withheld_native_steer[d]}
    BY <1>1, <1>2, DrainProperties
  <2> QED
    BY <1>1, <2>1, DrawnSelf, DrawnEmpty DEF NoneWithheld
<1>3. ASSUME NEW e \in Events, q' = RemoveEventById(q, e) PROVE NoneWithheld
  BY <1>1, <1>3, RemoveProperties, QueueAssumption DEF RemoveEventById, NoneWithheld
<1>4. ASSUME NEW e \in Events, q' = PatchEvent(q, e) PROVE NoneWithheld
  BY <1>1, <1>4, PatchProperties DEF NoneWithheld
<1>5. ASSUME NEW c \in Conversations, q' = ExpireInFlight(q, c) PROVE NoneWithheld
  <2>1. /\ q'.withheld_native_steer[c] = <<>>
        /\ \A d \in Conversations \ {c} : q'.withheld_native_steer[d] = q.withheld_native_steer[d]
    BY <1>1, <1>5, ExpireProperties
  <2> QED
    BY <1>1, <2>1, DrawnSelf, DrawnEmpty DEF NoneWithheld
<1> QED
  BY <1>2, <1>3, <1>4, <1>5

\* dispatch_pending starts turns on idle agents, which have no steer request.
LEMMA DispatchWithheld ==
  ASSUME TypeInv, TypeInv', PoolInv, WithheldInv, NEW c \in Conversations, DispatchBatch(c)
  PROVE  WithheldInv'
<1>1. QueueOK(q, clock) /\ QueueType(q) /\ CapOK(q) /\ acks' = acks
  BY DEF TypeInv, QueueOK, DispatchBatch
<1>2. PICK b, flushed : b = BatchFor(q, matured, c) /\ flushed = Flushed(q, matured, c)
  OBVIOUS
<1>3. /\ QueueOK(flushed, clock) /\ b \in FlushBatch /\ BatchStamped(b, clock)
      /\ flushed.withheld_native_steer = q.withheld_native_steer
  BY <1>1, <1>2, FlushOK, FlushedProperties
<1>4. q' = flushed \/ q' = MarkComplete(RequeuePreserveTimestamps(flushed, b), c)
  BY <1>2 DEF DispatchBatch
<1>5. NoneWithheld
  BY <1>3, <1>4, CompleteWithheld, SameWithheld
<1>6. CASE UNCHANGED tasks
  BY <1>1, <1>5, <1>6, IdleSupport, QuietWithheld
<1>7. CASE \E a \in ClaimChoices(c) : StartTurn(a, c, b, "open")
  <2>1. PICK a \in idle : StartTurn(a, c, b, "open")
    BY <1>7 DEF ClaimChoices
  <2>2. a \in Agents /\ tasks[a].steers = {}
    BY DEF PoolInv, SlotExclusive, Busy, TypeInv, TasksTyped, TaskOK
  <2>3. SupportKept
    BY <1>1, <2>1, <2>2, SlotSupport DEF StartTurn
  <2> QED
    BY <1>5, <2>3, QuietWithheld
<1> QED
  BY <1>2, <1>6, <1>7 DEF DispatchBatch, poolVars

\* So with a heartbeat.
LEMMA HeartbeatWithheld ==
  ASSUME TypeInv, TypeInv', PoolInv, WithheldInv, HeartbeatFlush
  PROVE  WithheldInv'
<1>1. q' = q /\ acks' = acks
  BY DEF HeartbeatFlush, queueVars
<1>2. NoneWithheld
  BY <1>1, SameWithheld
<1>3. CASE UNCHANGED tasks
  BY <1>1, <1>2, <1>3, IdleSupport, QuietWithheld
<1>4. CASE \E a \in idle : StartTurn(a, Heartbeat, NoBatch(Blank), "closed")
  <2>1. PICK a \in idle : StartTurn(a, Heartbeat, NoBatch(Blank), "closed")
    BY <1>4
  <2>2. a \in Agents /\ tasks[a].steers = {}
    BY DEF PoolInv, SlotExclusive, Busy, TypeInv, TasksTyped, TaskOK
  <2>3. SupportKept
    BY <1>1, <2>1, <2>2, SlotSupport DEF StartTurn
  <2> QED
    BY <1>2, <2>3, QuietWithheld
<1> QED
  BY <1>3, <1>4 DEF HeartbeatFlush, poolVars

\* A handled task has no steer request left.
LEMMA EndWithheld ==
  ASSUME TypeInv, TypeInv', WithheldInv, NEW a \in Agents, HandleResult(a) \/ RecoverPanic(a)
  PROVE  WithheldInv'
<1>1. /\ tasks[a].steers = {} /\ tasks' = [tasks EXCEPT ![a] = NoTask] /\ acks' = acks
  BY DEF HandleResult, RecoverPanic, TypeInv, TasksTyped, TaskOK
<1>2. SupportKept
  BY <1>1, SlotSupport
<1>3. NoneWithheld
  BY EndWithheldSame, SameWithheld
<1> QED
  BY <1>2, <1>3, QuietWithheld

\* The owner's controls signal, forget or drain.
LEMMA OwnerWithheld ==
  ASSUME TypeInv, TypeInv', WithheldInv, NEW c \in Conversations, NEW s, OwnerControl(c, s)
  PROVE  WithheldInv'
<1>1. /\ acks' = acks /\ q' \in {q, DrainChannels(q, {c})}
  BY DEF OwnerControl, OwnerCommand, ObserverCancel, ObserverSwitchModel, queueVars
<1>3. NoneWithheld
  BY <1>1, OpsWithholdNone, SameWithheld
<1>4. \/ UNCHANGED tasks
      \/ \E r : SendSignal(SignalTargets(c, Routing[c]), r) \/ SendSignal(TurnsOf(c), r)
  BY DEF OwnerControl, OwnerCommand, ObserverCancel, ObserverSwitchModel
<1>5. \A a \in Agents : /\ tasks'[a].phase = tasks[a].phase /\ tasks'[a].conv = tasks[a].conv
                        /\ tasks'[a].steers = tasks[a].steers
  BY <1>4, SignalSteers, TargetsAreAgents
<1>6. SupportKept
  BY <1>1, <1>5 DEF SupportKept, TypeInv, TasksTyped, TaskOK
<1> QED
  BY <1>3, <1>6, QuietWithheld

\* retry_turn.
LEMMA RetryWithheld ==
  ASSUME TypeInv, TypeInv', WithheldInv, NEW e \in Events, RetryTurn(e)
  PROVE  WithheldInv'
<1>1. QueueType(q) /\ CapOK(q) /\ ConvOf[e] \in Conversations /\ clock \in Nat
  BY QueueAssumption DEF TypeInv, TimeTyped, QueueOK
<1>2. UNCHANGED <<tasks, acks>>
  BY DEF RetryTurn, poolVars
<1>3. PICK k : k = ClearRetryAfter(q, ConvOf[e])
  OBVIOUS
<1>4. QueueType(k) /\ SameEvents(q, k)
  BY <1>1, <1>3, ThrottleOps DEF OnlyThrottles
<1>5. CapOK(k) /\ k.withheld_native_steer = q.withheld_native_steer
  BY <1>1, <1>4, SameEventsCap DEF SameEvents
<1>6. clock + 1 \in Nat /\ TRUE \in BOOLEAN /\ FALSE \in BOOLEAN
  BY <1>1
<1>7. Push(k, e, clock + 1, TRUE, FALSE).withheld_native_steer = k.withheld_native_steer
  BY <1>4, <1>5, <1>6, PushProperties DEF OnlyReady
<1>8. q' = k \/ q' = Push(k, e, clock + 1, TRUE, FALSE)
  BY <1>3 DEF RetryTurn
<1>9. q'.withheld_native_steer = q.withheld_native_steer
  BY <1>5, <1>7, <1>8
<1> QED
  BY <1>2, <1>9, IdleSupport, SameWithheld, QuietWithheld

\* Steps that leave the tasks and the acks alone.
LEMMA IdleWithheld ==
  ASSUME TypeInv, TypeInv', WithheldInv, UNCHANGED <<tasks, acks>>,
         q'.withheld_native_steer = q.withheld_native_steer \/ NoneWithheld
  PROVE  WithheldInv'
  BY IdleSupport, SameWithheld, QuietWithheld

\* Nothing is withheld at first.
LEMMA WithheldInit == Init => WithheldInv
<1> SUFFICES ASSUME Init PROVE WithheldInv
  OBVIOUS
<1>1. \A c \in Conversations : q.withheld_native_steer[c] = <<>>
  BY DEF Init, NewQueue
<1>2. Ids(<<>>) = {} /\ NoDup(<<>>)
  BY DEF Ids, NoDup
<1> QED
  BY <1>1, <1>2 DEF WithheldInv, WithheldHasAck

\* Every step keeps every withheld event backed.
LEMMA WithheldStep == PoolInv /\ TypeInv /\ TypeInv' /\ WithheldInv /\ [Next]_vars => WithheldInv'
<1> SUFFICES ASSUME PoolInv, TypeInv, TypeInv', WithheldInv, [Next]_vars PROVE WithheldInv'
  OBVIOUS
<1> USE DEF queueVars, poolVars
<1>1. QueueType(q) /\ QueueOK(q, clock)
  BY DEF TypeInv, QueueOK
<1>2. CASE UNCHANGED vars
  BY <1>2, IdleWithheld DEF vars
<1>3. ASSUME NEW e \in Events, NEW x \in BOOLEAN, Ingest(e, x) PROVE WithheldInv'
  BY <1>3, IngestWithheld
<1>4. ASSUME NEW e \in Events, NEW edit \in Edits, EditMessage(e, edit) PROVE WithheldInv'
  BY <1>4, OpsWithholdNone, IdleWithheld DEF EditMessage
<1>5. ASSUME NEW e \in Events, RetryTurn(e) PROVE WithheldInv'
  BY <1>5, RetryWithheld
<1>6. ASSUME NEW a \in Agents, NEW e, NEW kind, FinishTurn(a) \/ PanicTurn(a) \/ AnswerSteer(a, e, kind)
      PROVE  WithheldInv'
  BY <1>6, TaskWithheld
<1>7. ASSUME NEW c \in Conversations, NEW s, OwnerControl(c, s) PROVE WithheldInv'
  BY <1>7, OwnerWithheld
<1>8. ASSUME NEW c \in Conversations, Expire(c) PROVE WithheldInv'
  BY <1>8, OpsWithholdNone, IdleWithheld DEF Expire
<1>9. ASSUME NEW c \in Conversations, RetryElapses(c) PROVE WithheldInv'
  <2>1. q'.withheld_native_steer = q.withheld_native_steer
    BY <1>1, <1>9, ThrottleOps DEF RetryElapses, OnlyThrottles, SameEvents
  <2> QED
    BY <1>9, <2>1, IdleWithheld DEF RetryElapses
<1>10. ASSUME NEW c \in Conversations, DispatchBatch(c) PROVE WithheldInv'
  BY <1>10, DispatchWithheld
<1>11. ASSUME NEW ch \in Membership, RemoveChannel(ch) \/ AddChannel(ch) PROVE WithheldInv'
  BY <1>11, OpsWithholdNone, IdleWithheld DEF RemoveChannel, AddChannel
<1>12. ASSUME NEW a \in Agents, HandleResult(a) \/ RecoverPanic(a) PROVE WithheldInv'
  BY <1>12, EndWithheld
<1>13. ASSUME NEW a \in Agents, NEW success, CollectRespawn(a, success) \/ CoolDown(a) \/ CrashAges(a)
       PROVE  WithheldInv'
  BY <1>13, IdleWithheld DEF CollectRespawn, CoolDown, CrashAges
<1>14. ASSUME NEW a \in Agents, DeadlinePasses(a) PROVE WithheldInv'
  <2>1. tasks[a].conv \in Conversations
    BY <1>14, HarnessAssumption DEF DeadlinePasses
  <2>2. q'.withheld_native_steer = q.withheld_native_steer
    BY <1>1, <1>14, <2>1, DeadlineProperties DEF DeadlinePasses, SameEvents
  <2> QED
    BY <1>14, <2>2, IdleWithheld DEF DeadlinePasses
<1>15. ASSUME NEW k \in acks, HandleSteerAck(k) PROVE WithheldInv'
  BY <1>15, AckWithheld
<1>16. CASE RequeueWaiting
  <2>1. CASE waiting = <<>>
    BY <1>16, <2>1, IdleWithheld DEF RequeueWaiting
  <2>2. CASE waiting # <<>>
    <3>1. PICK b : b = Head(waiting)
      OBVIOUS
    <3>2. b \in FlushBatch /\ BatchStamped(b, clock) /\ b.channel_id \in Conversations
      <4>1. waiting \in Seq(FlushBatch)
        BY DEF TypeInv, WaitingTyped
      <4>2. 1 \in 1 .. Len(waiting) /\ b = waiting[1]
        BY <2>2, <3>1, <4>1, LenProperties, EmptySeq, HeadTailProperties
      <4>3. waiting[1] \in FlushBatch
        BY <4>1, <4>2, ElementOfSeq
      <4> QED
        BY <4>2, <4>3, BatchTypes DEF TypeInv, WaitingTyped
    <3>3. q' = MarkComplete(RequeuePreserveTimestamps(q, b), b.channel_id)
      BY <1>16, <2>2, <3>1 DEF RequeueWaiting
    <3>4. q'.withheld_native_steer = q.withheld_native_steer
      BY <1>1, <3>2, <3>3, CompleteWithheld
    <3> QED
      BY <1>16, <3>4, IdleWithheld DEF RequeueWaiting
  <2> QED
    BY <2>1, <2>2
<1>17. CASE DispatchDone \/ DrainDone \/ MaintainFlush \/ HeartbeatTick \/ HoldElapses \/ HoldWake
  BY <1>17, IdleWithheld DEF DispatchDone, DrainDone, MaintainFlush, HeartbeatTick, HoldElapses, HoldWake
<1>18. CASE Maintain
  <2>1. q'.withheld_native_steer = q.withheld_native_steer
    BY <1>1, <1>18, CompactProperties DEF Maintain, OnlyThrottles, SameEvents
  <2> QED
    BY <1>18, <2>1, IdleWithheld DEF Maintain
<1>19. CASE HeartbeatFlush
  BY <1>19, HeartbeatWithheld
<1> QED
  BY <1>2, <1>3, <1>4, <1>5, <1>6, <1>7, <1>8, <1>9, <1>10, <1>11, <1>12, <1>13, <1>14, <1>15,
     <1>16, <1>17, <1>18, <1>19
  DEF Next

\* WithheldHasAck: in every configuration an event taken out of the ready queue for a steer
\* still has its request in the turn or an ack under way, through ends, panics, drains,
\* expiries and late acks; none is stranded in withheld_native_steer.
THEOREM WithheldBacked == Spec => []WithheldHasAck
<1>1. WithheldInv => WithheldHasAck
  BY DEF WithheldInv
<1> QED
  BY <1>1, TypeInvariant, PoolInvariant, WithheldInit, WithheldStep, PTL DEF Spec

=============================================================================
