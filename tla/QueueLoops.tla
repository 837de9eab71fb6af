----------------------------- MODULE QueueLoops -----------------------------
(***************************************************************************)
(* Definitions of EventQueue against the loops they stand for, over every  *)
(* arrangement of the events in the ready queues, including orders that    *)
(* restores to a queue front produce.  EventQueue states in closed form    *)
(* what enforce_routing_channel_cap leaves (EnforceRoutingCap), what       *)
(* flush_next sorts (SortByCreatedAt) and what retain keeps (Without);     *)
(* here the first is compared with the eviction loop, one pop at a time,   *)
(* the second with what a stable sort is, the third with a filter.         *)
(***************************************************************************)
EXTENDS EventQueue

\* Every event may be in any queue, at any place: its stamp is its rank.
Arrangements ==
  LET stamp == CHOOSE f \in [Events -> 1 .. Cardinality(Events)] : IsInjective(f)
      x(e)  == [id |-> e, received_at |-> stamp[e], hold_exempt |-> FALSE, edited |-> FALSE]
      lists == UNION {{s \in [1 .. n -> Events] : IsInjective(s)} : n \in 0 .. Cardinality(Events)}
      apart == {f \in [Conversations -> lists] :
                  \A c, d \in Conversations : c # d => Range(f[c]) \cap Range(f[d]) = {}}
  IN  {[c \in Conversations |-> [i \in DOMAIN f[c] |-> x(f[c][i])]] : f \in apart}

\* The loop: while the channel has too many ready events, pop the oldest head.
RECURSIVE PopUntilCap(_, _)
PopUntilCap(queues, ch) ==
  LET heads  == {c \in Conversations : Routing[c] = ch /\ queues[c] # <<>>}
      oldest == CHOOSE c \in heads :
                  \A d \in heads : Head(queues[c]).received_at <= Head(queues[d]).received_at
  IN  IF Cardinality(Positions(queues, ch)) <= MaxPending THEN queues
      ELSE PopUntilCap([queues EXCEPT ![oldest] = Tail(@)], ch)

\* The closed form leaves the queues the loop leaves, and reports as evicted
\* the events the loop popped.
ASSUME CapLoopAgrees ==
  \A start \in Arrangements : \A conv \in Conversations :
    start[conv] # <<>> =>
      LET result == EnforceRoutingCap([NewQueue EXCEPT !.queues = start], conv)
          left   == PopUntilCap(start, Routing[conv])
      IN  /\ result.queues = left
          /\ result.evicted = UNION {Ids(start[c]) \ Ids(left[c]) : c \in Conversations}

\* A batch lists the drained events by created_at, same-second events in the order
\* they were queued, none lost or doubled.
ASSUME SortIsStable ==
  \A start \in Arrangements : \A c \in Conversations :
    LET s == start[c]
        r == SortByCreatedAt(s)
        at(e) == CHOOSE i \in DOMAIN s : s[i].id = e
    IN  /\ Len(r) = Len(s) /\ Range(r) = Range(s)
        /\ \A i, j \in DOMAIN r : i < j =>
             \/ CreatedAt[r[i].id] < CreatedAt[r[j].id]
             \/ CreatedAt[r[i].id] = CreatedAt[r[j].id] /\ at(r[i].id) < at(r[j].id)

\* remove_event keeps the other entries, in their order.
ASSUME RetainAgrees ==
  \A start \in Arrangements : \A c \in Conversations, e \in Events :
    Without(start[c], e) = SelectSeq(start[c], LAMBDA x : x.id # e)
=============================================================================
