-------------------------- MODULE LifecycleProofs --------------------------
(***************************************************************************)
(* Machine-checked proofs about module PoolLifecycle, for every finite set *)
(* of slots and every bound on events and failures: there is one pool at   *)
(* most, its lifecycle always has somebody to move it, and a pool that     *)
(* sleeps holds nothing back.                                              *)
(***************************************************************************)
EXTENDS PoolLifecycle, FiniteSetTheorems, TLAPS

-----------------------------------------------------------------------------
(* The inductive invariant.                                                *)

Kinds == {"listening", "waking", "draining", "failed"}

SlotStates == {"hole", "idle", "busy", "lost"}

SpawnStates == {"none", "running", "ok", "failed"}

WakeStates == {"running", "ok", "failed", "panicked"}

Queues == [flush : Nat, held : Nat, throttled : Nat]

\* What every variable is.
LShape ==
  /\ pc \in {"top", "fill", "maintain", "collect", "select"}
  /\ lifecycle \in [kind : Kinds, attempt : Nat, rewake : BOOLEAN, due : BOOLEAN]
  /\ ready \in BOOLEAN /\ demand \in BOOLEAN /\ seen \in BOOLEAN
  /\ slot \in [Slots -> SlotStates] /\ spawn \in [Slots -> SpawnStates]
  /\ wakes \subseteq [attempt : Nat \ {0}, state : WakeStates]
  /\ drain \in {"none", "running", "done"}
  /\ queue \in Queues
  /\ arrived \in 0 .. MaxEvents /\ failures \in 0 .. MaxFailures

\* One wake task, and only while the lifecycle waits for it; the pool is in use only
\* while the lifecycle is back at Listening; a drain has its task or its message.
OwnerInv ==
  /\ lifecycle.kind = "waking" =>
       \E st \in WakeStates : wakes = {[attempt |-> lifecycle.attempt, state |-> st]}
  /\ lifecycle.kind # "waking" => wakes = {}
  /\ lifecycle.kind = "draining" <=> drain # "none"
  /\ ready => lifecycle.kind = "listening"

\* Attempts count the wakes that failed: every one but the one under way.
AttemptInv ==
  /\ lifecycle.kind \in {"listening", "draining"} => lifecycle.attempt = 0
  /\ lifecycle.kind = "failed" => lifecycle.attempt <= failures
  /\ \A w \in wakes : /\ w.attempt <= failures + 1
                      /\ w.state \in {"failed", "panicked"} => w.attempt <= failures

LifecycleInv == LShape /\ OwnerInv /\ AttemptInv /\ SleepStrandsNothing

-----------------------------------------------------------------------------
(* Dispatch.                                                               *)

\* A dispatch takes flushable events only, and no more than there are.
LEMMA DispatchTakes ==
  ASSUME NEW q \in Queues, NEW sl \in [Slots -> SlotStates], demand \in BOOLEAN, Dispatch(q, sl)
  PROVE  /\ slot' \in [Slots -> SlotStates] /\ demand' \in BOOLEAN
         /\ queue' \in Queues /\ queue'.held = q.held /\ queue'.throttled = q.throttled
<1> DEFINE idle == {s \in Slots : sl[s] = "idle"}
           n == IF q.flush < Cardinality(idle) THEN q.flush ELSE Cardinality(idle)
<1>1. Cardinality(idle) \in Nat
  <2>1. IsFiniteSet(idle)
    BY LifecycleAssumption, FS_Subset
  <2> QED
    BY <2>1, FS_CardinalityType
<1>2. \E S \in SUBSET idle :
        /\ Cardinality(S) = n
        /\ slot' = [s \in Slots |-> IF s \in S THEN "busy" ELSE sl[s]]
        /\ queue' = [q EXCEPT !.flush = @ - n]
        /\ demand' = (demand \/ q.flush > n)
  BY DEF Dispatch
<1> HIDE DEF idle
<1>3. n \in Nat /\ n <= q.flush
  BY <1>1 DEF Queues
<1> HIDE DEF n
<1>4. slot' \in [Slots -> SlotStates]
  BY <1>2 DEF SlotStates
<1>5. q.flush - n \in Nat
  BY <1>3 DEF Queues
<1>6. queue' = [q EXCEPT !.flush = q.flush - n]
  BY <1>2
<1>7. queue' \in Queues /\ queue'.held = q.held /\ queue'.throttled = q.throttled
  BY <1>5, <1>6 DEF Queues
<1>8. demand' \in BOOLEAN
  BY <1>2
<1> QED
  BY <1>4, <1>7, <1>8

\* The same for one that happens only if the pool is there.
LEMMA DispatchIfReadyTakes ==
  ASSUME LShape, NEW q \in Queues, DispatchIfReady(q)
  PROVE  /\ slot' \in [Slots -> SlotStates] /\ demand' \in BOOLEAN
         /\ queue' \in Queues /\ queue'.held = q.held /\ queue'.throttled = q.throttled
         /\ ~ready => slot' = slot
<1>1. demand \in BOOLEAN /\ slot \in [Slots -> SlotStates]
  BY DEF LShape
<1>2. CASE ready /\ Dispatch(q, slot)
  BY <1>1, <1>2, DispatchTakes
<1>3. CASE ~ready /\ queue' = q /\ UNCHANGED <<slot, demand>>
  BY <1>1, <1>3
<1> QED
  BY <1>2, <1>3 DEF DispatchIfReady

-----------------------------------------------------------------------------
(* Steps that leave the lifecycle to itself.                               *)

\* A step that moves neither the lifecycle, its tasks nor the pool.
Keeps == UNCHANGED <<lifecycle, ready, wakes, drain, failures>>

\* OwnerInv and AttemptInv are about those alone.
LEMMA OwnersKept ==
  ASSUME OwnerInv, AttemptInv, Keeps
  PROVE  OwnerInv' /\ AttemptInv'
  BY DEF OwnerInv, AttemptInv, Keeps

\* The fields of the lifecycle and of the queue.
LEMMA Fields ==
  ASSUME LShape
  PROVE  /\ lifecycle.kind \in Kinds /\ lifecycle.attempt \in Nat
         /\ lifecycle.rewake \in BOOLEAN /\ lifecycle.due \in BOOLEAN
         /\ queue.flush \in Nat /\ queue.held \in Nat /\ queue.throttled \in Nat
  BY DEF LShape, Queues

\* An event moves to the flushable ones.
LEMMA Shifts ==
  ASSUME NEW q \in Queues
  PROVE  /\ q.held > 0 => /\ [q EXCEPT !.held = @ - 1, !.flush = @ + 1] \in Queues
                          /\ [q EXCEPT !.held = @ - 1, !.flush = @ + 1].throttled = q.throttled
         /\ q.throttled > 0 => [q EXCEPT !.throttled = @ - 1, !.flush = @ + 1] \in Queues
<1>1. q.flush \in Nat /\ q.held \in Nat /\ q.throttled \in Nat
  BY DEF Queues
<1>2. q = [flush |-> q.flush, held |-> q.held, throttled |-> q.throttled]
  BY DEF Queues
<1>3. PICK f \in Nat, h \in Nat, k \in Nat : q = [flush |-> f, held |-> h, throttled |-> k]
  BY <1>1, <1>2
<1>4. ASSUME NEW a, NEW b
      PROVE  /\ [q EXCEPT !.held = a, !.flush = b] = [flush |-> b, held |-> a, throttled |-> k]
             /\ [q EXCEPT !.throttled = a, !.flush = b] = [flush |-> b, held |-> h, throttled |-> a]
  <2>1. [q EXCEPT !.held = a] = [flush |-> f, held |-> a, throttled |-> k]
    BY <1>3
  <2>2. [q EXCEPT !.throttled = a] = [flush |-> f, held |-> h, throttled |-> a]
    BY <1>3
  <2>3. [[flush |-> f, held |-> a, throttled |-> k] EXCEPT !.flush = b] = [flush |-> b, held |-> a, throttled |-> k]
    OBVIOUS
  <2>4. [[flush |-> f, held |-> h, throttled |-> a] EXCEPT !.flush = b] = [flush |-> b, held |-> h, throttled |-> a]
    OBVIOUS
  <2>5. [q EXCEPT !.held = a, !.flush = b] = [[q EXCEPT !.held = a] EXCEPT !.flush = b]
    OBVIOUS
  <2>6. [q EXCEPT !.throttled = a, !.flush = b] = [[q EXCEPT !.throttled = a] EXCEPT !.flush = b]
    OBVIOUS
  <2> QED
    BY <2>1, <2>2, <2>3, <2>4, <2>5, <2>6
<1>5. ASSUME NEW a \in Nat, NEW b \in Nat, NEW c \in Nat
      PROVE  [flush |-> a, held |-> b, throttled |-> c] \in Queues
             /\ [flush |-> a, held |-> b, throttled |-> c].throttled = c
  BY DEF Queues
<1>6. q.flush = f /\ q.held = h /\ q.throttled = k
  BY <1>3
<1>7. [q EXCEPT !.held = @ - 1, !.flush = @ + 1]
        = [flush |-> q.flush + 1, held |-> q.held - 1, throttled |-> k]
  BY <1>4, Zenon
<1>8. [q EXCEPT !.throttled = @ - 1, !.flush = @ + 1]
        = [flush |-> q.flush + 1, held |-> h, throttled |-> q.throttled - 1]
  BY <1>4, Zenon
<1>9. f + 1 \in Nat /\ (h > 0 => h - 1 \in Nat) /\ (k > 0 => k - 1 \in Nat)
  OBVIOUS
<1> QED
  BY <1>5, <1>6, <1>7, <1>8, <1>9

\* The top of the loop: fill, maintenance and collection.
LEMMA TopStep ==
  ASSUME LifecycleInv, FillOnDemand \/ NoFill \/ Maintain \/ NotDue \/ Collect
  PROVE  LifecycleInv'
<1>1. LShape /\ OwnerInv /\ AttemptInv /\ SleepStrandsNothing
  BY DEF LifecycleInv
<1>2. Keeps /\ UNCHANGED <<seen, arrived>>
  BY DEF FillOnDemand, NoFill, Maintain, NotDue, Collect, Keeps, env
<1>3. OwnerInv' /\ AttemptInv'
  BY <1>1, <1>2, OwnersKept
<1>4. pc' \in {"top", "fill", "maintain", "collect", "select"}
  BY DEF FillOnDemand, NoFill, Maintain, NotDue, Collect, Goto
<1>5. queue \in Queues /\ slot \in [Slots -> SlotStates] /\ spawn \in [Slots -> SpawnStates] /\ demand \in BOOLEAN
  BY <1>1 DEF LShape
<1>6. spawn' \in [Slots -> SpawnStates]
  BY <1>5 DEF FillOnDemand, NoFill, Maintain, NotDue, Collect, SpawnStates
<1>7. /\ slot' \in [Slots -> SlotStates] /\ demand' \in BOOLEAN
      /\ queue' \in Queues /\ queue'.throttled = queue.throttled
  <2>1. CASE FillOnDemand \/ NoFill \/ NotDue
    BY <1>5, <2>1 DEF FillOnDemand, NoFill, NotDue
  <2>2. CASE Maintain
    BY <1>5, <2>2, DispatchTakes DEF Maintain
  <2>3. CASE Collect
    <3> DEFINE ok == {s \in Slots : spawn[s] = "ok"}
               sl == [s \in Slots |-> IF s \in ok THEN "idle" ELSE slot[s]]
    <3>1. sl \in [Slots -> SlotStates]
      BY <1>5 DEF SlotStates
    <3>2. Dispatch(queue, sl) \/ UNCHANGED <<slot, queue, demand>>
      BY <2>3 DEF Collect
    <3> HIDE DEF sl
    <3> QED
      BY <1>5, <3>1, <3>2, DispatchTakes
  <2> QED
    BY <2>1, <2>2, <2>3
<1>8. LShape'
  BY <1>1, <1>2, <1>4, <1>6, <1>7 DEF LShape, Keeps
<1>9. ASSUME ~ready PROVE UNCHANGED <<slot, spawn>>
  <2>1. \A s \in Slots : spawn[s] = "none"
    BY <1>1, <1>9 DEF SleepStrandsNothing
  <2>2. CASE Collect
    <3>1. UNCHANGED slot
      BY <2>1, <2>2 DEF Collect
    <3>2. spawn' = [s \in Slots |-> IF spawn[s] \in {"ok", "failed"} THEN "none" ELSE spawn[s]]
      BY <2>2 DEF Collect
    <3>3. spawn' = spawn
      BY <1>5, <2>1, <3>2
    <3> QED
      BY <3>1, <3>3
  <2> QED
    BY <1>9, <2>2 DEF FillOnDemand, NoFill, Maintain, NotDue
<1>10. SleepStrandsNothing'
  BY <1>1, <1>2, <1>7, <1>9 DEF SleepStrandsNothing, Keeps
<1> QED
  BY <1>3, <1>8, <1>10 DEF LifecycleInv

\* The arms of the select that leave the lifecycle alone.
LEMMA ArmStep ==
  ASSUME LifecycleInv,
         (\E s \in Slots : TurnDone(s)) \/ HoldEnds \/ EventArrives \/ IdleTick \/ RetrySleepEnds
  PROVE  LifecycleInv'
<1>1. LShape /\ OwnerInv /\ AttemptInv /\ SleepStrandsNothing
  BY DEF LifecycleInv
<1>2. Keeps /\ UNCHANGED <<seen, spawn>>
  BY DEF TurnDone, HoldEnds, EventArrives, IdleTick, RetrySleepEnds, Keeps, env
<1>3. OwnerInv' /\ AttemptInv'
  BY <1>1, <1>2, OwnersKept
<1>4. pc' \in {"top", "fill", "maintain", "collect", "select"}
  BY DEF TurnDone, HoldEnds, EventArrives, IdleTick, RetrySleepEnds, Select, Goto
<1>5. queue \in Queues /\ slot \in [Slots -> SlotStates] /\ demand \in BOOLEAN
  BY <1>1 DEF LShape
<1>6. arrived' \in 0 .. MaxEvents
  <2>1. arrived' = arrived \/ (arrived < MaxEvents /\ arrived' = arrived + 1)
    BY DEF TurnDone, HoldEnds, EventArrives, IdleTick, RetrySleepEnds, env
  <2>2. arrived \in 0 .. MaxEvents /\ MaxEvents \in Nat
    BY <1>1, LifecycleAssumption DEF LShape
  <2> QED
    BY <2>1, <2>2
<1>7. /\ slot' \in [Slots -> SlotStates] /\ demand' \in BOOLEAN
      /\ queue' \in Queues /\ queue'.throttled = queue.throttled /\ (~ready => slot' = slot)
  <2>1. ASSUME NEW s \in Slots, TurnDone(s)
        PROVE  /\ slot' \in [Slots -> SlotStates] /\ demand' \in BOOLEAN
               /\ queue' \in Queues /\ queue'.throttled = queue.throttled /\ (~ready => slot' = slot)
    <3>1. ready /\ Dispatch(queue, [slot EXCEPT ![s] = "idle"])
      BY <2>1 DEF TurnDone
    <3>2. [slot EXCEPT ![s] = "idle"] \in [Slots -> SlotStates]
      BY <1>5 DEF SlotStates
    <3> QED
      BY <1>5, <3>1, <3>2, DispatchTakes
  <2>2. CASE HoldEnds
    <3> DEFINE q == [queue EXCEPT !.held = @ - 1, !.flush = @ + 1]
    <3>1. q \in Queues /\ q.throttled = queue.throttled
      BY <1>5, <2>2, Shifts DEF HoldEnds
    <3>2. DispatchIfReady(q)
      BY <2>2 DEF HoldEnds
    <3> HIDE DEF q
    <3> QED
      BY <1>1, <3>1, <3>2, DispatchIfReadyTakes
  <2>3. CASE EventArrives
    <3> DEFINE q == [queue EXCEPT !.flush = @ + 1]
               h == [queue EXCEPT !.held = @ + 1]
    <3>1. q \in Queues /\ q.throttled = queue.throttled /\ h \in Queues /\ h.throttled = queue.throttled
      BY <1>5 DEF Queues
    <3>2. DispatchIfReady(q) \/ (queue' = h /\ UNCHANGED <<slot, demand>>)
      BY <2>3 DEF EventArrives
    <3> HIDE DEF q, h
    <3>3. CASE DispatchIfReady(q)
      BY <1>1, <3>1, <3>3, DispatchIfReadyTakes
    <3> QED
      BY <1>5, <3>1, <3>2, <3>3
  <2>4. CASE IdleTick \/ RetrySleepEnds
    BY <1>5, <2>4 DEF IdleTick, RetrySleepEnds
  <2> QED
    BY <2>1, <2>2, <2>3, <2>4
<1>8. LShape'
  BY <1>1, <1>2, <1>4, <1>6, <1>7 DEF LShape, Keeps
<1>9. SleepStrandsNothing'
  BY <1>1, <1>2, <1>7 DEF SleepStrandsNothing, Keeps
<1> QED
  BY <1>3, <1>8, <1>9 DEF LifecycleInv

\* A turn that fails: the count of failures grows, and the pool is there.
LEMMA FailedTurnStep ==
  ASSUME LifecycleInv, NEW s \in Slots, TurnRetried(s) \/ EngineExits(s)
  PROVE  LifecycleInv'
<1>1. LShape /\ OwnerInv /\ AttemptInv
  BY DEF LifecycleInv
<1>2. /\ ready /\ UNCHANGED <<lifecycle, ready, wakes, drain, seen, arrived>>
      /\ failures < MaxFailures /\ failures' = failures + 1
      /\ pc' = "top"
  BY DEF TurnRetried, EngineExits, Select, Goto, Fail
<1>3. queue \in Queues /\ slot \in [Slots -> SlotStates] /\ spawn \in [Slots -> SpawnStates]
      /\ demand \in BOOLEAN /\ failures \in 0 .. MaxFailures /\ MaxFailures \in Nat
  BY <1>1, LifecycleAssumption DEF LShape
<1>4. wakes = {} /\ lifecycle.kind = "listening"
  BY <1>1, <1>2 DEF OwnerInv
<1>5. spawn' \in [Slots -> SpawnStates]
  BY <1>3 DEF TurnRetried, EngineExits, SpawnStates
<1>6. slot' \in [Slots -> SlotStates] /\ demand' \in BOOLEAN /\ queue' \in Queues
  <2> DEFINE q == [queue EXCEPT !.throttled = @ + 1]
             sl(x) == [slot EXCEPT ![s] = x]
  <2>1. q \in Queues /\ sl("idle") \in [Slots -> SlotStates] /\ sl("lost") \in [Slots -> SlotStates]
    BY <1>3 DEF Queues, SlotStates
  <2>2. Dispatch(q, sl("idle")) \/ Dispatch(q, sl("lost"))
    BY DEF TurnRetried, EngineExits
  <2> HIDE DEF q, sl
  <2> QED
    BY <1>3, <2>1, <2>2, DispatchTakes
<1>7. failures' \in 0 .. MaxFailures
  BY <1>2, <1>3
<1>8. LShape'
  BY <1>1, <1>2, <1>5, <1>6, <1>7 DEF LShape
<1>9. OwnerInv'
  BY <1>1, <1>2 DEF OwnerInv
<1>10. AttemptInv'
  BY <1>1, <1>2, <1>4 DEF AttemptInv
<1>11. SleepStrandsNothing'
  BY <1>2 DEF SleepStrandsNothing
<1> QED
  BY <1>8, <1>9, <1>10, <1>11 DEF LifecycleInv

-----------------------------------------------------------------------------
(* Steps of the lifecycle.                                                 *)

\* The wake check, with and without a wake that starts.
LEMMA WakeCheckStep ==
  ASSUME LifecycleInv, StartWake \/ NoWake
  PROVE  LifecycleInv'
<1>1. LShape /\ OwnerInv /\ AttemptInv /\ SleepStrandsNothing
  BY DEF LifecycleInv
<1>2. /\ lifecycle.kind \in Kinds /\ lifecycle.attempt \in Nat /\ queue.flush \in Nat
      /\ lifecycle.rewake \in BOOLEAN /\ lifecycle.due \in BOOLEAN
  BY <1>1, Fields
<1>3. pc' = "fill" /\ UNCHANGED <<ready, slot, spawn, demand, drain, queue, arrived, failures>>
      /\ seen' \in BOOLEAN
  BY DEF StartWake, NoWake, Goto, env, WorkPending, Wakeable
<1>4. failures \in Nat
  BY <1>1, LifecycleAssumption DEF LShape
<1>5. CASE StartWake
  <2>1. ~ready /\ WakeAttempt > 0
    BY <1>5 DEF StartWake, WorkPending, Wakeable
  <2>2. \/ lifecycle.kind = "listening" /\ WakeAttempt = 1
        \/ lifecycle.kind = "failed" /\ WakeAttempt = lifecycle.attempt + 1
    BY <1>2, <2>1 DEF WakeAttempt
  <2>3. WakeAttempt \in Nat \ {0} /\ WakeAttempt <= failures + 1
    BY <1>1, <1>2, <1>4, <2>2 DEF AttemptInv
  <2>4. wakes = {} /\ drain = "none"
    BY <1>1, <2>2 DEF OwnerInv
  <2> DEFINE a == WakeAttempt
  <2> HIDE DEF a
  <2>5. lifecycle' = [kind |-> "waking", attempt |-> a, rewake |-> FALSE, due |-> FALSE]
    BY <1>5 DEF StartWake, Listening, a
  <2>6. wakes' = {[attempt |-> a, state |-> "running"]}
    BY <1>5, <2>4 DEF StartWake, a
  <2>7. a \in Nat \ {0} /\ a <= failures + 1
    BY <2>3 DEF a
  <2>8. lifecycle' \in [kind : Kinds, attempt : Nat, rewake : BOOLEAN, due : BOOLEAN]
        /\ wakes' \subseteq [attempt : Nat \ {0}, state : WakeStates]
    BY <2>5, <2>6, <2>7 DEF Kinds, WakeStates
  <2>9. LShape'
    BY <1>1, <1>3, <2>8 DEF LShape
  <2>10. OwnerInv'
    BY <1>3, <2>1, <2>4, <2>5, <2>6 DEF OwnerInv, WakeStates
  <2>11. AttemptInv'
    BY <1>3, <2>5, <2>6, <2>7 DEF AttemptInv
  <2>12. SleepStrandsNothing'
    BY <1>1, <1>3 DEF SleepStrandsNothing
  <2> QED
    BY <2>9, <2>10, <2>11, <2>12 DEF LifecycleInv
<1>6. CASE NoWake
  <2>1. wakes' = wakes /\ (lifecycle' = lifecycle \/ (lifecycle.kind = "draining" /\ lifecycle' = [lifecycle EXCEPT !.rewake = TRUE]))
    BY <1>6 DEF NoWake
  <2>2. /\ lifecycle' \in [kind : Kinds, attempt : Nat, rewake : BOOLEAN, due : BOOLEAN]
        /\ lifecycle'.kind = lifecycle.kind /\ lifecycle'.attempt = lifecycle.attempt
    BY <1>1, <2>1 DEF LShape
  <2>3. LShape'
    BY <1>1, <1>3, <2>1, <2>2 DEF LShape
  <2>4. OwnerInv' /\ AttemptInv' /\ SleepStrandsNothing'
    BY <1>1, <1>3, <2>1, <2>2 DEF OwnerInv, AttemptInv, SleepStrandsNothing
  <2> QED
    BY <2>3, <2>4 DEF LifecycleInv
<1> QED
  BY <1>5, <1>6

\* The result of a wake is received: the one that is waited for.
LEMMA ReceivedStep ==
  ASSUME LifecycleInv, NEW w \in wakes, WakeSucceeded(w) \/ WakeFailed(w)
  PROVE  LifecycleInv'
<1>1. LShape /\ OwnerInv /\ AttemptInv /\ SleepStrandsNothing
  BY DEF LifecycleInv
<1>2. lifecycle.kind = "waking" /\ wakes = {w} /\ w.attempt = lifecycle.attempt /\ ~ready /\ drain = "none"
  <2>1. lifecycle.kind = "waking"
    BY <1>1 DEF OwnerInv
  <2>2. PICK st \in WakeStates : wakes = {[attempt |-> lifecycle.attempt, state |-> st]}
    BY <1>1, <2>1 DEF OwnerInv
  <2>3. w = [attempt |-> lifecycle.attempt, state |-> st]
    BY <2>2
  <2> QED
    BY <1>1, <2>1, <2>2, <2>3 DEF OwnerInv
<1>3. pc' = "top" /\ wakes' = {} /\ UNCHANGED <<spawn, drain, seen, arrived, failures>>
  BY <1>2 DEF WakeSucceeded, WakeFailed, Select, Goto, env
<1>4. /\ lifecycle.kind \in Kinds /\ lifecycle.attempt \in Nat
      /\ lifecycle.rewake \in BOOLEAN /\ lifecycle.due \in BOOLEAN
  BY <1>1, Fields
<1>5. CASE WakeSucceeded(w)
  <2> DEFINE sl == [s \in Slots |-> IF s = FirstSlot THEN "idle" ELSE "hole"]
  <2>1. lifecycle' = Listening /\ ready' = TRUE /\ Dispatch(queue, sl)
    BY <1>2, <1>5 DEF WakeSucceeded, Matches
  <2>2. sl \in [Slots -> SlotStates]
    BY DEF SlotStates
  <2> HIDE DEF sl
  <2>3. slot' \in [Slots -> SlotStates] /\ demand' \in BOOLEAN /\ queue' \in Queues
    BY <1>1, <2>1, <2>2, DispatchTakes DEF LShape
  <2>4. lifecycle' \in [kind : Kinds, attempt : Nat, rewake : BOOLEAN, due : BOOLEAN]
        /\ lifecycle'.kind = "listening" /\ lifecycle'.attempt = 0
    BY <2>1 DEF Listening, Kinds
  <2>5. LShape'
    BY <1>1, <1>3, <2>1, <2>3, <2>4 DEF LShape
  <2>6. OwnerInv' /\ AttemptInv' /\ SleepStrandsNothing'
    BY <1>2, <1>3, <2>1, <2>4 DEF OwnerInv, AttemptInv, SleepStrandsNothing
  <2> QED
    BY <2>5, <2>6 DEF LifecycleInv
<1>6. CASE WakeFailed(w)
  <2>1. /\ lifecycle' = [lifecycle EXCEPT !.kind = "failed", !.due = FALSE]
        /\ w.state \in {"failed", "panicked"} /\ UNCHANGED <<ready, slot, demand, queue>>
    BY <1>2, <1>6 DEF WakeFailed, AfterFailedWake, Matches
  <2>2. /\ lifecycle' \in [kind : Kinds, attempt : Nat, rewake : BOOLEAN, due : BOOLEAN]
        /\ lifecycle'.kind = "failed" /\ lifecycle'.attempt = lifecycle.attempt
    BY <1>1, <2>1 DEF LShape, Kinds
  <2>3. lifecycle.attempt <= failures
    BY <1>1, <1>2, <2>1 DEF AttemptInv
  <2>4. LShape'
    BY <1>1, <1>3, <2>1, <2>2 DEF LShape
  <2>5. OwnerInv' /\ AttemptInv' /\ SleepStrandsNothing'
    BY <1>1, <1>2, <1>3, <2>1, <2>2, <2>3 DEF OwnerInv, AttemptInv, SleepStrandsNothing
  <2> QED
    BY <2>4, <2>5 DEF LifecycleInv
<1> QED
  BY <1>5, <1>6

\* The pool goes to the teardown task, and the task's message is received.
LEMMA DrainStep ==
  ASSUME LifecycleInv, EnterDraining \/ DrainDone
  PROVE  LifecycleInv'
<1>1. LShape /\ OwnerInv /\ AttemptInv /\ SleepStrandsNothing
  BY DEF LifecycleInv
<1>2. pc' = "top" /\ UNCHANGED <<spawn, wakes, queue, seen, arrived, failures>>
  BY DEF EnterDraining, DrainDone, Select, Goto, env
<1>3. queue.flush \in Nat /\ queue.held \in Nat /\ queue.throttled \in Nat
  BY <1>1, Fields
<1>4. CASE EnterDraining
  <2>1. /\ ready /\ \A s \in Slots : spawn[s] = "none"
        /\ wakes = {} /\ ~(queue.flush + queue.held + queue.throttled > 0)
        /\ ready' = FALSE /\ drain' = "running" /\ demand' = FALSE /\ slot' = [s \in Slots |-> "hole"]
        /\ lifecycle' = [Listening EXCEPT !.kind = "draining"]
    BY <1>4 DEF EnterDraining, SleepDue, Undispatched, Queued
  <2>2. lifecycle' = [kind |-> "draining", attempt |-> 0, rewake |-> FALSE, due |-> FALSE]
    BY <2>1 DEF Listening
  <2>3. queue.throttled = 0
    BY <1>3, <2>1
  <2>4. slot' \in [Slots -> SlotStates] /\ \A s \in Slots : slot'[s] = "hole"
    BY <2>1 DEF SlotStates
  <2>5. lifecycle' \in [kind : Kinds, attempt : Nat, rewake : BOOLEAN, due : BOOLEAN]
    BY <2>2 DEF Kinds
  <2>6. LShape'
    BY <1>1, <1>2, <2>1, <2>4, <2>5 DEF LShape
  <2>7. OwnerInv' /\ AttemptInv' /\ SleepStrandsNothing'
    BY <1>2, <2>1, <2>2, <2>3, <2>4 DEF OwnerInv, AttemptInv, SleepStrandsNothing
  <2> QED
    BY <2>6, <2>7 DEF LifecycleInv
<1>5. CASE DrainDone
  <2>1. /\ lifecycle.kind = "draining" /\ drain' = "none" /\ lifecycle' = Listening
        /\ UNCHANGED <<ready, slot, demand>>
    BY <1>5 DEF DrainDone
  <2>2. lifecycle' = [kind |-> "listening", attempt |-> 0, rewake |-> FALSE, due |-> FALSE]
    BY <2>1 DEF Listening
  <2>3. wakes = {}
    BY <1>1, <2>1 DEF OwnerInv
  <2>4. lifecycle' \in [kind : Kinds, attempt : Nat, rewake : BOOLEAN, due : BOOLEAN]
    BY <2>2 DEF Kinds
  <2>5. LShape'
    BY <1>1, <1>2, <2>1, <2>4 DEF LShape
  <2>6. OwnerInv' /\ AttemptInv' /\ SleepStrandsNothing'
    BY <1>1, <1>2, <2>1, <2>2, <2>3 DEF OwnerInv, AttemptInv, SleepStrandsNothing
  <2> QED
    BY <2>5, <2>6 DEF LifecycleInv
<1> QED
  BY <1>4, <1>5

-----------------------------------------------------------------------------
(* The background tasks, and time.                                         *)

\* A wake task ends, well or not: it keeps its attempt.
LEMMA WakeFinishesStep ==
  ASSUME LifecycleInv, NEW w \in wakes, WakeFinishes(w)
  PROVE  LifecycleInv'
<1>1. LShape /\ OwnerInv /\ AttemptInv /\ SleepStrandsNothing
  BY DEF LifecycleInv
<1>2. lifecycle.kind = "waking"
  BY <1>1 DEF OwnerInv
<1>3. PICK st \in WakeStates : wakes = {[attempt |-> lifecycle.attempt, state |-> st]}
  BY <1>1, <1>2 DEF OwnerInv
<1>4. w = [attempt |-> lifecycle.attempt, state |-> st]
  BY <1>3
<1>5. UNCHANGED <<pc, lifecycle, ready, slot, spawn, demand, drain, queue, seen, arrived>>
  BY DEF WakeFinishes
<1>6. failures \in 0 .. MaxFailures /\ MaxFailures \in Nat
  BY <1>1, LifecycleAssumption DEF LShape
<1>7. PICK z \in WakeStates :
        /\ wakes' = (wakes \ {w}) \cup {[w EXCEPT !.state = z]}
        /\ \/ failures' = failures /\ z = "ok"
           \/ failures < MaxFailures /\ failures' = failures + 1
  BY DEF WakeFinishes, Fail, WakeStates
<1>8. wakes' = {[attempt |-> lifecycle.attempt, state |-> z]}
  BY <1>3, <1>4, <1>7
<1>9. lifecycle.attempt \in Nat \ {0} /\ lifecycle.attempt <= failures + 1
  BY <1>1, <1>4 DEF LShape, AttemptInv
<1>10. wakes' \subseteq [attempt : Nat \ {0}, state : WakeStates] /\ failures' \in 0 .. MaxFailures
  BY <1>6, <1>7, <1>8, <1>9
<1>11. LShape'
  BY <1>1, <1>5, <1>10 DEF LShape
<1>12. OwnerInv'
  BY <1>1, <1>2, <1>5, <1>8 DEF OwnerInv
<1>13. AttemptInv'
  BY <1>2, <1>5, <1>6, <1>7, <1>8, <1>9 DEF AttemptInv
<1>14. SleepStrandsNothing'
  BY <1>1, <1>5 DEF SleepStrandsNothing
<1> QED
  BY <1>11, <1>12, <1>13, <1>14 DEF LifecycleInv

\* The other background steps.
LEMMA BackgroundStep ==
  ASSUME LifecycleInv, (\E s \in Slots : SpawnFinishes(s)) \/ DrainFinishes \/ RetryComesDue \/ ThrottleEnds
  PROVE  LifecycleInv'
<1>1. LShape /\ OwnerInv /\ AttemptInv /\ SleepStrandsNothing
  BY DEF LifecycleInv
<1>2. failures \in 0 .. MaxFailures /\ MaxFailures \in Nat
  BY <1>1, LifecycleAssumption DEF LShape
<1>3. /\ lifecycle.kind \in Kinds /\ lifecycle.attempt \in Nat /\ queue.throttled \in Nat
  BY <1>1, Fields
<1>4. ASSUME NEW s \in Slots, SpawnFinishes(s) PROVE LifecycleInv'
  <2>1. /\ UNCHANGED <<pc, lifecycle, ready, slot, demand, wakes, drain, queue, seen, arrived>>
        /\ spawn[s] = "running" /\ \E z \in SpawnStates : spawn' = [spawn EXCEPT ![s] = z]
        /\ failures' = failures \/ (failures < MaxFailures /\ failures' = failures + 1)
    BY <1>4 DEF SpawnFinishes, Fail, SpawnStates
  <2>2. ready
    BY <1>1, <2>1 DEF SleepStrandsNothing
  <2>3. wakes = {} /\ lifecycle.kind = "listening"
    BY <1>1, <2>2 DEF OwnerInv
  <2>4. spawn' \in [Slots -> SpawnStates] /\ failures' \in 0 .. MaxFailures
    BY <1>1, <1>2, <2>1 DEF LShape
  <2>5. LShape'
    BY <1>1, <2>1, <2>4 DEF LShape
  <2>6. OwnerInv' /\ AttemptInv' /\ SleepStrandsNothing'
    BY <1>1, <2>1, <2>2, <2>3 DEF OwnerInv, AttemptInv, SleepStrandsNothing
  <2> QED
    BY <2>5, <2>6 DEF LifecycleInv
<1>5. CASE DrainFinishes
  <2>1. /\ UNCHANGED <<pc, lifecycle, ready, slot, spawn, demand, wakes, queue, seen, arrived, failures>>
        /\ drain = "running" /\ drain' = "done"
    BY <1>5 DEF DrainFinishes, env
  <2> QED
    BY <1>1, <2>1 DEF LifecycleInv, LShape, OwnerInv, AttemptInv, SleepStrandsNothing
<1>6. CASE RetryComesDue
  <2>1. /\ UNCHANGED <<pc, ready, slot, spawn, demand, wakes, drain, queue, seen, arrived, failures>>
        /\ lifecycle' = [lifecycle EXCEPT !.due = TRUE]
    BY <1>6 DEF RetryComesDue, env
  <2>2. /\ lifecycle' \in [kind : Kinds, attempt : Nat, rewake : BOOLEAN, due : BOOLEAN]
        /\ lifecycle'.kind = lifecycle.kind /\ lifecycle'.attempt = lifecycle.attempt
    BY <1>1, <2>1 DEF LShape
  <2>3. LShape'
    BY <1>1, <2>1, <2>2 DEF LShape
  <2>4. OwnerInv' /\ AttemptInv' /\ SleepStrandsNothing'
    BY <1>1, <2>1, <2>2 DEF OwnerInv, AttemptInv, SleepStrandsNothing
  <2> QED
    BY <2>3, <2>4 DEF LifecycleInv
<1>7. CASE ThrottleEnds
  <2>1. /\ UNCHANGED <<pc, lifecycle, ready, slot, spawn, demand, wakes, drain, seen, arrived, failures>>
        /\ queue.throttled > 0 /\ queue' = [queue EXCEPT !.throttled = @ - 1, !.flush = @ + 1]
    BY <1>7 DEF ThrottleEnds, env
  <2>2. ready
    BY <1>1, <1>3, <2>1 DEF SleepStrandsNothing
  <2>3. queue' \in Queues
    BY <1>1, <2>1, Shifts DEF LShape
  <2>4. LShape'
    BY <1>1, <2>1, <2>3 DEF LShape
  <2>5. OwnerInv' /\ AttemptInv' /\ SleepStrandsNothing'
    BY <1>1, <2>1, <2>2 DEF OwnerInv, AttemptInv, SleepStrandsNothing
  <2> QED
    BY <2>4, <2>5 DEF LifecycleInv
<1> QED
  BY <1>4, <1>5, <1>6, <1>7

-----------------------------------------------------------------------------
(* The invariant, and what follows from it.                                *)

\* The invariant holds at the start: a lazy harness listens without a pool.
LEMMA LifecycleInitInv == LInit => LifecycleInv
<1> SUFFICES ASSUME LInit PROVE LifecycleInv
  OBVIOUS
<1>1. lifecycle = [kind |-> "listening", attempt |-> 0, rewake |-> FALSE, due |-> FALSE]
  BY DEF LInit, Listening
<1>2. queue = [flush |-> 0, held |-> 0, throttled |-> 0]
  BY DEF LInit
<1>3. queue \in Queues /\ lifecycle \in [kind : Kinds, attempt : Nat, rewake : BOOLEAN, due : BOOLEAN]
  BY <1>1, <1>2 DEF Queues, Kinds
<1>4. slot \in [Slots -> SlotStates] /\ spawn \in [Slots -> SpawnStates]
  BY DEF LInit, SlotStates, SpawnStates
<1>5. LShape
  <2>1. pc = "top" /\ ready = FALSE /\ demand = FALSE /\ seen = FALSE /\ wakes = {} /\ drain = "none"
        /\ arrived = 0 /\ failures = 0
    BY DEF LInit
  <2>2. 0 \in 0 .. MaxEvents /\ 0 \in 0 .. MaxFailures
    BY LifecycleAssumption
  <2> QED
    BY <1>3, <1>4, <2>1, <2>2 DEF LShape
<1>6. OwnerInv /\ AttemptInv
  BY <1>1 DEF LInit, OwnerInv, AttemptInv
<1>7. SleepStrandsNothing
  BY <1>2 DEF LInit, SleepStrandsNothing
<1> QED
  BY <1>5, <1>6, <1>7 DEF LifecycleInv

\* Every step keeps it.
LEMMA LifecycleStep == LifecycleInv /\ [LNext]_lvars => LifecycleInv'
<1> SUFFICES ASSUME LifecycleInv, [LNext]_lvars PROVE LifecycleInv'
  OBVIOUS
<1>1. CASE UNCHANGED lvars
  BY <1>1 DEF lvars, LifecycleInv, LShape, OwnerInv, AttemptInv, SleepStrandsNothing
<1>2. CASE LNext
  BY <1>2, TopStep, ArmStep, FailedTurnStep, WakeCheckStep, ReceivedStep, DrainStep,
     WakeFinishesStep, BackgroundStep DEF LNext, LoopTop, TurnEnds, WakeReceived, Background
<1> QED
  BY <1>1, <1>2

\* The inductive invariant holds in every state of every behaviour.
LEMMA LifecycleInvariant == LSpec => []LifecycleInv
  BY LifecycleInitInv, LifecycleStep, PTL DEF LSpec

\* A pool that is not there holds nothing back: when the reaper let it go there was no
\* turn, no spawn and no throttled work, and none appears while it sleeps.
THEOREM SleepIsSafe == LSpec => []SleepStrandsNothing
<1>1. LifecycleInv => SleepStrandsNothing
  BY DEF LifecycleInv
<1> QED
  BY <1>1, LifecycleInvariant, PTL

\* The wake that is waited for is among the tasks and messages.
LEMMA WakeAwaited ==
  ASSUME OwnerInv, lifecycle.kind = "waking"
  PROVE  \E w \in wakes : w.attempt = lifecycle.attempt
<1>1. PICK st \in WakeStates : wakes = {[attempt |-> lifecycle.attempt, state |-> st]}
  BY DEF OwnerInv
<1>2. [attempt |-> lifecycle.attempt, state |-> st] \in wakes
      /\ [attempt |-> lifecycle.attempt, state |-> st].attempt = lifecycle.attempt
  BY <1>1
<1> QED
  BY <1>2

\* The lifecycle never waits for a wake or a drain that nobody is working on.
THEOREM LifecycleIsMoved == LSpec => []SomebodyMovesIt
<1>1. LifecycleInv => SomebodyMovesIt
  BY WakeAwaited DEF LifecycleInv, OwnerInv, SomebodyMovesIt
<1> QED
  BY <1>1, LifecycleInvariant, PTL

\* At most one pool has engines: the one in use, the one a wake builds, or the one a
\* drain tears down.
THEOREM AtMostOnePool == LSpec => []OnePool
<1>1. LifecycleInv => OnePool
  <2> SUFFICES ASSUME LifecycleInv PROVE OnePool
    OBVIOUS
  <2> DEFINE W == {w \in wakes : w.state \in {"running", "ok"}}
  <2>1. LShape /\ OwnerInv
    BY DEF LifecycleInv
  <2>2. CASE wakes = {}
    <3>1. Cardinality(W) = 0
      BY <2>2, FS_EmptySet
    <3>2. ~(ready /\ drain = "running")
      BY <2>1 DEF OwnerInv
    <3> QED
      BY <3>1, <3>2 DEF OnePool, PoolsWithEngines
  <2>3. CASE wakes # {}
    <3>1. lifecycle.kind = "waking"
      BY <2>1, <2>3 DEF OwnerInv
    <3>2. ~ready /\ drain = "none" /\ \E w : wakes = {w}
      BY <2>1, <3>1 DEF OwnerInv
    <3>3. PICK w : wakes = {w}
      BY <3>2
    <3>4. W = {} \/ W = {w}
      BY <3>3
    <3>5. Cardinality(W) \in {0, 1}
      BY <3>4, FS_EmptySet, FS_Singleton
    <3> QED
      BY <3>2, <3>5 DEF OnePool, PoolsWithEngines
  <2> QED
    BY <2>2, <2>3
<1> QED
  BY <1>1, LifecycleInvariant, PTL

\* Types, and the count of attempts: a wake's attempt is at most one more than the
\* failures before it.
THEOREM LifecycleTypeCorrect == LSpec => []LifecycleTypeOK
<1>1. LifecycleInv => LifecycleTypeOK
  <2> SUFFICES ASSUME LifecycleInv PROVE LifecycleTypeOK
    OBVIOUS
  <2>1. LShape /\ OwnerInv /\ AttemptInv
    BY DEF LifecycleInv
  <2>2. lifecycle.kind \in Kinds /\ lifecycle.attempt \in Nat /\ failures \in 0 .. MaxFailures /\ MaxFailures \in Nat
        /\ lifecycle.rewake \in BOOLEAN /\ lifecycle.due \in BOOLEAN
        /\ queue.flush \in Nat /\ queue.held \in Nat /\ queue.throttled \in Nat
    BY <2>1, Fields, LifecycleAssumption DEF LShape
  <2>3. \A w \in wakes : w.attempt \in 1 .. MaxFailures + 1 /\ w.state \in WakeStates
    BY <2>1, <2>2 DEF LShape, AttemptInv
  <2>4. lifecycle.attempt \in 0 .. MaxFailures + 1
    <3>1. CASE lifecycle.kind = "waking"
      <4>1. PICK w \in wakes : w.attempt = lifecycle.attempt
        BY <2>1, <3>1, WakeAwaited
      <4> QED
        BY <2>2, <2>3, <4>1
    <3> QED
      BY <2>1, <2>2, <3>1 DEF AttemptInv, Kinds
  <2>5. {lifecycle.rewake, lifecycle.due, ready, demand, seen} \subseteq BOOLEAN
    BY <2>1, <2>2 DEF LShape
  <2> QED
    BY <2>1, <2>2, <2>3, <2>4, <2>5 DEF LifecycleTypeOK, LShape, Kinds, SlotStates, SpawnStates, WakeStates
<1> QED
  BY <1>1, LifecycleInvariant, PTL
=============================================================================
