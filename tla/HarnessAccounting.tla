-------------------------- MODULE HarnessAccounting --------------------------
(***************************************************************************)
(* Harness with history variables that follow each event from the push     *)
(* that accepted it to the step that settled it.  They constrain nothing:  *)
(* every step is a step of Harness, and says which events it takes on and  *)
(* which it settles, that is answers, hands to a dead-letter notice, or    *)
(* drops because the owner, an edit or a membership change said so.        *)
(***************************************************************************)
EXTENDS Harness

VARIABLES
  owed,      \* events accepted and not settled
  merged     \* events dispatched as the interrupted part of a merged prompt

history == <<owed, merged>>

AInit ==
  /\ Init
  /\ owed = {}
  /\ merged = {}

\* The history after a step that accepts and settles these events.  An event
\* evicted at a cap is settled: its loss is logged.
Account(accepted, settled) ==
  /\ owed' = (owed \cup accepted) \ (settled \cup q'.evicted)
  /\ merged' = (merged \ accepted) \cap owed'

Accepted(e) == IF PushAccepts(q, e) THEN {e} ELSE {}
Dropped(cs) == UNION {HeldIds(q, c) : c \in cs}

\* handle_prompt_result and recover_panicked_agent give up on a batch.
GivenUp(t) ==
  IF \/ Routing[t.conv] \in removed
     \/ t.outcome \in {"hard_timeout", "auth_error"}
     \/ t.outcome \notin {"cancelled", "drain_timeout"} /\ RetryExhausted(q, t.conv)
     \/ t.phase = "panicked" /\ DedupMode = "Drop"
  THEN BatchIds(t.batch) ELSE {}

ANext ==
  \/ \E e \in Events :
       \/ \E exempt \in (IF HoldEnabled THEN BOOLEAN ELSE {FALSE}) :
            Ingest(e, exempt) /\ Account(Accepted(e), {})
       \/ \E edit \in Edits :
            /\ EditMessage(e, edit)
            /\ Account({}, IF edit = "drop" /\ EditApplies(q, e) THEN {e} ELSE {})
       \/ RetryTurn(e) /\ Account(Accepted(e), {})
       \/ \E a \in Agents, kind \in AckKinds : AnswerSteer(a, e, kind) /\ Account({}, {})
  \/ \E c \in Conversations :
       \/ \E s \in OwnerSignals :
            OwnerControl(c, s) /\ Account({}, IF q' # q THEN Dropped({c}) ELSE {})
       \/ Expire(c) /\ Account({}, {})
       \/ /\ DispatchBatch(c)
          /\ owed' = owed \ q'.evicted
          /\ merged' = merged \cup Ids(BatchFor(q, matured, c).cancelled_events)
       \/ RetryElapses(c) /\ Account({}, {})
  \/ \E ch \in Membership :
       \/ RemoveChannel(ch) /\ Account({}, Dropped(RoutedWork(q, ch)))
       \/ AddChannel(ch) /\ Account({}, {})
  \/ \E a \in Agents :
       \/ /\ FinishTurn(a)
          /\ Account({}, IF tasks'[a].returned THEN {} ELSE BatchIds(tasks[a].batch))
       \/ PanicTurn(a) /\ Account({}, {})
       \/ /\ HandleResult(a) \/ RecoverPanic(a)
          /\ Account({}, IF tasks[a].conv = Heartbeat THEN {} ELSE GivenUp(tasks[a]))
       \/ (\E success \in BOOLEAN : CollectRespawn(a, success)) /\ Account({}, {})
       \/ (DeadlinePasses(a) \/ CoolDown(a) \/ CrashAges(a)) /\ Account({}, {})
  \/ \E k \in acks :
       /\ HandleSteerAck(k)
       /\ Account({}, IF k.kind = "success" THEN {k.event_id} ELSE {})
  \/ /\ \/ DispatchDone \/ RequeueWaiting \/ DrainDone \/ Maintain \/ MaintainFlush
        \/ HeartbeatTick \/ HeartbeatFlush \/ HoldElapses \/ HoldWake
     /\ Account({}, {})

avars == <<vars, history>>

ASpec == AInit /\ [][ANext]_avars

-----------------------------------------------------------------------------
(* What happens to an accepted event *)

\* Everywhere an event can be: the queue, the batch of a task that is not yet
\* handled, a batch parked by the dispatch loop.
Held ==
  (UNION {HeldIds(q, c) : c \in Conversations})
  \cup (UNION {BatchIds(tasks[a].batch) : a \in {b \in Agents : Busy(b)}})
  \cup (UNION {BatchIds(waiting[i]) : i \in DOMAIN waiting})

\* Requeueing "prevents event loss" (requeue, queue.rs): an accepted event that is
\* not settled is still held somewhere.
NoSilentLoss == owed \subseteq Held

\* The only events that are lost in silence are those of an interrupted request
\* that was merged into a later prompt: everything else that is accepted stays held,
\* through crashes, panics, cancels, steers, exhausted pools and parked batches,
\* until it is settled.
LossOnlyByMerge == owed \ Held \subseteq merged
=============================================================================
