----------------------------- MODULE AuditChain -----------------------------
(***************************************************************************)
(* The audit log: event handlers of each relay send entries over a bounded *)
(* channel to the relay's one audit worker (buzz-relay/src/state.rs),      *)
(* which appends them to the hash chain of their community under a         *)
(* session-scoped advisory lock (buzz-audit/src/service.rs).               *)
(*                                                                         *)
(* Faults: lock timeouts, failing statements, a panic in an append, a lost *)
(* connection, whose session Postgres may finish later with the COMMIT it  *)
(* already received, a crash of a relay, and a shutdown whose drain ends   *)
(* or runs out of time.                                                    *)
(***************************************************************************)
EXTENDS Integers, FiniteSets, SequencesExt

CONSTANTS
    Relays,       \* relay processes that share one database
    Communities,
    Capacity,     \* of the channel, 1000 in the code
    MaxEntries,   \* bound: entries the handlers create
    MaxFaults     \* bound: faults, crashes and drains that time out

Free == "free"      \* nobody holds the lock
Orphan == "orphan"  \* its session lost its client and has not ended yet
Null == <<>>        \* prev_hash of a first entry

ASSUME AuditAssumption ==
    /\ Capacity \in Nat \ {0} /\ MaxEntries \in Nat /\ MaxFaults \in Nat
    /\ Free \notin Relays /\ Orphan \notin Relays

VARIABLES
    waiting,   \* per relay, handlers in send().await, in their order
    inbox,     \* per relay, the entries in the channel
    door,      \* per relay, its shutdown: open, cancelled, closed, exited
    worker,    \* per relay, the entry in hand and how far its append is
    lock,      \* per community, the holder of its advisory lock
    late,      \* rows whose COMMIT an orphaned session has still to process
    rows,      \* the audit_log table
    failed,    \* entries counted as errors, in the metrics and the log
    abandoned, \* entries lost with their process or worker
    created, faults

avars == <<waiting, inbox, door, worker, lock, late, rows, failed, abandoned,
           created, faults>>

\* What the handlers, the worker and the database each leave alone.
senders == <<waiting, created>>
table == <<late, rows>>

NoEntry == [id |-> 0, community |-> "none", relay |-> "none"]

\* The head of an empty chain: GENESIS_HASH and no row.
Genesis == [seq |-> 0, hash |-> Null]

Idle == [pc |-> "recv", entry |-> NoEntry, head |-> Genesis, outcome |-> "none"]

Fault == faults < MaxFaults /\ faults' = faults + 1

Running(r) == door[r] # "exited"

Place(r) == worker[r].entry.community

At(r, pc) == Running(r) /\ worker[r].pc = pc

Goto(r, pc) == worker' = [worker EXCEPT ![r].pc = pc]

-----------------------------------------------------------------------------
(***************************************************************************)
(* The handlers and the channel.                                           *)
(***************************************************************************)
Accepts(r) == door[r] \in {"open", "cancelled"} /\ worker[r].pc # "gone"

\* Mutant: the bound of the channel is off by one.
RoomForOneMore(r) == Accepts(r) /\ Len(inbox[r]) <= Capacity

Room(r) == Accepts(r) /\ Len(inbox[r]) < Capacity

\* A handler has stored its event and sends the entry, or waits in line.
Enqueue(r, c) ==
    LET e == [id |-> created', community |-> c, relay |-> r]
    IN  /\ Running(r)
        /\ created < MaxEntries
        /\ created' = created + 1
        /\ IF Room(r) /\ waiting[r] = <<>>
           THEN /\ inbox' = [inbox EXCEPT ![r] = Append(@, e)]
                /\ UNCHANGED waiting
           ELSE /\ waiting' = [waiting EXCEPT ![r] = Append(@, e)]
                /\ UNCHANGED inbox
        /\ UNCHANGED <<door, worker, lock, table, failed, abandoned, faults>>

\* There is room again: the first handler in line is served.
Sent(r) ==
    /\ Running(r) /\ Room(r)
    /\ waiting[r] # <<>>
    /\ inbox' = [inbox EXCEPT ![r] = Append(@, Head(waiting[r]))]
    /\ waiting' = [waiting EXCEPT ![r] = Tail(@)]
    /\ UNCHANGED <<door, worker, lock, table, failed, abandoned, created, faults>>

\* The receiver is closed: "Audit channel closed - entry lost", counted.
SendFails(r) ==
    /\ Running(r) /\ ~Accepts(r)
    /\ waiting[r] # <<>>
    /\ failed' = failed \cup {Head(waiting[r])}
    /\ waiting' = [waiting EXCEPT ![r] = Tail(@)]
    /\ UNCHANGED <<inbox, door, worker, lock, table, abandoned, created, faults>>

-----------------------------------------------------------------------------
(***************************************************************************)
(* The worker's loop and the shutdown.                                     *)
(***************************************************************************)
Recv(r) ==
    /\ At(r, "recv")
    /\ inbox[r] # <<>>
    /\ worker' = [worker EXCEPT ![r] = [Idle EXCEPT !.pc = "acquire",
                                                    !.entry = Head(inbox[r])]]
    /\ inbox' = [inbox EXCEPT ![r] = Tail(@)]
    /\ UNCHANGED <<senders, door, lock, table, failed, abandoned, faults>>

\* AuditShutdownHandle::drain cancels; the worker may still take entries.
Cancel(r) ==
    /\ door[r] = "open"
    /\ door' = [door EXCEPT ![r] = "cancelled"]
    /\ UNCHANGED <<senders, inbox, worker, lock, table, failed, abandoned, faults>>

\* The cancelled arm of the select: close, then drain what is buffered.
Close(r) ==
    /\ At(r, "recv")
    /\ door[r] = "cancelled"
    /\ door' = [door EXCEPT ![r] = "closed"]
    /\ UNCHANGED <<senders, inbox, worker, lock, table, failed, abandoned, faults>>

\* Mutant: the worker exits at the cancellation.
DrainedAtOnce(r) == TRUE

\* recv() returns None only once the buffer is empty.
Drained(r) == inbox[r] = <<>>

\* The worker has drained (or is gone): the process goes, and with it the
\* handlers whose failed send was not counted yet.
Exit(r) ==
    /\ Running(r)
    /\ \/ door[r] = "closed" /\ worker[r].pc = "recv" /\ Drained(r)
       \/ door[r] # "open" /\ worker[r].pc = "gone"
    /\ abandoned' = abandoned \cup ToSet(waiting[r])
    /\ door' = [door EXCEPT ![r] = "exited"]
    /\ waiting' = [waiting EXCEPT ![r] = <<>>]
    /\ inbox' = [inbox EXCEPT ![r] = <<>>]
    /\ worker' = [worker EXCEPT ![r] = Idle]
    /\ UNCHANGED <<created, lock, table, failed, faults>>

\* What is lost when the process of r goes now.
InProcess(r) ==
    ToSet(waiting[r]) \cup ToSet(inbox[r]) \cup ({worker[r].entry} \ {NoEntry})

\* The session of r loses its client.  It ends later; a COMMIT it was sent
\* may still be processed, or never have arrived.
OrphanSession(r) ==
    /\ lock' = [c \in Communities |-> IF lock[c] = r THEN Orphan ELSE lock[c]]
    /\ \/ worker[r].pc = "commit" /\ late' = late \cup {worker[r].head}
       \/ late' = late

\* A crash, or a drain that did not end in time ("exiting anyway").
ProcessEnds(r) ==
    /\ Running(r)
    /\ door[r] = "open" \/ worker[r].pc # "recv" \/ inbox[r] # <<>>
    /\ Fault
    /\ abandoned' = abandoned \cup InProcess(r)
    /\ OrphanSession(r)
    /\ waiting' = [waiting EXCEPT ![r] = <<>>]
    /\ inbox' = [inbox EXCEPT ![r] = <<>>]
    /\ worker' = [worker EXCEPT ![r] = Idle]
    /\ door' = [door EXCEPT ![r] = "exited"]
    /\ UNCHANGED <<created, rows, failed>>

Restart(r) ==
    /\ door[r] = "exited"
    /\ door' = [door EXCEPT ![r] = "open"]
    /\ UNCHANGED <<senders, inbox, worker, lock, table, failed, abandoned, faults>>

-----------------------------------------------------------------------------
(***************************************************************************)
(* AuditService::log.                                                      *)
(***************************************************************************)
\* Hashes are taken to be injective: a hash is what was hashed, which binds
\* the community, the position, the content and the hash before.
ComputeHash(c, seq, entry, prev) == <<c, seq, entry, prev>>

ChainOf(c) == {w \in rows : w.community = c}

\* The head of THIS community's chain.
HeadOf(c) ==
    IF ChainOf(c) = {} THEN Genesis
    ELSE CHOOSE w \in ChainOf(c) : \A v \in ChainOf(c) : v.seq <= w.seq

\* Mutant: the hash leaves out the hash before.
RowAfterUnlinked(head, entry) ==
    [community |-> entry.community, seq |-> head.seq + 1, entry |-> entry,
     prev |-> head.hash,
     hash |-> ComputeHash(entry.community, head.seq + 1, entry, Null)]

RowAfter(head, entry) ==
    [community |-> entry.community, seq |-> head.seq + 1, entry |-> entry,
     prev |-> head.hash,
     hash |-> ComputeHash(entry.community, head.seq + 1, entry, head.hash)]

\* Mutant: appends take no lock.
LockFreeAlways(c) == TRUE

LockFree(c) == lock[c] = Free

Acquire(r) ==
    /\ At(r, "acquire")
    /\ LockFree(Place(r))
    /\ lock' = [lock EXCEPT ![Place(r)] = r]
    /\ Goto(r, "read")
    /\ UNCHANGED <<senders, inbox, door, table, failed, abandoned, faults>>

\* SQLSTATE 55P03 while another session holds the lock.
LockTimeout(r) ==
    /\ At(r, "acquire")
    /\ ~LockFree(Place(r))
    /\ Goto(r, "backoff")
    /\ UNCHANGED <<senders, inbox, door, lock, table, failed, abandoned, faults>>

\* Mutant: an entry to be retried goes to the end of the channel.
BackoffEndsBehind(r) ==
    LET line == Append(inbox[r], worker[r].entry)
    IN  /\ At(r, "backoff")
        /\ worker' = [worker EXCEPT ![r].pc = "acquire", ![r].entry = Head(line)]
        /\ inbox' = [inbox EXCEPT ![r] = Tail(line)]
        /\ UNCHANGED <<senders, door, lock, table, failed, abandoned, faults>>

\* "preserving entry for retry": the same entry, before any other.
BackoffEnds(r) ==
    /\ At(r, "backoff")
    /\ Goto(r, "acquire")
    /\ UNCHANGED <<senders, inbox, door, lock, table, failed, abandoned, faults>>

\* BEGIN, and the head of the community's chain.
ReadHead(r) ==
    /\ At(r, "read")
    /\ worker' = [worker EXCEPT ![r].pc = "insert", ![r].head = HeadOf(Place(r))]
    /\ UNCHANGED <<senders, inbox, door, lock, table, failed, abandoned, faults>>

\* Rows with the key of w that other transactions have written.
SameKey(w) == {v \in rows : v.community = w.community /\ v.seq = w.seq}

Uncommitted(w) ==
    {q \in Relays : /\ worker[q].pc = "commit"
                    /\ worker[q].head.community = w.community
                    /\ worker[q].head.seq = w.seq}

\* INSERT: waits for an uncommitted row with its key, fails on a committed one.
Insert(r) ==
    LET w == RowAfter(worker[r].head, worker[r].entry)
    IN  /\ At(r, "insert")
        /\ Uncommitted(w) = {}
        /\ worker' = IF SameKey(w) = {}
                     THEN [worker EXCEPT ![r].pc = "commit", ![r].head = w]
                     ELSE [worker EXCEPT ![r].pc = "unlock", ![r].outcome = "error"]
        /\ UNCHANGED <<senders, inbox, door, lock, table, failed, abandoned, faults>>

Commit(r) ==
    /\ At(r, "commit")
    /\ rows' = rows \cup {worker[r].head}
    /\ worker' = [worker EXCEPT ![r].pc = "unlock", ![r].outcome = "ok"]
    /\ UNCHANGED <<senders, inbox, door, lock, late, failed, abandoned, faults>>

\* A statement fails, times out on a lock of the table (a COMMIT takes
\* none), or the append panics: the transaction is rolled back first.
AppendFails(r) ==
    /\ Running(r) /\ worker[r].pc \in {"read", "insert", "commit"}
    /\ Fault
    /\ \E outcome \in {"error", "timeout", "panic"} :
         /\ outcome = "timeout" => worker[r].pc # "commit"
         /\ worker' = [worker EXCEPT ![r].pc = "unlock", ![r].outcome = outcome]
    /\ UNCHANGED <<senders, inbox, door, lock, table, failed, abandoned>>

\* The connection is lost (or none can be had): an error, and an unlock that
\* reaches nobody.
ConnectionLost(r) ==
    /\ Running(r) /\ worker[r].pc \in {"acquire", "read", "insert", "commit"}
    /\ Fault
    /\ OrphanSession(r)
    /\ worker' = [worker EXCEPT ![r].pc = "unlock", ![r].outcome = "error"]
    /\ UNCHANGED <<senders, inbox, door, rows, failed, abandoned>>

\* Mutant: the lock is released only after a success.
UnlockedIfOk(r) ==
    [c \in Communities |-> IF lock[c] = r /\ worker[r].outcome = "ok"
                           THEN Free ELSE lock[c]]

\* "release the lock regardless of outcome"
Unlocked(r) == [c \in Communities |-> IF lock[c] = r THEN Free ELSE lock[c]]

\* Mutant: any database error is retried.
RetriedAnyError(r) == worker[r].outcome \in {"timeout", "error"}

\* Only a lock timeout is retried: nothing was committed then.
Retried(r) == worker[r].outcome = "timeout"

\* The unlock, and what log_audit_entry does with the result.  The code ignores a
\* failure of the unlock, which is not modelled; ProcessEnds has the lock whose
\* session is lost.
Unlock(r) ==
    /\ At(r, "unlock")
    /\ lock' = Unlocked(r)
    /\ \/ /\ worker[r].outcome = "ok"
          /\ worker' = [worker EXCEPT ![r] = Idle]
          /\ UNCHANGED <<inbox, failed, abandoned>>
       \/ /\ Retried(r)
          /\ worker' = [worker EXCEPT ![r] =
                          [Idle EXCEPT !.pc = "backoff", !.entry = worker[r].entry]]
          /\ UNCHANGED <<inbox, failed, abandoned>>
       \/ /\ worker[r].outcome = "error" /\ ~Retried(r)
          /\ worker' = [worker EXCEPT ![r] = Idle]
          /\ failed' = failed \cup {worker[r].entry}
          /\ UNCHANGED <<inbox, abandoned>>
       \/ /\ worker[r].outcome = "panic"
          /\ worker' = [worker EXCEPT ![r] = [Idle EXCEPT !.pc = "gone"]]
          /\ abandoned' = abandoned \cup {worker[r].entry} \cup ToSet(inbox[r])
          /\ inbox' = [inbox EXCEPT ![r] = <<>>]
          /\ UNCHANGED failed
    /\ UNCHANGED <<senders, door, table, faults>>

\* Postgres ends an orphaned session: its COMMIT, if one arrived, then the
\* release of its lock.
SessionEnds(c) ==
    /\ lock[c] = Orphan
    /\ lock' = [lock EXCEPT ![c] = Free]
    /\ rows' = rows \cup {w \in late : w.community = c}
    /\ late' = {w \in late : w.community # c}
    /\ UNCHANGED <<senders, inbox, door, worker, failed, abandoned, faults>>

-----------------------------------------------------------------------------
AInit ==
    /\ waiting = [r \in Relays |-> <<>>]
    /\ inbox = [r \in Relays |-> <<>>]
    /\ door = [r \in Relays |-> "open"]
    /\ worker = [r \in Relays |-> Idle]
    /\ lock = [c \in Communities |-> Free]
    /\ late = {} /\ rows = {}
    /\ failed = {} /\ abandoned = {}
    /\ created = 0 /\ faults = 0

\* Steps the worker of r takes by itself.
Works(r) ==
    \/ Recv(r) \/ Close(r)
    \/ Acquire(r) \/ LockTimeout(r) \/ BackoffEnds(r)
    \/ ReadHead(r) \/ Insert(r) \/ Commit(r) \/ Unlock(r)

Sends(r) == Sent(r) \/ SendFails(r)

ANext ==
    \/ \E r \in Relays :
         \/ \E c \in Communities : Enqueue(r, c)
         \/ Sends(r) \/ Works(r)
         \/ Cancel(r) \/ Exit(r) \/ ProcessEnds(r) \/ Restart(r)
         \/ AppendFails(r) \/ ConnectionLost(r)
    \/ \E c \in Communities : SessionEnds(c)

ASpec == AInit /\ [][ANext]_avars

\* Tasks run, the database answers, and a dead session ends.
AFairness ==
    /\ \A r \in Relays :
         /\ WF_avars(Works(r)) /\ WF_avars(Sends(r))
    /\ \A c \in Communities : WF_avars(SessionEnds(c))

AFairSpec == ASpec /\ AFairness

-----------------------------------------------------------------------------
(***************************************************************************)
(* Properties.                                                             *)
(***************************************************************************)
Entries == [id : 1..MaxEntries, community : Communities, relay : Relays]

\* Type invariant.  The channel never holds more than its capacity.
AuditTypeOK ==
    /\ \A r \in Relays :
         /\ ToSet(waiting[r]) \cup ToSet(inbox[r]) \subseteq Entries
         /\ Len(inbox[r]) <= Capacity
         /\ door[r] \in {"open", "cancelled", "closed", "exited"}
         /\ worker[r].pc \in {"recv", "acquire", "backoff", "read", "insert",
                              "commit", "unlock", "gone"}
         /\ worker[r].entry \in Entries \cup {NoEntry}
         /\ worker[r].outcome \in {"none", "ok", "error", "timeout", "panic"}
    /\ lock \in [Communities -> Relays \cup {Free, Orphan}]
    /\ \A w \in rows \cup late :
         w.community \in Communities /\ w.seq \in 1..MaxEntries /\ w.entry \in Entries
    /\ failed \cup abandoned \subseteq Entries
    /\ created \in 0..MaxEntries /\ faults \in 0..MaxFaults

\* verify_chain over the rows from..to of a community: each row carries the
\* hash of the row before it in the range, and the hash of its own content.
VerifyChain(c, from, to) ==
    LET seg == {w \in ChainOf(c) : w.seq \in from..to}
        before(w) == {v \in seg : v.seq < w.seq}
    IN  \A w \in seg :
          /\ \A v \in before(w) :
               (\A u \in before(w) : u.seq <= v.seq) => w.prev = v.hash
          /\ w.hash = ComputeHash(w.community, w.seq, w.entry, w.prev)

\* Every range of every chain verifies, and the chain has no gap, whatever
\* relays append at once and wherever they fail.
VerifyAccepts ==
    \A c \in Communities :
      /\ {w.seq : w \in ChainOf(c)} = 1 .. Cardinality(ChainOf(c))
      /\ \A from, to \in 1..MaxEntries : VerifyChain(c, from, to)

\* The head a worker read is still the head when it writes: an append is
\* never refused for a sequence number that another append took.
HeadIsCurrent ==
    \A r \in Relays :
      /\ At(r, "insert") => worker[r].head = HeadOf(Place(r))
      /\ At(r, "commit") =>
           worker[r].head = RowAfter(HeadOf(Place(r)), worker[r].entry)

\* An entry is appended at most once: one that is retried was not
\* committed, not even by a session that ends later.
LoggedOnce ==
    /\ \A v, w \in rows \cup late : v.entry = w.entry => v = w
    /\ \A r \in Relays, w \in rows \cup late :
         worker[r].pc \in {"acquire", "backoff", "read", "insert"}
           => w.entry # worker[r].entry

\* The chain keeps the order in which one relay's handlers queued.
OrderKept ==
    \A v, w \in rows :
      /\ v.community = w.community /\ v.entry.relay = w.entry.relay
      /\ v.entry.id < w.entry.id
      => v.seq < w.seq

\* "entries are never silently dropped": an entry is on its way, in the
\* chain, counted as an error, or was lost with a process or a worker.
OnItsWay == UNION {InProcess(r) : r \in Relays}

Settled == {w.entry : w \in rows} \cup failed \cup abandoned

NeverSilentlyDropped ==
    {e.id : e \in OnItsWay \cup Settled} = 1..created

\* Entries on their way are settled in the end: no lock is left held by a
\* worker that failed, and no drain or retry keeps an entry for ever.
EntriesSettle == OnItsWay # {} ~> OnItsWay = {}
=============================================================================
