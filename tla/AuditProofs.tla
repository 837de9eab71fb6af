---------------------------- MODULE AuditProofs ----------------------------
(***************************************************************************)
(* Machine-checked proofs about module AuditChain, for every set of relays *)
(* and communities, every capacity and every bound on entries and faults:  *)
(* the chains verify, no head is stale when it is used, no entry is logged *)
(* twice, out of order or lost without a trace.                            *)
(***************************************************************************)
EXTENDS AuditChain, SequenceTheorems, FunctionTheorems, FiniteSetTheorems, TLAPS

-----------------------------------------------------------------------------
(* The inductive invariant.                                                *)

Pcs == {"recv", "acquire", "backoff", "read", "insert", "commit", "unlock", "gone"}

Outcomes == {"none", "ok", "error", "timeout", "panic"}

Doors == {"open", "cancelled", "closed", "exited"}

\* What every variable is.  A hash nests the hashes before it, so the heads that
\* workers hold have no type of their own.
ShapeInv ==
  /\ waiting \in [Relays -> Seq(Entries)] /\ inbox \in [Relays -> Seq(Entries)]
  /\ door \in [Relays -> Doors]
  /\ worker \in [Relays -> [pc : Pcs, entry : Entries \cup {NoEntry},
                            head : {worker[r].head : r \in Relays}, outcome : Outcomes]]
  /\ lock \in [Communities -> Relays \cup {Free, Orphan}]
  /\ failed \subseteq Entries /\ abandoned \subseteq Entries
  /\ created \in 0 .. MaxEntries /\ faults \in 0 .. MaxFaults

RoomInv == \A r \in Relays : Len(inbox[r]) <= Capacity

\* The worker's hand is empty exactly between two entries, and a worker that is
\* gone has taken its channel with it.
HandInv ==
  \A r \in Relays :
    /\ worker[r].entry = NoEntry <=> worker[r].pc \in {"recv", "gone"}
    /\ worker[r].pc = "gone" => inbox[r] = <<>>
    /\ worker[r].pc = "unlock" /\ worker[r].outcome = "ok" =>
         \E w \in rows : w.entry = worker[r].entry

\* A worker inside its transaction holds the lock of its community; a COMMIT that
\* is still to be processed keeps the lock of its community from everyone.
LockInv ==
  /\ \A r \in Relays : worker[r].pc \in {"read", "insert", "commit"} => lock[Place(r)] = r
  /\ \A w \in late : lock[w.community] = Orphan

\* The rows of a community are numbered without gap, each carries the hash of the
\* one before it, and whatever is about to be appended is the next one.
ChainInv ==
  /\ \A c \in Communities : {w.seq : w \in ChainOf(c)} = 1 .. HeadOf(c).seq
  /\ \A c \in Communities : ChainOf(c) # {} => HeadOf(c) \in ChainOf(c)
  /\ \A w \in rows \cup late : w.entry \in Entries /\ w.community = w.entry.community
                               /\ w.seq \in Nat \ {0}
                               /\ w.hash = ComputeHash(w.community, w.seq, w.entry, w.prev)
  /\ \A v, w \in rows : v.community = w.community /\ v.seq = w.seq => v = w
  /\ \A v, w \in rows : v.community = w.community /\ w.seq = v.seq + 1 => w.prev = v.hash
  /\ \A w \in late : w = RowAfter(HeadOf(w.community), w.entry)
  /\ \A v, w \in late : v.community = w.community => v = w
  /\ \A r \in Relays :
       /\ worker[r].pc = "insert" => worker[r].head = HeadOf(Place(r))
       /\ worker[r].pc = "commit" => worker[r].head = RowAfter(HeadOf(Place(r)), worker[r].entry)

\* The entry in the worker's hand has not been appended.
Unlogged(r) ==
  \/ worker[r].pc \in {"acquire", "backoff", "read", "insert", "commit"}
  \/ worker[r].pc = "unlock" /\ worker[r].outcome = "timeout"

\* The entries that have a row, or a COMMIT that may still be processed.
Logged == {w.entry : w \in rows \cup late}

\* The ids of the entries s of relay r grow, and stay within those given out.
Ascends(s, r, n) ==
  /\ \A i \in 1 .. Len(s) : s[i].relay = r /\ s[i].id <= n
  /\ \A i, j \in 1 .. Len(s) : i < j => s[i].id < s[j].id

Before(id, s) == \A i \in 1 .. Len(s) : id < s[i].id

\* The entries of relay r are in one line: logged (in L), in hand (e), in the channel
\* (in), waiting (wt); n ids are given out.
Line(r, in, wt, e, n, L) ==
  /\ Ascends(in, r, n) /\ Ascends(wt, r, n)
  /\ \A i \in 1 .. Len(in) : Before(in[i].id, wt)
  /\ e # NoEntry => e.relay = r /\ e.id <= n /\ Before(e.id, in) /\ Before(e.id, wt)
  /\ \A l \in L : l.relay = r => /\ l.id <= n /\ Before(l.id, in) /\ Before(l.id, wt)
                                 /\ e # NoEntry => l.id <= e.id

\* Every relay keeps that line, and an entry in hand that was not appended is
\* younger than all of its relay that were.
LineInv ==
  \A r \in Relays :
    /\ Line(r, inbox[r], waiting[r], worker[r].entry, created, Logged)
    /\ Unlogged(r) => \A l \in Logged : l.relay = r => l.id < worker[r].entry.id

\* No entry is appended twice, and a late row is younger than the rows of its
\* relay and community.
OnceInv ==
  /\ \A v, w \in rows \cup late : v.entry = w.entry => v = w
  /\ \A v \in rows, w \in late :
       v.community = w.community /\ v.entry.relay = w.entry.relay => v.entry.id < w.entry.id
  /\ OrderKept

\* Every entry the system still knows of.
Known == OnItsWay \cup Settled

\* An id was given out once, and a late row is of an entry that is accounted for.
IdInv ==
  /\ Logged \subseteq Known
  /\ \A e, f \in Known : e.id = f.id => e = f

AuditInv ==
  ShapeInv /\ RoomInv /\ HandInv /\ LockInv /\ ChainInv /\ LineInv /\ OnceInv /\ IdInv
  /\ NeverSilentlyDropped

-----------------------------------------------------------------------------
(* What each step does to the workers.                                     *)

\* The worker of r goes to pc with entry e in hand, head h and outcome o.
Moves(r, pc, e, h, o) ==
  worker' = [worker EXCEPT ![r] = [pc |-> pc, entry |-> e, head |-> h, outcome |-> o]]

\* A worker that moves leaves the others alone.
LEMMA MovesFields ==
  ASSUME ShapeInv, NEW r \in Relays, NEW pc \in Pcs, NEW e \in Entries \cup {NoEntry},
         NEW h, NEW o \in Outcomes, Moves(r, pc, e, h, o)
  PROVE  /\ worker'[r].pc = pc /\ worker'[r].entry = e
         /\ worker'[r].head = h /\ worker'[r].outcome = o
         /\ \A x \in Relays \ {r} : worker'[x] = worker[x]
         /\ worker' \in [Relays -> [pc : Pcs, entry : Entries \cup {NoEntry},
                                    head : {worker'[x].head : x \in Relays}, outcome : Outcomes]]
<1> DEFINE q == [pc |-> pc, entry |-> e, head |-> h, outcome |-> o]
           H == {worker[x].head : x \in Relays}
           W(heads) == [pc : Pcs, entry : Entries \cup {NoEntry}, head : heads, outcome : Outcomes]
<1>1. worker \in [Relays -> W(H)]
  BY DEF ShapeInv
<1>2. worker'[r] = q /\ \A x \in Relays \ {r} : worker'[x] = worker[x]
  BY <1>1 DEF Moves
<1>3. \A x \in Relays : worker'[x] \in W({worker'[y].head : y \in Relays})
  <2> SUFFICES ASSUME NEW x \in Relays
               PROVE  worker'[x] \in W({worker'[y].head : y \in Relays})
    OBVIOUS
  <2>1. worker'[x].head \in {worker'[y].head : y \in Relays}
    OBVIOUS
  <2>2. CASE x = r
    BY <1>2, <2>1, <2>2
  <2>3. CASE x # r
    BY <1>1, <1>2, <2>1, <2>3
  <2> QED
    BY <2>2, <2>3
<1>4. worker' \in [Relays -> W({worker'[x].head : x \in Relays})]
  BY <1>1, <1>3 DEF Moves
<1> QED
  BY <1>2, <1>4

\* The parts of a worker may be set one by one.
LEMMA MovesForms ==
  ASSUME ShapeInv, NEW r \in Relays
  PROVE  LET w == worker[r]
         IN /\ w.pc \in Pcs /\ w.entry \in Entries \cup {NoEntry} /\ w.outcome \in Outcomes
            /\ \A pc : worker' = [worker EXCEPT ![r].pc = pc] => Moves(r, pc, w.entry, w.head, w.outcome)
            /\ \A pc, h : worker' = [worker EXCEPT ![r].pc = pc, ![r].head = h]
                 => Moves(r, pc, w.entry, h, w.outcome)
            /\ \A pc, o : worker' = [worker EXCEPT ![r].pc = pc, ![r].outcome = o]
                 => Moves(r, pc, w.entry, w.head, o)
<1> DEFINE W == [pc : Pcs, entry : Entries \cup {NoEntry}, head : {worker[x].head : x \in Relays},
                 outcome : Outcomes]
           w == worker[r]
<1>1. worker \in [Relays -> W]
  BY DEF ShapeInv
<1>2. w \in W
  BY <1>1
<1>3. ASSUME NEW pc PROVE [w EXCEPT !.pc = pc] = [pc |-> pc, entry |-> w.entry, head |-> w.head, outcome |-> w.outcome]
  BY <1>2
<1> DEFINE u(pc) == [pc |-> pc, entry |-> w.entry, head |-> w.head, outcome |-> w.outcome]
<1>4. ASSUME NEW pc, NEW h
      PROVE  [u(pc) EXCEPT !.head = h] = [pc |-> pc, entry |-> w.entry, head |-> h, outcome |-> w.outcome]
  OBVIOUS
<1>5. ASSUME NEW pc, NEW o
      PROVE  [u(pc) EXCEPT !.outcome = o] = [pc |-> pc, entry |-> w.entry, head |-> w.head, outcome |-> o]
  OBVIOUS
<1>6. ASSUME NEW pc PROVE [worker EXCEPT ![r].pc = pc] = [worker EXCEPT ![r] = u(pc)]
  BY <1>1, <1>3
<1>7. ASSUME NEW pc, NEW h
      PROVE  [worker EXCEPT ![r].pc = pc, ![r].head = h] = [worker EXCEPT ![r] = [u(pc) EXCEPT !.head = h]]
  <2> DEFINE n == [worker EXCEPT ![r] = u(pc)]
  <2>1. [worker EXCEPT ![r].pc = pc, ![r].head = h] = [n EXCEPT ![r].head = h]
    BY <1>6
  <2>2. n[r] = u(pc) /\ DOMAIN n = Relays
    BY <1>1
  <2> HIDE DEF u
  <2>3. [n EXCEPT ![r].head = h] = [worker EXCEPT ![r] = [u(pc) EXCEPT !.head = h]]
    BY <1>1, <2>2
  <2> QED
    BY <2>1, <2>3
<1>8. ASSUME NEW pc, NEW o
      PROVE  [worker EXCEPT ![r].pc = pc, ![r].outcome = o] = [worker EXCEPT ![r] = [u(pc) EXCEPT !.outcome = o]]
  <2> DEFINE n == [worker EXCEPT ![r] = u(pc)]
  <2>1. [worker EXCEPT ![r].pc = pc, ![r].outcome = o] = [n EXCEPT ![r].outcome = o]
    BY <1>6
  <2>2. n[r] = u(pc) /\ DOMAIN n = Relays
    BY <1>1
  <2> HIDE DEF u
  <2>3. [n EXCEPT ![r].outcome = o] = [worker EXCEPT ![r] = [u(pc) EXCEPT !.outcome = o]]
    BY <1>1, <2>2
  <2> QED
    BY <2>1, <2>3
<1>9. w.pc \in Pcs /\ w.entry \in Entries \cup {NoEntry} /\ w.outcome \in Outcomes
  BY <1>2
<1>10. ASSUME NEW pc, worker' = [worker EXCEPT ![r].pc = pc]
       PROVE  Moves(r, pc, w.entry, w.head, w.outcome)
  BY <1>6, <1>10 DEF Moves
<1>11. ASSUME NEW pc, NEW h, worker' = [worker EXCEPT ![r].pc = pc, ![r].head = h]
       PROVE  Moves(r, pc, w.entry, h, w.outcome)
  <2>1. worker' = [worker EXCEPT ![r] = [u(pc) EXCEPT !.head = h]]
    BY <1>7, <1>11, Zenon
  <2> QED
    BY <1>4, <2>1 DEF Moves
<1>12. ASSUME NEW pc, NEW o, worker' = [worker EXCEPT ![r].pc = pc, ![r].outcome = o]
       PROVE  Moves(r, pc, w.entry, w.head, o)
  <2>1. worker' = [worker EXCEPT ![r] = [u(pc) EXCEPT !.outcome = o]]
    BY <1>8, <1>12, Zenon
  <2> QED
    BY <1>5, <2>1 DEF Moves
<1> QED
  BY <1>9, <1>10, <1>11, <1>12

\* The steps of the worker's loop and of the shutdown.
LEMMA LoopMoves ==
  ASSUME ShapeInv, NEW r \in Relays
  PROVE  /\ Recv(r) => Moves(r, "acquire", Head(inbox[r]), Genesis, "none")
         /\ Exit(r) => Moves(r, "recv", NoEntry, Genesis, "none")
         /\ ProcessEnds(r) => Moves(r, "recv", NoEntry, Genesis, "none")
  BY DEF Recv, Exit, ProcessEnds, Moves, Idle

\* The steps of an append.
LEMMA AppendMoves ==
  ASSUME ShapeInv, NEW r \in Relays
  PROVE  LET w == worker[r]
             row == RowAfter(w.head, w.entry)
         IN /\ Acquire(r) => Moves(r, "read", w.entry, w.head, w.outcome)
            /\ LockTimeout(r) => Moves(r, "backoff", w.entry, w.head, w.outcome)
            /\ BackoffEnds(r) => Moves(r, "acquire", w.entry, w.head, w.outcome)
            /\ ReadHead(r) => Moves(r, "insert", w.entry, HeadOf(Place(r)), w.outcome)
            /\ Insert(r) => \/ Moves(r, "commit", w.entry, row, w.outcome)
                            \/ Moves(r, "unlock", w.entry, w.head, "error")
            /\ Commit(r) => Moves(r, "unlock", w.entry, w.head, "ok")
            /\ AppendFails(r) => \E o \in {"error", "timeout", "panic"} :
                                   /\ o = "timeout" => w.pc # "commit"
                                   /\ Moves(r, "unlock", w.entry, w.head, o)
            /\ ConnectionLost(r) => Moves(r, "unlock", w.entry, w.head, "error")
<1> DEFINE w == worker[r]
           row == RowAfter(w.head, w.entry)
<1>1. /\ Acquire(r) => Moves(r, "read", w.entry, w.head, w.outcome)
      /\ LockTimeout(r) => Moves(r, "backoff", w.entry, w.head, w.outcome)
      /\ BackoffEnds(r) => Moves(r, "acquire", w.entry, w.head, w.outcome)
  BY MovesForms DEF Acquire, LockTimeout, BackoffEnds, Goto
<1>2. ReadHead(r) => Moves(r, "insert", w.entry, HeadOf(Place(r)), w.outcome)
  BY MovesForms DEF ReadHead
<1>3. Insert(r) => \/ Moves(r, "commit", w.entry, row, w.outcome)
                   \/ Moves(r, "unlock", w.entry, w.head, "error")
  BY MovesForms DEF Insert
<1>4. Commit(r) => Moves(r, "unlock", w.entry, w.head, "ok")
  BY MovesForms DEF Commit
<1>5. AppendFails(r) => \E o \in {"error", "timeout", "panic"} :
                          /\ o = "timeout" => w.pc # "commit"
                          /\ Moves(r, "unlock", w.entry, w.head, o)
  BY MovesForms DEF AppendFails
<1>6. ConnectionLost(r) => Moves(r, "unlock", w.entry, w.head, "error")
  BY MovesForms DEF ConnectionLost
<1> QED
  BY <1>1, <1>2, <1>3, <1>4, <1>5, <1>6

\* The unlock: what becomes of the entry.
LEMMA UnlockMoves ==
  ASSUME ShapeInv, NEW r \in Relays, Unlock(r)
  PROVE  LET w == worker[r]
         IN \/ /\ w.outcome = "ok" /\ Moves(r, "recv", NoEntry, Genesis, "none")
               /\ UNCHANGED <<inbox, failed, abandoned>>
            \/ /\ w.outcome = "timeout" /\ Moves(r, "backoff", w.entry, Genesis, "none")
               /\ UNCHANGED <<inbox, failed, abandoned>>
            \/ /\ w.outcome = "error" /\ Moves(r, "recv", NoEntry, Genesis, "none")
               /\ failed' = failed \cup {w.entry} /\ UNCHANGED <<inbox, abandoned>>
            \/ /\ w.outcome = "panic" /\ Moves(r, "gone", NoEntry, Genesis, "none")
               /\ abandoned' = abandoned \cup {w.entry} \cup ToSet(inbox[r])
               /\ inbox' = [inbox EXCEPT ![r] = <<>>] /\ UNCHANGED failed
  BY DEF Unlock, Retried, Moves, Idle

\* The first of a line, and what is left of it.
LEMMA HeadTail ==
  ASSUME NEW S, NEW s \in Seq(S), s # <<>>
  PROVE  /\ Head(s) \in S /\ Tail(s) \in Seq(S)
         /\ Len(s) \in Nat /\ Len(s) >= 1 /\ Head(s) = s[1] /\ Len(Tail(s)) = Len(s) - 1
         /\ \A i \in 1 .. Len(s) - 1 : Tail(s)[i] = s[i + 1]
  BY HeadTailProperties

\* The lock table after a session is orphaned or a lock released.
LEMMA LockType ==
  ASSUME ShapeInv, NEW r \in Relays
  PROVE  /\ OrphanSession(r) => lock' \in [Communities -> Relays \cup {Free, Orphan}]
         /\ Unlocked(r) \in [Communities -> Relays \cup {Free, Orphan}]
  BY DEF ShapeInv, OrphanSession, Unlocked

-----------------------------------------------------------------------------
(* ShapeInv.                                                               *)

\* Relays start with empty channels and idle workers.
LEMMA ShapeInit == AInit => ShapeInv /\ RoomInv
<1> SUFFICES ASSUME AInit PROVE ShapeInv /\ RoomInv
  OBVIOUS
<1>1. worker \in [Relays -> [pc : Pcs, entry : Entries \cup {NoEntry},
                             head : {worker[r].head : r \in Relays}, outcome : Outcomes]]
  <2>1. \A r \in Relays : worker[r] = Idle /\ worker[r].head \in {worker[x].head : x \in Relays}
    BY DEF AInit
  <2>2. \A r \in Relays : worker[r] \in [pc : Pcs, entry : Entries \cup {NoEntry},
                             head : {worker[x].head : x \in Relays}, outcome : Outcomes]
    BY <2>1 DEF Idle, Pcs, Outcomes
  <2> QED
    BY <2>2 DEF AInit
<1>2. ShapeInv
  BY <1>1, AuditAssumption DEF AInit, ShapeInv, Doors
<1>3. RoomInv
  BY AuditAssumption DEF AInit, RoomInv
<1> QED
  BY <1>2, <1>3

\* The type of the workers, as one set.
WorkersTyped ==
  worker \in [Relays -> [pc : Pcs, entry : Entries \cup {NoEntry},
                         head : {worker[r].head : r \in Relays}, outcome : Outcomes]]

\* The workers keep their type.
LEMMA WorkersStep ==
  ASSUME ShapeInv, [ANext]_avars
  PROVE  WorkersTyped'
<1>1. CASE worker' = worker
  BY <1>1 DEF ShapeInv, WorkersTyped
<1>2. ASSUME NEW r \in Relays, NEW pc \in Pcs, NEW e \in Entries \cup {NoEntry}, NEW h,
             NEW o \in Outcomes, Moves(r, pc, e, h, o)
      PROVE  WorkersTyped'
  BY <1>2, MovesFields DEF WorkersTyped
<1>3. ASSUME NEW r \in Relays,
             Recv(r) \/ Exit(r) \/ ProcessEnds(r) \/ Acquire(r) \/ LockTimeout(r) \/ BackoffEnds(r)
             \/ ReadHead(r) \/ Insert(r) \/ Commit(r) \/ AppendFails(r) \/ ConnectionLost(r) \/ Unlock(r)
      PROVE  WorkersTyped'
  <2>1. worker[r].entry \in Entries \cup {NoEntry} /\ worker[r].outcome \in Outcomes
    BY MovesForms
  <2>2. "recv" \in Pcs /\ "acquire" \in Pcs /\ "backoff" \in Pcs /\ "read" \in Pcs /\ "insert" \in Pcs
        /\ "commit" \in Pcs /\ "unlock" \in Pcs /\ "gone" \in Pcs
        /\ {"none", "ok", "error", "timeout", "panic"} \subseteq Outcomes
    BY DEF Pcs, Outcomes
  <2>3. CASE Recv(r)
    <3>1. Head(inbox[r]) \in Entries
      BY <2>3, HeadTail DEF Recv, ShapeInv
    <3> QED
      BY <1>2, <2>2, <2>3, <3>1, LoopMoves
  <2>4. CASE Exit(r) \/ ProcessEnds(r)
    BY <1>2, <2>2, <2>4, LoopMoves
  <2>5. CASE Acquire(r) \/ LockTimeout(r) \/ BackoffEnds(r) \/ ReadHead(r)
    BY <1>2, <2>1, <2>2, <2>5, AppendMoves
  <2>6. CASE Insert(r) \/ Commit(r) \/ AppendFails(r) \/ ConnectionLost(r)
    BY <1>2, <2>1, <2>2, <2>6, AppendMoves
  <2>7. CASE Unlock(r)
    BY <1>2, <2>1, <2>2, <2>7, UnlockMoves
  <2> QED
    BY <1>3, <2>3, <2>4, <2>5, <2>6, <2>7
<1>4. ASSUME NEW r \in Relays, NEW c \in Communities, Enqueue(r, c) PROVE worker' = worker
  BY <1>4 DEF Enqueue
<1>5. ASSUME NEW r \in Relays, Sends(r) \/ Close(r) \/ Cancel(r) \/ Restart(r) PROVE worker' = worker
  BY <1>5 DEF Sends, Sent, SendFails, Close, Cancel, Restart
<1>6. ASSUME NEW c \in Communities, SessionEnds(c) PROVE worker' = worker
  BY <1>6 DEF SessionEnds
<1>7. CASE UNCHANGED avars
  BY <1>1, <1>7 DEF avars
<1> QED
  BY <1>1, <1>3, <1>4, <1>5, <1>6, <1>7 DEF ANext, Works

\* The lines keep their type, and the channel its bound.
LEMMA LinesStep ==
  ASSUME ShapeInv, RoomInv, [ANext]_avars
  PROVE  /\ waiting' \in [Relays -> Seq(Entries)] /\ inbox' \in [Relays -> Seq(Entries)]
         /\ RoomInv'
<1>1. waiting \in [Relays -> Seq(Entries)] /\ inbox \in [Relays -> Seq(Entries)]
      /\ created \in 0 .. MaxEntries /\ Capacity \in Nat \ {0} /\ MaxEntries \in Nat
  BY AuditAssumption DEF ShapeInv
<1>2. ASSUME NEW r \in Relays, NEW c \in Communities, Enqueue(r, c)
      PROVE  /\ waiting' \in [Relays -> Seq(Entries)] /\ inbox' \in [Relays -> Seq(Entries)]
             /\ RoomInv'
  <2> DEFINE e == [id |-> created', community |-> c, relay |-> r]
  <2>1. e \in Entries
    BY <1>1, <1>2 DEF Enqueue, Entries
  <2>2. CASE Room(r) /\ inbox' = [inbox EXCEPT ![r] = Append(@, e)] /\ waiting' = waiting
    <3>1. Append(inbox[r], e) \in Seq(Entries) /\ Len(Append(inbox[r], e)) <= Capacity
      BY <1>1, <2>1, <2>2 DEF Room
    <3> HIDE DEF e
    <3> QED
      BY <1>1, <2>2, <3>1 DEF RoomInv
  <2>3. CASE waiting' = [waiting EXCEPT ![r] = Append(@, e)] /\ inbox' = inbox
    <3>1. Append(waiting[r], e) \in Seq(Entries)
      BY <1>1, <2>1
    <3> HIDE DEF e
    <3> QED
      BY <1>1, <2>3, <3>1 DEF RoomInv
  <2> QED
    BY <1>2, <2>2, <2>3 DEF Enqueue
<1>3. ASSUME NEW r \in Relays, Sent(r)
      PROVE  /\ waiting' \in [Relays -> Seq(Entries)] /\ inbox' \in [Relays -> Seq(Entries)]
             /\ RoomInv'
  <2> DEFINE e == Head(waiting[r])
  <2>1. e \in Entries /\ Tail(waiting[r]) \in Seq(Entries)
    BY <1>1, <1>3, HeadTail DEF Sent
  <2> HIDE DEF e
  <2>2. Append(inbox[r], e) \in Seq(Entries) /\ Len(Append(inbox[r], e)) <= Capacity
    BY <1>1, <1>3, <2>1 DEF Sent, Room
  <2> QED
    BY <1>1, <1>3, <2>1, <2>2 DEF Sent, RoomInv, e
<1>4. ASSUME NEW r \in Relays, SendFails(r)
      PROVE  /\ waiting' \in [Relays -> Seq(Entries)] /\ inbox' \in [Relays -> Seq(Entries)]
             /\ RoomInv'
  <2>1. Tail(waiting[r]) \in Seq(Entries)
    BY <1>1, <1>4, HeadTail DEF SendFails
  <2> QED
    BY <1>1, <1>4, <2>1 DEF SendFails, RoomInv
<1>5. ASSUME NEW r \in Relays, Recv(r)
      PROVE  /\ waiting' \in [Relays -> Seq(Entries)] /\ inbox' \in [Relays -> Seq(Entries)]
             /\ RoomInv'
  <2>1. Tail(inbox[r]) \in Seq(Entries) /\ Len(Tail(inbox[r])) <= Capacity
    BY <1>1, <1>5, HeadTail DEF Recv, RoomInv
  <2> QED
    BY <1>1, <1>5, <2>1 DEF Recv, RoomInv, senders
<1>6. ASSUME NEW r \in Relays, Exit(r) \/ ProcessEnds(r) \/ Unlock(r)
      PROVE  /\ waiting' \in [Relays -> Seq(Entries)] /\ inbox' \in [Relays -> Seq(Entries)]
             /\ RoomInv'
  <2>1. waiting' = waiting \/ waiting' = [waiting EXCEPT ![r] = <<>>]
    BY <1>6 DEF Exit, ProcessEnds, Unlock, senders
  <2>2. inbox' = inbox \/ inbox' = [inbox EXCEPT ![r] = <<>>]
    BY <1>6 DEF Exit, ProcessEnds, Unlock
  <2>3. <<>> \in Seq(Entries) /\ Len(<<>>) = 0
    OBVIOUS
  <2>4. waiting' \in [Relays -> Seq(Entries)] /\ inbox' \in [Relays -> Seq(Entries)]
    BY <1>1, <2>1, <2>2, <2>3
  <2>5. \A x \in Relays : inbox'[x] = inbox[x] \/ inbox'[x] = <<>>
    BY <1>1, <2>2
  <2>6. RoomInv'
    BY <1>1, <2>3, <2>5 DEF RoomInv
  <2> QED
    BY <2>4, <2>6
<1>7. CASE UNCHANGED <<waiting, inbox>>
  BY <1>1, <1>7 DEF RoomInv
<1>8. ASSUME NEW r \in Relays,
             Close(r) \/ Cancel(r) \/ Restart(r) \/ Acquire(r) \/ LockTimeout(r) \/ BackoffEnds(r)
             \/ ReadHead(r) \/ Insert(r) \/ Commit(r) \/ AppendFails(r) \/ ConnectionLost(r)
      PROVE  UNCHANGED <<waiting, inbox>>
  BY <1>8 DEF Close, Cancel, Restart, Acquire, LockTimeout, BackoffEnds, ReadHead, Insert, Commit,
              AppendFails, ConnectionLost, senders
<1>9. ASSUME NEW c \in Communities, SessionEnds(c) PROVE UNCHANGED <<waiting, inbox>>
  BY <1>9 DEF SessionEnds, senders
<1>10. CASE UNCHANGED avars
  BY <1>7, <1>10 DEF avars
<1> QED
  BY <1>2, <1>3, <1>4, <1>5, <1>6, <1>7, <1>8, <1>9, <1>10 DEF ANext, Works, Sends

\* The entries a process holds are entries.
LEMMA InProcessType ==
  ASSUME ShapeInv, NEW r \in Relays
  PROVE  InProcess(r) \subseteq Entries /\ ToSet(inbox[r]) \subseteq Entries
         /\ ToSet(waiting[r]) \subseteq Entries
<1>1. inbox[r] \in Seq(Entries) /\ waiting[r] \in Seq(Entries)
      /\ worker[r].entry \in Entries \cup {NoEntry}
  BY MovesForms DEF ShapeInv
<1>2. ToSet(inbox[r]) \subseteq Entries /\ ToSet(waiting[r]) \subseteq Entries
  BY <1>1, ElementOfSeq, LenProperties DEF ToSet
<1> QED
  BY <1>1, <1>2 DEF InProcess

\* The entry of a worker that is at work is one.
LEMMA InHand ==
  ASSUME ShapeInv, HandInv, NEW r \in Relays, worker[r].pc \notin {"recv", "gone"}
  PROVE  worker[r].entry \in Entries /\ worker[r].entry # NoEntry /\ Place(r) \in Communities
  BY MovesForms DEF HandInv, Place, Entries

\* ShapeInv and RoomInv are kept by every step.
LEMMA ShapeStep ==
  ASSUME ShapeInv, RoomInv, HandInv, [ANext]_avars
  PROVE  ShapeInv' /\ RoomInv'
<1>1. WorkersTyped' /\ RoomInv'
      /\ waiting' \in [Relays -> Seq(Entries)] /\ inbox' \in [Relays -> Seq(Entries)]
  BY WorkersStep, LinesStep
<1>2. /\ door \in [Relays -> Doors] /\ lock \in [Communities -> Relays \cup {Free, Orphan}]
      /\ failed \subseteq Entries /\ abandoned \subseteq Entries
      /\ created \in 0 .. MaxEntries /\ faults \in 0 .. MaxFaults
      /\ waiting \in [Relays -> Seq(Entries)] /\ inbox \in [Relays -> Seq(Entries)]
      /\ MaxEntries \in Nat /\ MaxFaults \in Nat
  BY AuditAssumption DEF ShapeInv
<1>3. door' \in [Relays -> Doors]
  <2>1. door' = door \/ \E r \in Relays, d \in Doors : door' = [door EXCEPT ![r] = d]
    BY DEF ANext, avars, Works, Sends, Enqueue, Sent, SendFails, Recv, Close, Acquire, LockTimeout,
           BackoffEnds, ReadHead, Insert, Commit, Unlock, Cancel, Exit, ProcessEnds, Restart,
           AppendFails, ConnectionLost, SessionEnds, Doors
  <2> QED
    BY <1>2, <2>1
<1>4. lock' \in [Communities -> Relays \cup {Free, Orphan}]
  <2>1. ASSUME NEW r \in Relays, Acquire(r)
        PROVE  lock' = [lock EXCEPT ![Place(r)] = r]
    BY <2>1 DEF Acquire
  <2>2. \/ lock' = lock
        \/ \E r \in Relays : Acquire(r)
        \/ \E r \in Relays : OrphanSession(r) \/ lock' = Unlocked(r)
        \/ \E c \in Communities : lock' = [lock EXCEPT ![c] = Free]
    BY DEF ANext, avars, Works, Sends, Enqueue, Sent, SendFails, Recv, Close, LockTimeout,
           BackoffEnds, ReadHead, Insert, Commit, Unlock, Cancel, Exit, ProcessEnds, Restart,
           AppendFails, ConnectionLost, SessionEnds
  <2> QED
    BY <1>2, <2>1, <2>2, LockType
<1>5. created' \in 0 .. MaxEntries
  <2>1. created' = created \/ (created < MaxEntries /\ created' = created + 1)
    BY DEF ANext, avars, Works, Sends, Enqueue, Sent, SendFails, Recv, Close, Acquire, LockTimeout,
           BackoffEnds, ReadHead, Insert, Commit, Unlock, Cancel, Exit, ProcessEnds, Restart,
           AppendFails, ConnectionLost, SessionEnds, senders
  <2> QED
    BY <1>2, <2>1
<1>6. faults' \in 0 .. MaxFaults
  <2>1. faults' = faults \/ (faults < MaxFaults /\ faults' = faults + 1)
    BY DEF ANext, avars, Works, Sends, Enqueue, Sent, SendFails, Recv, Close, Acquire, LockTimeout,
           BackoffEnds, ReadHead, Insert, Commit, Unlock, Cancel, Exit, ProcessEnds, Restart,
           AppendFails, ConnectionLost, SessionEnds, Fault
  <2> QED
    BY <1>2, <2>1
<1>7. failed' \subseteq Entries /\ abandoned' \subseteq Entries
  <2>1. ASSUME NEW r \in Relays, SendFails(r) PROVE failed' \subseteq Entries /\ abandoned' \subseteq Entries
    <3>1. Head(waiting[r]) \in Entries
      BY <1>2, <2>1, HeadTail DEF SendFails
    <3> QED
      BY <1>2, <2>1, <3>1 DEF SendFails
  <2>2. ASSUME NEW r \in Relays, Exit(r) \/ ProcessEnds(r)
        PROVE  failed' \subseteq Entries /\ abandoned' \subseteq Entries
    BY <1>2, <2>2, InProcessType DEF Exit, ProcessEnds
  <2>3. ASSUME NEW r \in Relays, Unlock(r) PROVE failed' \subseteq Entries /\ abandoned' \subseteq Entries
    <3>1. worker[r].entry \in Entries
      BY <2>3, InHand DEF Unlock, At
    <3> QED
      BY <1>2, <2>3, <3>1, InProcessType, UnlockMoves
  <2>4. \/ UNCHANGED <<failed, abandoned>>
        \/ \E r \in Relays : SendFails(r) \/ Exit(r) \/ ProcessEnds(r) \/ Unlock(r)
    BY DEF ANext, avars, Works, Sends, Enqueue, Sent, Recv, Close, Acquire, LockTimeout,
           BackoffEnds, ReadHead, Insert, Commit, Cancel, Restart,
           AppendFails, ConnectionLost, SessionEnds
  <2> QED
    BY <1>2, <2>1, <2>2, <2>3, <2>4
<1> QED
  BY <1>1, <1>3, <1>4, <1>5, <1>6, <1>7 DEF ShapeInv, WorkersTyped

-----------------------------------------------------------------------------
(* One relay steps and the others stay.                                    *)

\* A step of relay r: its handlers, its worker, its shutdown or a fault in it.
RelayStep(r) ==
  \/ \E c \in Communities : Enqueue(r, c)
  \/ Sends(r) \/ Works(r)
  \/ Cancel(r) \/ Exit(r) \/ ProcessEnds(r) \/ Restart(r)
  \/ AppendFails(r) \/ ConnectionLost(r)

\* Every step is one of a relay, the end of an orphaned session, or nothing.
LEMMA StepCases ==
  ASSUME [ANext]_avars
  PROVE  \/ UNCHANGED avars
         \/ \E r \in Relays : RelayStep(r)
         \/ \E c \in Communities : SessionEnds(c)
  BY DEF ANext, RelayStep

\* A step in which the worker of r moves.
MovingStep(r) ==
  \/ Recv(r) \/ Exit(r) \/ ProcessEnds(r) \/ Acquire(r) \/ LockTimeout(r) \/ BackoffEnds(r)
  \/ ReadHead(r) \/ Insert(r) \/ Commit(r) \/ AppendFails(r) \/ ConnectionLost(r) \/ Unlock(r)

\* Any other step of r leaves every worker alone.
LEMMA StillSteps ==
  ASSUME NEW r \in Relays, RelayStep(r)
  PROVE  \/ MovingStep(r)
         \/ /\ (\E c \in Communities : Enqueue(r, c)) \/ Sends(r) \/ Close(r) \/ Cancel(r) \/ Restart(r)
            /\ UNCHANGED <<worker, lock, table, abandoned>>
  BY DEF RelayStep, MovingStep, Works, Sends, Enqueue, Sent, SendFails, Close, Cancel, Restart, table

\* A moving step touches one worker.
LEMMA OneMoves ==
  ASSUME ShapeInv, NEW r \in Relays, MovingStep(r), NEW x \in Relays \ {r}
  PROVE  worker'[x] = worker[x]
<1>1. ASSUME NEW pc, NEW e, NEW h, NEW o, Moves(r, pc, e, h, o)
      PROVE  worker'[x] = worker[x]
  BY <1>1 DEF Moves, ShapeInv
<1>2. CASE Recv(r) \/ Exit(r) \/ ProcessEnds(r)
  BY <1>1, <1>2, LoopMoves
<1>3. CASE Acquire(r) \/ LockTimeout(r) \/ BackoffEnds(r) \/ ReadHead(r)
  BY <1>1, <1>3, AppendMoves
<1>4. CASE Insert(r) \/ Commit(r) \/ AppendFails(r) \/ ConnectionLost(r)
  BY <1>1, <1>4, AppendMoves
<1>5. CASE Unlock(r)
  BY <1>1, <1>5, UnlockMoves
<1> QED
  BY <1>2, <1>3, <1>4, <1>5 DEF MovingStep

\* A relay's step leaves the lines and the workers of the others alone.
LEMMA OthersKept ==
  ASSUME ShapeInv, NEW r \in Relays, RelayStep(r), NEW x \in Relays \ {r}
  PROVE  worker'[x] = worker[x] /\ inbox'[x] = inbox[x] /\ waiting'[x] = waiting[x]
<1>1. worker'[x] = worker[x]
  <2>1. CASE MovingStep(r)
    BY <2>1, OneMoves
  <2> QED
    BY <2>1, StillSteps
<1>2. inbox'[x] = inbox[x]
  BY DEF RelayStep, Works, Sends, Enqueue, Sent, SendFails, Recv, Close, Acquire, LockTimeout,
         BackoffEnds, ReadHead, Insert, Commit, Unlock, Cancel, Exit, ProcessEnds, Restart,
         AppendFails, ConnectionLost, ShapeInv
<1>3. waiting'[x] = waiting[x]
  BY DEF RelayStep, Works, Sends, Enqueue, Sent, SendFails, Recv, Close, Acquire, LockTimeout,
         BackoffEnds, ReadHead, Insert, Commit, Unlock, Cancel, Exit, ProcessEnds, Restart,
         AppendFails, ConnectionLost, ShapeInv, senders
<1> QED
  BY <1>1, <1>2, <1>3

\* What the worker of r has in hand, and where it stands, after a step of r.
LEMMA WorkerAfter ==
  ASSUME ShapeInv, NEW r \in Relays, MovingStep(r)
  PROVE  LET w == worker[r]
             v == worker'[r]
         IN /\ Recv(r) => v.pc = "acquire" /\ v.entry = Head(inbox[r])
            /\ Exit(r) \/ ProcessEnds(r) => v.pc = "recv" /\ v.entry = NoEntry
            /\ Acquire(r) => v.pc = "read" /\ v.entry = w.entry
            /\ LockTimeout(r) => v.pc = "backoff" /\ v.entry = w.entry
            /\ BackoffEnds(r) => v.pc = "acquire" /\ v.entry = w.entry
            /\ ReadHead(r) => v.pc = "insert" /\ v.entry = w.entry /\ v.head = HeadOf(Place(r))
            /\ Insert(r) => /\ v.entry = w.entry
                            /\ \/ v.pc = "commit" /\ v.head = RowAfter(w.head, w.entry)
                               \/ v.pc = "unlock" /\ v.outcome = "error"
            /\ Commit(r) => v.pc = "unlock" /\ v.entry = w.entry /\ v.outcome = "ok"
            /\ AppendFails(r) => /\ v.pc = "unlock" /\ v.entry = w.entry
                                 /\ v.outcome \in {"error", "timeout", "panic"}
                                 /\ v.outcome = "timeout" => w.pc # "commit"
            /\ ConnectionLost(r) => v.pc = "unlock" /\ v.entry = w.entry /\ v.outcome = "error"
            /\ Unlock(r) => \/ v.pc = "recv" /\ v.entry = NoEntry /\ w.outcome = "ok"
                               /\ UNCHANGED <<inbox, failed, abandoned>>
                            \/ v.pc = "recv" /\ v.entry = NoEntry /\ w.outcome = "error"
                               /\ UNCHANGED <<inbox, abandoned>> /\ failed' = failed \cup {w.entry}
                            \/ v.pc = "backoff" /\ v.entry = w.entry /\ w.outcome = "timeout"
                               /\ UNCHANGED <<inbox, failed, abandoned>>
                            \/ v.pc = "gone" /\ v.entry = NoEntry /\ w.outcome = "panic"
                               /\ inbox' = [inbox EXCEPT ![r] = <<>>] /\ UNCHANGED failed
                               /\ abandoned' = abandoned \cup {w.entry} \cup ToSet(inbox[r])
<1>1. worker[r].entry \in Entries \cup {NoEntry} /\ worker[r].outcome \in Outcomes
  BY MovesForms
<1>2. "recv" \in Pcs /\ "acquire" \in Pcs /\ "backoff" \in Pcs /\ "read" \in Pcs /\ "insert" \in Pcs
      /\ "commit" \in Pcs /\ "unlock" \in Pcs /\ "gone" \in Pcs /\ NoEntry \in Entries \cup {NoEntry}
      /\ "none" \in Outcomes /\ "ok" \in Outcomes /\ "error" \in Outcomes /\ "timeout" \in Outcomes
      /\ "panic" \in Outcomes
  BY DEF Pcs, Outcomes
<1>3. Recv(r) => Head(inbox[r]) \in Entries \cup {NoEntry}
  BY HeadTail DEF Recv, ShapeInv
<1>4. /\ Recv(r) => worker'[r].pc = "acquire" /\ worker'[r].entry = Head(inbox[r])
      /\ Exit(r) \/ ProcessEnds(r) => worker'[r].pc = "recv" /\ worker'[r].entry = NoEntry
  BY <1>1, <1>2, <1>3, LoopMoves, MovesFields
<1>5. /\ Acquire(r) => worker'[r].pc = "read" /\ worker'[r].entry = worker[r].entry
      /\ LockTimeout(r) => worker'[r].pc = "backoff" /\ worker'[r].entry = worker[r].entry
      /\ BackoffEnds(r) => worker'[r].pc = "acquire" /\ worker'[r].entry = worker[r].entry
  BY <1>1, <1>2, AppendMoves, MovesFields
<1>6. ReadHead(r) => /\ worker'[r].pc = "insert" /\ worker'[r].entry = worker[r].entry
                     /\ worker'[r].head = HeadOf(Place(r))
  BY <1>1, <1>2, AppendMoves, MovesFields
<1>7. Insert(r) => /\ worker'[r].entry = worker[r].entry
                   /\ \/ worker'[r].pc = "commit"
                         /\ worker'[r].head = RowAfter(worker[r].head, worker[r].entry)
                      \/ worker'[r].pc = "unlock" /\ worker'[r].outcome = "error"
  <2> DEFINE row == RowAfter(worker[r].head, worker[r].entry)
  <2>1. Insert(r) => \/ Moves(r, "commit", worker[r].entry, row, worker[r].outcome)
                     \/ Moves(r, "unlock", worker[r].entry, worker[r].head, "error")
    BY AppendMoves
  <2> HIDE DEF row
  <2>2. ASSUME NEW h, Moves(r, "commit", worker[r].entry, h, worker[r].outcome)
        PROVE  worker'[r].entry = worker[r].entry /\ worker'[r].pc = "commit" /\ worker'[r].head = h
    BY <1>1, <1>2, <2>2, MovesFields
  <2>3. Moves(r, "unlock", worker[r].entry, worker[r].head, "error")
          => worker'[r].entry = worker[r].entry /\ worker'[r].pc = "unlock" /\ worker'[r].outcome = "error"
    BY <1>1, <1>2, MovesFields
  <2> QED
    BY <2>1, <2>2, <2>3 DEF row
<1>8. Commit(r) => worker'[r].pc = "unlock" /\ worker'[r].entry = worker[r].entry
                   /\ worker'[r].outcome = "ok"
  BY <1>1, <1>2, AppendMoves, MovesFields
<1>9. AppendFails(r) => /\ worker'[r].pc = "unlock" /\ worker'[r].entry = worker[r].entry
                        /\ worker'[r].outcome \in {"error", "timeout", "panic"}
                        /\ worker'[r].outcome = "timeout" => worker[r].pc # "commit"
  BY <1>1, <1>2, AppendMoves, MovesFields
<1>10. ConnectionLost(r) => worker'[r].pc = "unlock" /\ worker'[r].entry = worker[r].entry
                            /\ worker'[r].outcome = "error"
  BY <1>1, <1>2, AppendMoves, MovesFields
<1>11. ASSUME Unlock(r)
       PROVE  LET w == worker[r]
                  v == worker'[r]
              IN \/ v.pc = "recv" /\ v.entry = NoEntry /\ w.outcome = "ok"
                    /\ UNCHANGED <<inbox, failed, abandoned>>
                 \/ v.pc = "recv" /\ v.entry = NoEntry /\ w.outcome = "error"
                    /\ UNCHANGED <<inbox, abandoned>> /\ failed' = failed \cup {w.entry}
                 \/ v.pc = "backoff" /\ v.entry = w.entry /\ w.outcome = "timeout"
                    /\ UNCHANGED <<inbox, failed, abandoned>>
                 \/ v.pc = "gone" /\ v.entry = NoEntry /\ w.outcome = "panic"
                    /\ inbox' = [inbox EXCEPT ![r] = <<>>] /\ UNCHANGED failed
                    /\ abandoned' = abandoned \cup {w.entry} \cup ToSet(inbox[r])
  BY <1>1, <1>2, <1>11, UnlockMoves, MovesFields
<1> QED
  BY <1>4, <1>5, <1>6, <1>7, <1>8, <1>9, <1>10, <1>11

-----------------------------------------------------------------------------
(* HandInv and LockInv.                                                    *)

\* Rows are only ever added.
LEMMA RowsGrow == ASSUME [ANext]_avars PROVE rows \subseteq rows'
  BY DEF ANext, avars, Works, Sends, Enqueue, Sent, SendFails, Recv, Close, Acquire, LockTimeout,
         BackoffEnds, ReadHead, Insert, Commit, Unlock, Cancel, Exit, ProcessEnds, Restart,
         AppendFails, ConnectionLost, SessionEnds, table

\* HandInv of one relay.
HandOf(r) ==
  /\ worker[r].entry = NoEntry <=> worker[r].pc \in {"recv", "gone"}
  /\ worker[r].pc = "gone" => inbox[r] = <<>>
  /\ worker[r].pc = "unlock" /\ worker[r].outcome = "ok" =>
       \E w \in rows : w.entry = worker[r].entry

\* No entry is the empty hand: ids start at one.
LEMMA EntryIsNot == NoEntry \notin Entries
  BY AuditAssumption DEF NoEntry, Entries

\* The parts of the next row.
LEMMA RowFields ==
  ASSUME NEW h, NEW e
  PROVE  /\ RowAfter(h, e).community = e.community /\ RowAfter(h, e).entry = e
         /\ RowAfter(h, e).seq = h.seq + 1 /\ RowAfter(h, e).prev = h.hash
         /\ RowAfter(h, e).hash = ComputeHash(e.community, h.seq + 1, e, h.hash)
  BY DEF RowAfter

\* A COMMIT that may still arrive is one for the community of its sender.
LEMMA CommitsPlace ==
  ASSUME ShapeInv, HandInv, ChainInv, NEW r \in Relays, worker[r].pc = "commit"
  PROVE  worker[r].head.community = Place(r) /\ worker[r].head.entry = worker[r].entry
         /\ Place(r) \in Communities
<1>1. worker[r].head = RowAfter(HeadOf(Place(r)), worker[r].entry)
  BY DEF ChainInv
<1>2. worker[r].head.community = worker[r].entry.community /\ worker[r].head.entry = worker[r].entry
  BY <1>1, RowFields
<1> QED
  BY <1>2, InHand DEF Place

\* HandInv is kept by every step: only a COMMIT ends an append with success, and only
\* a panic leaves the loop.
LEMMA HandStep ==
  ASSUME ShapeInv, HandInv, LockInv, ChainInv, [ANext]_avars
  PROVE  HandInv'
<1> SUFFICES ASSUME NEW x \in Relays PROVE HandOf(x)'
  BY DEF HandInv, HandOf
<1>1. HandOf(x) /\ rows \subseteq rows'
  BY RowsGrow DEF HandInv, HandOf
<1>2. CASE worker'[x] = worker[x] /\ inbox'[x] = inbox[x]
  BY <1>1, <1>2 DEF HandOf
<1>3. CASE UNCHANGED avars
  BY <1>2, <1>3 DEF avars
<1>4. ASSUME NEW c \in Communities, SessionEnds(c) PROVE HandOf(x)'
  BY <1>2, <1>4 DEF SessionEnds
<1>5. ASSUME NEW r \in Relays, RelayStep(r), r # x PROVE HandOf(x)'
  BY <1>2, <1>5, OthersKept
<1>6. ASSUME RelayStep(x) PROVE HandOf(x)'
  <2>1. CASE MovingStep(x)
    <3>1. CASE Recv(x)
      <4>1. Head(inbox[x]) \in Entries
        BY <3>1, HeadTail DEF Recv, ShapeInv
      <4> QED
        BY <2>1, <3>1, <4>1, WorkerAfter, EntryIsNot DEF HandOf
    <3>2. CASE Exit(x) \/ ProcessEnds(x)
      BY <2>1, <3>2, WorkerAfter DEF HandOf
    <3>3. CASE Acquire(x) \/ LockTimeout(x) \/ BackoffEnds(x) \/ ReadHead(x)
      BY <1>1, <2>1, <3>3, WorkerAfter DEF HandOf, Acquire, LockTimeout, BackoffEnds, ReadHead, At
    <3>4. CASE Insert(x) \/ AppendFails(x) \/ ConnectionLost(x)
      BY <1>1, <2>1, <3>4, WorkerAfter DEF HandOf, Insert, AppendFails, ConnectionLost, At
    <3>5. CASE Commit(x)
      <4>1. worker[x].pc = "commit" /\ worker[x].head \in rows'
        BY <3>5 DEF Commit, At
      <4>2. worker[x].head.entry = worker[x].entry
        BY <4>1, CommitsPlace
      <4> QED
        BY <1>1, <2>1, <3>5, <4>1, <4>2, WorkerAfter DEF HandOf
    <3>6. CASE Unlock(x)
      <4>1. worker[x].pc = "unlock"
        BY <3>6 DEF Unlock, At
      <4>2. inbox' = [inbox EXCEPT ![x] = <<>>] => inbox'[x] = <<>>
        BY DEF ShapeInv
      <4> QED
        BY <1>1, <2>1, <3>6, <4>1, <4>2, WorkerAfter DEF HandOf
    <3> QED
      BY <2>1, <3>1, <3>2, <3>3, <3>4, <3>5, <3>6 DEF MovingStep
  <2>2. CASE ~MovingStep(x)
    <3>1. worker' = worker
      BY <1>6, <2>2, StillSteps
    <3>2. worker[x].pc = "gone" => inbox'[x] = inbox[x]
      BY <1>6, <2>2, StillSteps DEF Enqueue, Sends, Sent, SendFails, Close, Cancel, Restart, Room, Accepts
    <3> QED
      BY <1>1, <3>1, <3>2 DEF HandOf
  <2> QED
    BY <2>1, <2>2
<1> QED
  BY <1>3, <1>4, <1>5, <1>6, StepCases

\* Late rows are of communities.
LEMMA LatePlace ==
  ASSUME ChainInv, NEW w \in rows \cup late
  PROVE  w.community \in Communities /\ w.entry \in Entries /\ w.entry.community = w.community
  BY DEF ChainInv, Entries

\* The lock of relay r's transaction.
HoldsLock(r) == worker[r].pc \in {"read", "insert", "commit"} => lock[Place(r)] = r

\* LockInv is kept by every step.
LEMMA LockStep ==
  ASSUME ShapeInv, HandInv, LockInv, ChainInv, [ANext]_avars
  PROVE  LockInv'
<1> USE AuditAssumption
<1>1. /\ lock \in [Communities -> Relays \cup {Free, Orphan}]
      /\ Free \notin Relays /\ Orphan \notin Relays /\ Free # Orphan
  BY DEF ShapeInv, Free, Orphan
<1>2. \A x \in Relays : HoldsLock(x) /\ (worker[x].pc \in {"read", "insert", "commit"} => Place(x) \in Communities)
  BY InHand DEF LockInv, HoldsLock
<1>3. \A w \in late : lock[w.community] = Orphan /\ w.community \in Communities
  BY LatePlace DEF LockInv
<1>4. ASSUME NEW x \in Relays, worker'[x] = worker[x],
             worker[x].pc \in {"read", "insert", "commit"} => lock'[Place(x)] = lock[Place(x)]
      PROVE  HoldsLock(x)'
  BY <1>2, <1>4 DEF HoldsLock, Place
<1>5. CASE UNCHANGED avars
  BY <1>3, <1>4, <1>5 DEF avars, LockInv, HoldsLock, Place
<1>6. ASSUME NEW c \in Communities, SessionEnds(c) PROVE LockInv'
  <2>1. worker' = worker /\ lock[c] = Orphan /\ lock' = [lock EXCEPT ![c] = Free]
        /\ late' = {w \in late : w.community # c}
    BY <1>6 DEF SessionEnds
  <2>2. \A x \in Relays : worker[x].pc \in {"read", "insert", "commit"} => lock'[Place(x)] = lock[Place(x)]
    BY <1>1, <1>2, <2>1 DEF HoldsLock
  <2>3. \A w \in late' : lock'[w.community] = Orphan
    BY <1>1, <1>3, <2>1
  <2> QED
    BY <1>4, <2>1, <2>2, <2>3 DEF LockInv, HoldsLock
<1>7. ASSUME NEW r \in Relays, RelayStep(r) PROVE LockInv'
  <2>1. \A x \in Relays \ {r} : worker'[x] = worker[x]
    BY <1>7, OthersKept
  <2>2. CASE Acquire(r)
    <3>1. worker[r].pc = "acquire" /\ lock[Place(r)] = Free /\ lock' = [lock EXCEPT ![Place(r)] = r]
          /\ late' = late
      BY <2>2 DEF Acquire, At, LockFree, table
    <3>2. Place(r) \in Communities
      BY <3>1, InHand
    <3>3. HoldsLock(r)'
      <4>1. worker'[r].entry = worker[r].entry
        BY <2>2, WorkerAfter DEF MovingStep
      <4> QED
        BY <1>1, <3>1, <3>2, <4>1 DEF HoldsLock, Place
    <3>4. \A x \in Relays \ {r} : worker[x].pc \in {"read", "insert", "commit"} => lock'[Place(x)] = lock[Place(x)]
      BY <1>1, <1>2, <3>1 DEF HoldsLock
    <3>5. \A w \in late' : lock'[w.community] = Orphan
      BY <1>1, <1>3, <3>1, <3>2
    <3> QED
      BY <1>4, <2>1, <3>3, <3>4, <3>5 DEF LockInv, HoldsLock
  <2>3. CASE Unlock(r)
    <3>1. lock' = Unlocked(r) /\ late' = late
      BY <2>3 DEF Unlock, table
    <3>2. worker'[r].pc \notin {"read", "insert", "commit"}
      BY <2>3, WorkerAfter DEF MovingStep
    <3>3. \A x \in Relays \ {r} : worker[x].pc \in {"read", "insert", "commit"} => lock'[Place(x)] = lock[Place(x)]
      BY <1>1, <1>2, <3>1 DEF HoldsLock, Unlocked
    <3>4. \A w \in late' : lock'[w.community] = Orphan
      BY <1>1, <1>3, <3>1 DEF Unlocked
    <3> QED
      BY <1>4, <2>1, <3>2, <3>3, <3>4 DEF LockInv, HoldsLock
  <2>4. CASE ProcessEnds(r) \/ ConnectionLost(r)
    <3>1. OrphanSession(r)
      BY <2>4 DEF ProcessEnds, ConnectionLost
    <3>2. worker'[r].pc \notin {"read", "insert", "commit"}
      BY <2>4, WorkerAfter DEF MovingStep
    <3>3. \A x \in Relays \ {r} : worker[x].pc \in {"read", "insert", "commit"} => lock'[Place(x)] = lock[Place(x)]
      BY <1>1, <1>2, <3>1 DEF HoldsLock, OrphanSession
    <3>4. \A w \in late : lock'[w.community] = Orphan
      BY <1>1, <1>3, <3>1 DEF OrphanSession
    <3>5. worker[r].pc = "commit" => lock'[worker[r].head.community] = Orphan
      BY <1>1, <1>2, <3>1, CommitsPlace DEF OrphanSession, HoldsLock
    <3>6. late' = late \/ (worker[r].pc = "commit" /\ late' = late \cup {worker[r].head})
      BY <3>1 DEF OrphanSession
    <3>7. \A w \in late' : lock'[w.community] = Orphan
      BY <3>4, <3>5, <3>6
    <3> QED
      BY <1>4, <2>1, <3>2, <3>3, <3>7 DEF LockInv, HoldsLock
  <2>5. CASE ReadHead(r) \/ Insert(r)
    <3>1. lock' = lock /\ late' = late /\ worker[r].pc \in {"read", "insert", "commit"}
      BY <2>5 DEF ReadHead, Insert, At, table
    <3>2. worker'[r].entry = worker[r].entry
      BY <2>5, WorkerAfter DEF MovingStep
    <3>3. HoldsLock(r)'
      BY <1>2, <3>1, <3>2 DEF HoldsLock, Place
    <3> QED
      BY <1>3, <1>4, <2>1, <3>1, <3>3 DEF LockInv, HoldsLock
  <2>6. CASE Recv(r) \/ Exit(r) \/ LockTimeout(r) \/ BackoffEnds(r) \/ Commit(r) \/ AppendFails(r)
    <3>1. lock' = lock /\ late' = late
      BY <2>6 DEF Recv, Exit, LockTimeout, BackoffEnds, Commit, AppendFails, table
    <3>2. worker'[r].pc \notin {"read", "insert", "commit"}
      BY <2>6, WorkerAfter DEF MovingStep
    <3> QED
      BY <1>3, <1>4, <2>1, <3>1, <3>2 DEF LockInv, HoldsLock
  <2>7. CASE UNCHANGED <<worker, lock, late>>
    BY <1>3, <1>4, <2>7 DEF LockInv, HoldsLock, Place
  <2> QED
    BY <1>7, <2>2, <2>3, <2>4, <2>5, <2>6, <2>7, StillSteps DEF MovingStep, table
<1> QED
  BY <1>5, <1>6, <1>7, StepCases

-----------------------------------------------------------------------------
(* ChainInv.                                                               *)

\* The part of ChainInv that is about the table alone.
Chained ==
  /\ \A c \in Communities : {w.seq : w \in ChainOf(c)} = 1 .. HeadOf(c).seq
  /\ \A c \in Communities : ChainOf(c) # {} => HeadOf(c) \in ChainOf(c)
  /\ \A v, w \in rows : v.community = w.community /\ v.seq = w.seq => v = w
  /\ \A v, w \in rows : v.community = w.community /\ w.seq = v.seq + 1 => w.prev = v.hash

RowOK(w) ==
  /\ w.entry \in Entries /\ w.community = w.entry.community /\ w.seq \in Nat \ {0}
  /\ w.hash = ComputeHash(w.community, w.seq, w.entry, w.prev)

\* The rest: what is about to be appended comes next.
LateNext ==
  /\ \A w \in late : w = RowAfter(HeadOf(w.community), w.entry)
  /\ \A v, w \in late : v.community = w.community => v = w

HeadNow(r) ==
  /\ worker[r].pc = "insert" => worker[r].head = HeadOf(Place(r))
  /\ worker[r].pc = "commit" => worker[r].head = RowAfter(HeadOf(Place(r)), worker[r].entry)

\* ChainInv in these parts.
LEMMA ChainParts ==
  ChainInv <=> /\ Chained /\ (\A w \in rows \cup late : RowOK(w)) /\ LateNext
               /\ \A r \in Relays : HeadNow(r)
  BY DEF ChainInv, Chained, RowOK, LateNext, HeadNow

\* The parts after a step make ChainInv after it.
LEMMA ChainJoin ==
  ASSUME Chained', (\A w \in rows \cup late : RowOK(w))', LateNext', \A r \in Relays : HeadNow(r)'
  PROVE  ChainInv'
  BY DEF ChainInv, Chained, RowOK, LateNext, HeadNow

\* The head of a chain: the last row, and number 0 before the first.
LEMMA HeadFacts ==
  ASSUME ChainInv, NEW c \in Communities
  PROVE  /\ HeadOf(c).seq \in Nat
         /\ ChainOf(c) = {} => HeadOf(c) = Genesis /\ HeadOf(c).seq = 0
         /\ \A w \in ChainOf(c) : w.seq \in Nat /\ w.seq <= HeadOf(c).seq
<1>1. ChainOf(c) = {} => HeadOf(c) = Genesis /\ HeadOf(c).seq = 0
  BY DEF HeadOf, Genesis
<1>2. \A w \in ChainOf(c) : w.seq \in Nat /\ w.seq \in {v.seq : v \in ChainOf(c)}
  BY DEF ChainInv, ChainOf
<1>3. HeadOf(c).seq \in Nat
  BY <1>1, <1>2 DEF ChainInv
<1>4. \A w \in ChainOf(c) : w.seq \in 1 .. HeadOf(c).seq
  BY <1>2 DEF ChainInv
<1> QED
  BY <1>1, <1>2, <1>3, <1>4

\* A head depends on the rows of its own community only.
LEMMA HeadKept ==
  ASSUME NEW c \in Communities, ChainOf(c)' = ChainOf(c)
  PROVE  HeadOf(c)' = HeadOf(c)
<1> DEFINE S == ChainOf(c)
           h(T) == IF T = {} THEN Genesis ELSE CHOOSE w \in T : \A v \in T : v.seq <= w.seq
<1>1. HeadOf(c) = h(ChainOf(c)) /\ HeadOf(c)' = h(ChainOf(c)')
  BY DEF HeadOf
<1> HIDE DEF h
<1> QED
  BY <1>1

\* One row is appended to one chain: it is the new head, and the table is as before.
LEMMA Appended ==
  ASSUME ChainInv, NEW e \in Entries,
         rows' = rows \cup {RowAfter(HeadOf(e.community), e)}
  PROVE  /\ Chained'
         /\ HeadOf(e.community)' = RowAfter(HeadOf(e.community), e)
         /\ \A d \in Communities \ {e.community} : HeadOf(d)' = HeadOf(d)
         /\ RowOK(RowAfter(HeadOf(e.community), e))
         /\ RowAfter(HeadOf(e.community), e) \notin rows
<1> DEFINE c == e.community
           row == RowAfter(HeadOf(c), e)
<1>1. c \in Communities
  BY DEF Entries
<1>2. /\ HeadOf(c).seq \in Nat
      /\ ChainOf(c) = {} => HeadOf(c) = Genesis /\ HeadOf(c).seq = 0
      /\ \A w \in ChainOf(c) : w.seq \in Nat /\ w.seq <= HeadOf(c).seq
  BY <1>1, HeadFacts
<1>3. /\ row.community = c /\ row.entry = e /\ row.seq = HeadOf(c).seq + 1 /\ row.prev = HeadOf(c).hash
      /\ row.hash = ComputeHash(c, HeadOf(c).seq + 1, e, HeadOf(c).hash)
  BY RowFields
<1>4. RowOK(row)
  BY <1>2, <1>3 DEF RowOK
<1>5. rows' = rows \cup {row}
  OBVIOUS
<1> HIDE DEF row, c
<1>6. ChainOf(c)' = ChainOf(c) \cup {row} /\ \A d \in Communities \ {c} : ChainOf(d)' = ChainOf(d)
  BY <1>3, <1>5 DEF ChainOf
<1>7. \A d \in Communities \ {c} : HeadOf(d)' = HeadOf(d)
  BY <1>6, HeadKept
<1>8. HeadOf(c)' = row
  <2> DEFINE T == ChainOf(c)'
             P(w) == \A v \in T : v.seq <= w.seq
  <2>1. HeadOf(c)' = IF T = {} THEN Genesis ELSE CHOOSE w \in T : P(w)
    BY DEF HeadOf
  <2>2. row \in T /\ P(row)
    BY <1>2, <1>3, <1>6
  <2>3. \A w \in T : P(w) => w = row
    <3> SUFFICES ASSUME NEW w \in T, P(w) PROVE w = row
      OBVIOUS
    <3>1. row.seq <= w.seq
      BY <2>2
    <3> QED
      BY <1>2, <1>3, <1>6, <3>1
  <2> HIDE DEF T, P
  <2>4. (CHOOSE w \in T : P(w)) \in T /\ P(CHOOSE w \in T : P(w))
    BY <2>2, Zenon
  <2> QED
    BY <2>1, <2>2, <2>3, <2>4
<1>9. \A d \in Communities : {w.seq : w \in ChainOf(d)'} = 1 .. HeadOf(d)'.seq
  <2>1. {w.seq : w \in ChainOf(c)} = 1 .. HeadOf(c).seq
    BY <1>1 DEF ChainInv
  <2>2. {w.seq : w \in ChainOf(c)'} = {w.seq : w \in ChainOf(c)} \cup {row.seq}
    BY <1>6
  <2>3. {w.seq : w \in ChainOf(c)'} = 1 .. HeadOf(c)'.seq
    <3>1. \A n \in Nat : (1 .. n) \cup {n + 1} = 1 .. n + 1
      OBVIOUS
    <3>2. (1 .. HeadOf(c).seq) \cup {row.seq} = 1 .. row.seq
      BY <1>2, <1>3, <3>1
    <3> QED
      BY <1>8, <2>1, <2>2, <3>2
  <2>4. \A d \in Communities \ {c} : {w.seq : w \in ChainOf(d)'} = 1 .. HeadOf(d)'.seq
    <3> SUFFICES ASSUME NEW d \in Communities \ {c} PROVE {w.seq : w \in ChainOf(d)'} = 1 .. HeadOf(d)'.seq
      OBVIOUS
    <3>1. {w.seq : w \in ChainOf(d)} = 1 .. HeadOf(d).seq
      BY DEF ChainInv
    <3>2. ChainOf(d)' = ChainOf(d) /\ HeadOf(d)' = HeadOf(d)
      BY <1>6, <1>7
    <3> QED
      BY <3>1, <3>2
  <2> QED
    BY <2>3, <2>4
<1>10. \A d \in Communities : ChainOf(d)' # {} => HeadOf(d)' \in ChainOf(d)'
  BY <1>6, <1>7, <1>8 DEF ChainInv
<1>11. \A v \in rows : v.community = c => v.seq \in Nat /\ v.seq <= HeadOf(c).seq /\ v.seq < row.seq
  BY <1>2, <1>3 DEF ChainOf
<1>12. \A v, w \in rows' : v.community = w.community /\ v.seq = w.seq => v = w
  BY <1>3, <1>5, <1>11 DEF ChainInv
<1>13. \A v, w \in rows' : v.community = w.community /\ w.seq = v.seq + 1 => w.prev = v.hash
  <2> SUFFICES ASSUME NEW v \in rows', NEW w \in rows', v.community = w.community, w.seq = v.seq + 1
               PROVE  w.prev = v.hash
    OBVIOUS
  <2>1. CASE v \in rows /\ w \in rows
    BY <2>1 DEF ChainInv
  <2>2. CASE v \in rows /\ w = row
    <3>1. v.community = c /\ v.seq = HeadOf(c).seq /\ v \in ChainOf(c)
      BY <1>2, <1>3, <1>11, <2>2 DEF ChainOf
    <3>2. HeadOf(c) \in rows /\ HeadOf(c).community = c
      BY <1>1, <3>1 DEF ChainInv, ChainOf
    <3>3. v = HeadOf(c)
      BY <2>2, <3>1, <3>2 DEF ChainInv
    <3> QED
      BY <1>3, <2>2, <3>3
  <2>3. CASE v = row
    <3>1. w.seq \in Nat /\ w.seq <= row.seq /\ row.seq \in Nat
      BY <1>2, <1>3, <1>5, <1>11, <2>3
    <3> QED
      BY <2>3, <3>1
  <2> QED
    BY <1>5, <2>1, <2>2, <2>3
<1>14. Chained'
  BY <1>9, <1>10, <1>12, <1>13 DEF Chained
<1>15. row \notin rows
  BY <1>2, <1>3, <1>11
<1> QED
  BY <1>4, <1>7, <1>8, <1>14, <1>15 DEF row, c

\* The table stays: so do the heads, and what the workers read of them.
LEMMA TableKept ==
  ASSUME ChainInv, rows' = rows
  PROVE  Chained' /\ \A c \in Communities : HeadOf(c)' = HeadOf(c)
<1>1. \A c : ChainOf(c)' = ChainOf(c)
  BY DEF ChainOf
<1>2. \A c \in Communities : HeadOf(c)' = HeadOf(c)
  BY <1>1, HeadKept
<1> QED
  BY <1>1, <1>2, ChainParts DEF Chained

\* A worker whose community's chain did not grow still holds the head.
LEMMA HeadNowKept ==
  ASSUME ChainInv, NEW x \in Relays, worker'[x] = worker[x],
         worker[x].pc \in {"insert", "commit"} =>
           \E c \in Communities : c = Place(x) /\ HeadOf(c)' = HeadOf(c)
  PROVE  HeadNow(x)'
<1>1. HeadNow(x)
  BY ChainParts
<1>2. CASE worker[x].pc \in {"insert", "commit"}
  <2>1. PICK c \in Communities : c = Place(x) /\ HeadOf(c)' = HeadOf(c)
    BY <1>2
  <2>2. PICK e : e = worker[x].entry
    OBVIOUS
  <2>3. Place(x)' = c /\ worker'[x].entry = e
    BY <2>1, <2>2 DEF Place
  <2>4. HeadOf(Place(x))' = HeadOf(c)'
    BY <2>3 DEF HeadOf, ChainOf
  <2> QED
    BY <1>1, <2>1, <2>2, <2>3, <2>4 DEF HeadNow
<1>3. CASE worker[x].pc \notin {"insert", "commit"}
  BY <1>3 DEF HeadNow
<1> QED
  BY <1>2, <1>3

\* Late rows of communities whose chain did not grow still come next.
LEMMA LateKept ==
  ASSUME ChainInv, NEW w \in late, HeadOf(w.community)' = HeadOf(w.community)
  PROVE  w = RowAfter(HeadOf(w.community)', w.entry)
  BY DEF ChainInv

\* ChainInv is kept by every step: whoever appends is alone with the head it read.
LEMMA ChainStep ==
  ASSUME ShapeInv, HandInv, LockInv, ChainInv, [ANext]_avars
  PROVE  ChainInv'
<1> USE AuditAssumption
<1>1. Chained /\ (\A w \in rows \cup late : RowOK(w)) /\ LateNext /\ \A r \in Relays : HeadNow(r)
  BY ChainParts
<1>2. Free \notin Relays /\ Orphan \notin Relays /\ Free # Orphan
  BY DEF Free, Orphan
<1>3. \A x \in Relays : worker[x].pc \in {"insert", "commit"} => Place(x) \in Communities /\ lock[Place(x)] = x
  BY InHand DEF LockInv
<1>4. \A w \in late : w.community \in Communities /\ lock[w.community] = Orphan
  BY LatePlace DEF LockInv
<1>5. CASE UNCHANGED <<rows, late>> /\ \A r \in Relays : HeadNow(r)'
  <2>1. Chained' /\ \A c \in Communities : HeadOf(c)' = HeadOf(c)
    BY <1>5, TableKept
  <2>2. LateNext'
    BY <1>1, <1>4, <1>5, <2>1, LateKept DEF LateNext
  <2>3. (\A w \in rows \cup late : RowOK(w))'
    BY <1>1, <1>5 DEF RowOK
  <2> QED
    BY <1>5, <2>1, <2>2, <2>3, ChainJoin
<1>6. CASE UNCHANGED avars
  <2>1. UNCHANGED <<rows, late, worker>>
    BY <1>6 DEF avars
  <2>2. \A c \in Communities : HeadOf(c)' = HeadOf(c)
    BY <2>1, TableKept
  <2>3. \A r \in Relays : HeadNow(r)'
    BY <1>3, <2>1, <2>2, HeadNowKept
  <2> QED
    BY <1>5, <2>1, <2>3
<1>7. ASSUME NEW c \in Communities, SessionEnds(c) PROVE ChainInv'
  <2> DEFINE L == {w \in late : w.community = c}
  <2>1. worker' = worker /\ lock[c] = Orphan /\ rows' = rows \cup L /\ late' = {w \in late : w.community # c}
    BY <1>7 DEF SessionEnds
  <2>2. \A x \in Relays : worker[x].pc \in {"insert", "commit"} => Place(x) \in Communities \ {c}
    BY <1>2, <1>3, <2>1
  <2>3. Chained' /\ (\A d \in Communities \ {c} : HeadOf(d)' = HeadOf(d)) /\ (\A w \in rows' : RowOK(w))
    <3>1. CASE L = {}
      <4>1. rows' = rows
        BY <2>1, <3>1
      <4> QED
        BY <1>1, <4>1, TableKept
    <3>2. CASE L # {}
      <4>1. PICK w \in late : w.community = c
        BY <3>2
      <4>2. L = {w}
        BY <1>1, <4>1 DEF LateNext
      <4>3. w.entry \in Entries /\ w.entry.community = c /\ RowOK(w)
        BY <1>1, <4>1, LatePlace
      <4>4. w = RowAfter(HeadOf(w.entry.community), w.entry)
        BY <1>1, <4>1, <4>3 DEF LateNext
      <4>5. rows' = rows \cup {w}
        BY <2>1, <4>2
      <4>6. rows' = rows \cup {RowAfter(HeadOf(w.entry.community), w.entry)}
        BY <4>4, <4>5
      <4>7. Chained' /\ (\A d \in Communities \ {c} : HeadOf(d)' = HeadOf(d))
        BY <4>3, <4>6, Appended
      <4> QED
        BY <1>1, <4>3, <4>5, <4>7
    <3> QED
      BY <3>1, <3>2
  <2>4. \A x \in Relays : HeadNow(x)'
    BY <2>1, <2>2, <2>3, HeadNowKept
  <2>5. LateNext'
    BY <1>1, <1>4, <2>1, <2>3, LateKept DEF LateNext
  <2>6. (\A w \in rows \cup late : RowOK(w))'
    BY <1>1, <2>1, <2>3 DEF RowOK
  <2> QED
    BY <2>3, <2>4, <2>5, <2>6, ChainJoin
<1>8. ASSUME NEW r \in Relays, RelayStep(r) PROVE ChainInv'
  <2>1. \A x \in Relays \ {r} : worker'[x] = worker[x]
    BY <1>8, OthersKept
  <2>2. CASE Commit(r)
    <3>0. PICK e : e = worker[r].entry
      OBVIOUS
    <3>1. worker[r].pc = "commit" /\ rows' = rows \cup {worker[r].head} /\ late' = late
      BY <2>2 DEF Commit, At
    <3>2. e \in Entries /\ Place(r) = e.community /\ lock[e.community] = r
      BY <1>3, <3>0, <3>1, InHand DEF Place
    <3>3. worker[r].head = RowAfter(HeadOf(e.community), e)
      BY <1>1, <3>0, <3>1, <3>2 DEF HeadNow
    <3>4. rows' = rows \cup {RowAfter(HeadOf(e.community), e)}
      BY <3>1, <3>3
    <3>5. Chained' /\ RowOK(RowAfter(HeadOf(e.community), e))
          /\ \A d \in Communities \ {e.community} : HeadOf(d)' = HeadOf(d)
      BY <3>2, <3>4, Appended
    <3>6. \A x \in Relays \ {r} : HeadNow(x)'
      BY <1>3, <2>1, <3>2, <3>5, HeadNowKept
    <3>7. HeadNow(r)'
      BY <2>2, WorkerAfter DEF MovingStep, HeadNow
    <3>8. \A w \in late : w.community \in Communities \ {e.community}
      BY <1>2, <1>4, <3>2
    <3>9. LateNext'
      BY <1>1, <3>1, <3>5, <3>8, LateKept DEF LateNext
    <3>10. (\A w \in rows \cup late : RowOK(w))'
      BY <1>1, <3>1, <3>3, <3>5 DEF RowOK
    <3> QED
      BY <3>5, <3>6, <3>7, <3>9, <3>10, ChainJoin
  <2>3. CASE rows' = rows
    <3>1. Chained' /\ \A c \in Communities : HeadOf(c)' = HeadOf(c)
      BY <2>3, TableKept
    <3>2. \A x \in Relays \ {r} : HeadNow(x)'
      BY <1>3, <2>1, <3>1, HeadNowKept
    <3>3. CASE ~MovingStep(r)
      <4>1. worker' = worker /\ late' = late
        BY <1>8, <3>3, StillSteps DEF table
      <4>2. HeadNow(r)'
        BY <1>3, <3>1, <4>1, HeadNowKept
      <4> QED
        BY <1>5, <2>3, <3>2, <4>1, <4>2
    <3>4. CASE ReadHead(r)
      <4>1. worker'[r].pc = "insert" /\ worker'[r].entry = worker[r].entry /\ worker'[r].head = HeadOf(Place(r))
            /\ worker[r].pc = "read" /\ late' = late
        BY <3>4, WorkerAfter DEF MovingStep, ReadHead, At, table
      <4>2. PICK c \in Communities : c = Place(r)
        BY <4>1, InHand
      <4>3. Place(r)' = c /\ HeadOf(c)' = HeadOf(c)
        BY <3>1, <4>1, <4>2 DEF Place
      <4>4. HeadOf(Place(r))' = HeadOf(c)'
        BY <4>3 DEF HeadOf, ChainOf
      <4>5. HeadNow(r)'
        BY <4>1, <4>2, <4>3, <4>4 DEF HeadNow
      <4> QED
        BY <1>5, <2>3, <3>2, <4>1, <4>5
    <3>5. CASE Insert(r)
      <4>1. worker[r].pc = "insert" /\ late' = late /\ worker'[r].entry = worker[r].entry
            /\ \/ worker'[r].pc = "commit" /\ worker'[r].head = RowAfter(worker[r].head, worker[r].entry)
               \/ worker'[r].pc = "unlock"
        BY <3>5, WorkerAfter DEF MovingStep, Insert, At, table
      <4>2. PICK c \in Communities : c = Place(r)
        BY <4>1, InHand
      <4>3. Place(r)' = c /\ HeadOf(c)' = HeadOf(c) /\ worker[r].head = HeadOf(c)
        BY <1>1, <3>1, <4>1, <4>2 DEF Place, HeadNow
      <4>4. HeadOf(Place(r))' = HeadOf(c)'
        BY <4>3 DEF HeadOf, ChainOf
      <4>5. worker'[r].pc = "commit" => worker'[r].head = RowAfter(HeadOf(Place(r))', worker'[r].entry)
        BY <4>1, <4>3, <4>4
      <4>6. HeadNow(r)'
        BY <4>1, <4>5 DEF HeadNow
      <4> QED
        BY <1>5, <2>3, <3>2, <4>1, <4>6
    <3>6. CASE Recv(r) \/ Exit(r) \/ Acquire(r) \/ LockTimeout(r) \/ BackoffEnds(r) \/ AppendFails(r) \/ Unlock(r)
      <4>1. late' = late
        BY <3>6 DEF Recv, Exit, Acquire, LockTimeout, BackoffEnds, AppendFails, Unlock, table
      <4>2. worker'[r].pc \notin {"insert", "commit"}
        BY <3>6, WorkerAfter DEF MovingStep
      <4>3. HeadNow(r)'
        BY <4>2 DEF HeadNow
      <4> QED
        BY <1>5, <2>3, <3>2, <4>1, <4>3
    <3>7. CASE ProcessEnds(r) \/ ConnectionLost(r)
      <4>1. late' = late \/ (worker[r].pc = "commit" /\ late' = late \cup {worker[r].head})
        BY <3>7 DEF ProcessEnds, ConnectionLost, OrphanSession
      <4>2. worker'[r].pc \notin {"insert", "commit"}
        BY <3>7, WorkerAfter DEF MovingStep
      <4>3. HeadNow(r)'
        BY <4>2 DEF HeadNow
      <4>4. CASE late' = late
        BY <1>5, <2>3, <3>2, <4>3, <4>4
      <4>5. CASE worker[r].pc = "commit" /\ late' = late \cup {worker[r].head}
        <5>0. PICK h, e : h = worker[r].head /\ e = worker[r].entry
          OBVIOUS
        <5>1. /\ h.community = Place(r) /\ h.entry = e /\ Place(r) \in Communities
              /\ lock[Place(r)] = r /\ h = RowAfter(HeadOf(h.community), e)
          BY <1>1, <1>3, <4>5, <5>0, CommitsPlace DEF HeadNow
        <5>2. e \in Entries /\ e.community = Place(r)
          BY <4>5, <5>0, InHand DEF Place
        <5>3. HeadOf(h.community).seq \in Nat
          BY <5>1, HeadFacts
        <5>4. RowOK(h)
          BY <5>1, <5>2, <5>3, RowFields DEF RowOK
        <5>5. h = RowAfter(HeadOf(h.community)', h.entry) /\ late' = late \cup {h}
          BY <3>1, <4>5, <5>0, <5>1
        <5>6. \A w \in late : w.community # h.community
          BY <1>2, <1>4, <5>1
        <5>7. LateNext'
          BY <1>1, <1>4, <3>1, <5>5, <5>6, LateKept DEF LateNext
        <5>8. (\A w \in rows \cup late : RowOK(w))'
          BY <1>1, <2>3, <5>4, <5>5 DEF RowOK
        <5> QED
          BY <3>1, <3>2, <4>3, <5>7, <5>8, ChainJoin
      <4> QED
        BY <4>1, <4>4, <4>5
    <3>8. ~Commit(r)
      <4>1. CASE Commit(r)
        <5>1. worker[r].pc = "commit" /\ worker[r].head \in rows
          BY <2>3, <4>1 DEF Commit, At
        <5>2. HeadOf(Place(r)).seq \in Nat /\ Place(r) \in Communities
          BY <1>3, <5>1, HeadFacts
        <5>3. worker[r].head.seq = HeadOf(Place(r)).seq + 1 /\ worker[r].head.community = Place(r)
          BY <1>1, <5>1, CommitsPlace, RowFields DEF HeadNow
        <5>4. worker[r].head \in ChainOf(Place(r))
          BY <5>1, <5>3 DEF ChainOf
        <5>5. worker[r].head.seq <= HeadOf(Place(r)).seq
          BY <5>2, <5>4, HeadFacts
        <5> QED
          BY <5>2, <5>3, <5>5
      <4> QED
        BY <4>1
    <3> QED
      BY <3>3, <3>4, <3>5, <3>6, <3>7, <3>8 DEF MovingStep
  <2>4. Commit(r) \/ rows' = rows
    BY <1>8 DEF RelayStep, Works, Sends, Enqueue, Sent, SendFails, Recv, Close, Acquire, LockTimeout,
         BackoffEnds, ReadHead, Insert, Unlock, Cancel, Exit, ProcessEnds, Restart,
         AppendFails, ConnectionLost, table
  <2> QED
    BY <2>2, <2>3, <2>4
<1> QED
  BY <1>6, <1>7, <1>8, StepCases

-----------------------------------------------------------------------------
(* LineInv.                                                                *)

\* Ids are numbers.
LEMMA EntryIds == \A x \in Entries : x.id \in Nat /\ x.id >= 1 /\ x # NoEntry
  BY AuditAssumption DEF Entries, NoEntry

\* What a line of entries is.
LEMMA SeqFacts ==
  ASSUME NEW s \in Seq(Entries)
  PROVE  Len(s) \in Nat /\ \A i \in 1 .. Len(s) : s[i] \in Entries /\ s[i].id \in Nat
  BY EntryIds, ElementOfSeq, LenProperties

\* What an appended line is.
LEMMA AppendFacts ==
  ASSUME NEW s \in Seq(Entries), NEW x \in Entries
  PROVE  /\ Append(s, x) \in Seq(Entries) /\ Len(Append(s, x)) = Len(s) + 1
         /\ Append(s, x)[Len(s) + 1] = x /\ \A i \in 1 .. Len(s) : Append(s, x)[i] = s[i]
  BY AppendProperties

\* An entry younger than all of a line may be appended to it.
LEMMA AscendsAppend ==
  ASSUME NEW r, NEW n \in Nat, NEW m \in Nat, n <= m, NEW s \in Seq(Entries), Ascends(s, r, n),
         NEW x \in Entries, x.relay = r, x.id <= m, \A i \in 1 .. Len(s) : s[i].id < x.id
  PROVE  Ascends(Append(s, x), r, m)
<1> DEFINE a == Append(s, x)
           k == Len(s)
<1>1. k \in Nat /\ x.id \in Nat /\ \A i \in 1 .. k : s[i].id \in Nat
  BY SeqFacts, EntryIds
<1>2. Len(a) = k + 1 /\ a[k + 1] = x /\ \A i \in 1 .. k : a[i] = s[i]
  BY AppendFacts
<1> HIDE DEF a, k
<1>3. \A i \in 1 .. k + 1 : i \in 1 .. k \/ i = k + 1
  BY <1>1
<1>4. \A i \in 1 .. k : s[i].relay = r /\ s[i].id <= m /\ s[i].id < x.id
  BY <1>1 DEF Ascends, k
<1>5. \A i \in 1 .. k + 1 : a[i].relay = r /\ a[i].id <= m
  BY <1>2, <1>3, <1>4
<1>6. ASSUME NEW i \in 1 .. k + 1, NEW j \in 1 .. k + 1, i < j PROVE a[i].id < a[j].id
  <2>1. i \in 1 .. k
    BY <1>1, <1>6
  <2>2. CASE j = k + 1
    BY <1>2, <1>4, <2>1, <2>2
  <2>3. CASE j \in 1 .. k
    BY <1>2, <1>6, <2>1, <2>3 DEF Ascends, k
  <2> QED
    BY <1>3, <2>2, <2>3
<1>7. Ascends(a, r, m)
  BY <1>2, <1>5, <1>6 DEF Ascends
<1> QED
  BY <1>7 DEF a

\* A new entry goes to the end of the line, to the channel only if nobody waits.
LEMMA LineQueued ==
  ASSUME NEW r, NEW in \in Seq(Entries), NEW wt \in Seq(Entries), NEW e \in Entries \cup {NoEntry},
         NEW n \in Nat, NEW L \in SUBSET Entries, Line(r, in, wt, e, n, L),
         NEW x \in Entries, x.relay = r, x.id = n + 1
  PROVE  /\ wt = <<>> => Line(r, Append(in, x), wt, e, n + 1, L)
         /\ Line(r, in, Append(wt, x), e, n + 1, L)
<1>1. Len(in) \in Nat /\ Len(wt) \in Nat /\ (\A i \in 1 .. Len(in) : in[i].id \in Nat)
      /\ (\A i \in 1 .. Len(wt) : wt[i].id \in Nat) /\ (\A l \in L : l.id \in Nat) /\ (e # NoEntry => e.id \in Nat)
  BY SeqFacts, EntryIds
<1>2. ASSUME NEW s \in Seq(Entries), Ascends(s, r, n)
      PROVE  Ascends(Append(s, x), r, n + 1) /\ Ascends(s, r, n + 1)
  <2>1. Len(s) \in Nat /\ \A i \in 1 .. Len(s) : s[i].id \in Nat /\ s[i].id <= n
    BY <1>2, SeqFacts DEF Ascends
  <2>2. \A i \in 1 .. Len(s) : s[i].id < x.id
    BY <2>1
  <2>3. Ascends(Append(s, x), r, n + 1)
    BY <1>2, <2>2, AscendsAppend
  <2>4. Ascends(s, r, n + 1)
    BY <1>2, <2>1 DEF Ascends
  <2> QED
    BY <2>3, <2>4
<1>3. ASSUME NEW s \in Seq(Entries), NEW id \in Nat, id <= n, Before(id, s)
      PROVE  Before(id, Append(s, x))
  <2>1. Len(s) \in Nat
    BY SeqFacts
  <2> QED
    BY <1>3, <2>1, AppendFacts DEF Before
<1>4. /\ Ascends(in, r, n) /\ Ascends(wt, r, n)
      /\ \A i \in 1 .. Len(in) : in[i].id <= n /\ Before(in[i].id, wt)
      /\ e # NoEntry => e.relay = r /\ e.id <= n /\ Before(e.id, in) /\ Before(e.id, wt)
      /\ \A l \in L : l.relay = r => /\ l.id <= n /\ Before(l.id, in) /\ Before(l.id, wt)
                                     /\ e # NoEntry => l.id <= e.id
  BY DEF Line, Ascends
<1>5. ASSUME wt = <<>> PROVE Line(r, Append(in, x), wt, e, n + 1, L)
  <2>1. \A id : Before(id, wt)
    BY <1>5 DEF Before
  <2>2. Ascends(Append(in, x), r, n + 1) /\ Ascends(wt, r, n + 1)
    BY <1>2, <1>4
  <2>3. e # NoEntry => e.relay = r /\ e.id <= n + 1 /\ Before(e.id, Append(in, x)) /\ Before(e.id, wt)
    BY <1>1, <1>3, <1>4
  <2>4. \A l \in L : l.relay = r => /\ l.id <= n + 1 /\ Before(l.id, Append(in, x)) /\ Before(l.id, wt)
                                    /\ e # NoEntry => l.id <= e.id
    BY <1>1, <1>3, <1>4
  <2> QED
    BY <2>1, <2>2, <2>3, <2>4 DEF Line
<1>6. Line(r, in, Append(wt, x), e, n + 1, L)
  <2>1. Ascends(in, r, n + 1) /\ Ascends(Append(wt, x), r, n + 1)
    BY <1>2, <1>4
  <2>2. e # NoEntry => e.relay = r /\ e.id <= n + 1 /\ Before(e.id, in) /\ Before(e.id, Append(wt, x))
    BY <1>1, <1>3, <1>4
  <2>3. \A l \in L : l.relay = r => /\ l.id <= n + 1 /\ Before(l.id, in) /\ Before(l.id, Append(wt, x))
                                    /\ e # NoEntry => l.id <= e.id
    BY <1>1, <1>3, <1>4
  <2>4. \A i \in 1 .. Len(in) : Before(in[i].id, Append(wt, x))
    BY <1>1, <1>3, <1>4
  <2> QED
    BY <2>1, <2>2, <2>3, <2>4 DEF Line
<1> QED
  BY <1>5, <1>6

\* The first of a line is before the rest of it.
LEMMA AscendsTail ==
  ASSUME NEW r, NEW n \in Nat, NEW s \in Seq(Entries), s # <<>>, Ascends(s, r, n)
  PROVE  /\ Head(s) \in Entries /\ Tail(s) \in Seq(Entries) /\ Head(s) # NoEntry
         /\ Head(s).relay = r /\ Head(s).id <= n /\ Head(s).id \in Nat
         /\ Before(Head(s).id, Tail(s)) /\ Ascends(Tail(s), r, n)
         /\ \A id : Before(id, s) => id < Head(s).id /\ Before(id, Tail(s))
<1>1. /\ Head(s) \in Entries /\ Tail(s) \in Seq(Entries)
      /\ Len(s) \in Nat /\ Len(s) >= 1 /\ Head(s) = s[1] /\ Len(Tail(s)) = Len(s) - 1
      /\ \A i \in 1 .. Len(s) - 1 : Tail(s)[i] = s[i + 1]
  BY HeadTail
<1>2. \A i \in 1 .. Len(s) : s[i].id \in Nat
  BY SeqFacts
<1>3. Head(s) # NoEntry
  BY <1>1, EntryIsNot
<1> DEFINE u == Tail(s)
           h == Head(s)
<1> HIDE DEF u, h
<1>4. Ascends(u, r, n) /\ Before(h.id, u)
  BY <1>1, <1>2 DEF Ascends, Before, u, h
<1>5. \A id : Before(id, s) => id < h.id /\ Before(id, u)
  BY <1>1 DEF Before, u, h
<1>6. h.relay = r /\ h.id <= n /\ h.id \in Nat
  BY <1>1, <1>2 DEF Ascends, h
<1> QED
  BY <1>1, <1>3, <1>4, <1>5, <1>6 DEF u, h

\* The first handler in line is served, or told that the channel is closed.
LEMMA LineServed ==
  ASSUME NEW r, NEW in \in Seq(Entries), NEW wt \in Seq(Entries), NEW e \in Entries \cup {NoEntry},
         NEW n \in Nat, NEW L \in SUBSET Entries, Line(r, in, wt, e, n, L), wt # <<>>
  PROVE  Line(r, Append(in, Head(wt)), Tail(wt), e, n, L) /\ Line(r, in, Tail(wt), e, n, L)
<1> DEFINE x == Head(wt)
           u == Tail(wt)
           a == Append(in, x)
<1>1. /\ x \in Entries /\ u \in Seq(Entries) /\ x.relay = r /\ x.id <= n /\ x.id \in Nat
      /\ Before(x.id, u) /\ Ascends(u, r, n) /\ \A id : Before(id, wt) => id < x.id /\ Before(id, u)
  BY AscendsTail DEF Line
<1> HIDE DEF x, u
<1>2. /\ Len(a) = Len(in) + 1 /\ Len(in) \in Nat /\ a[Len(in) + 1] = x
      /\ (\A i \in 1 .. Len(in) : a[i] = in[i] /\ in[i].id \in Nat)
  BY <1>1, AppendFacts, SeqFacts
<1> HIDE DEF a
<1>3. \A i \in 1 .. Len(in) : in[i].id < x.id /\ Before(in[i].id, u)
  BY <1>1 DEF Line
<1>4. Ascends(a, r, n)
  BY <1>1, <1>3, AscendsAppend DEF Line, a
<1>5. \A i \in 1 .. Len(a) : Before(a[i].id, u)
  BY <1>1, <1>2, <1>3
<1>6. \A id : Before(id, in) /\ id < x.id => Before(id, a)
  BY <1>2 DEF Before
<1>7. Line(r, a, u, e, n, L)
  BY <1>1, <1>4, <1>5, <1>6 DEF Line
<1>8. Line(r, in, u, e, n, L)
  BY <1>1, <1>3 DEF Line
<1> QED
  BY <1>7, <1>8 DEF x, u, a

\* The worker takes the first entry of the channel: younger than all that is logged.
LEMMA LineTaken ==
  ASSUME NEW r, NEW in \in Seq(Entries), NEW wt \in Seq(Entries),
         NEW n \in Nat, NEW L \in SUBSET Entries, Line(r, in, wt, NoEntry, n, L), in # <<>>
  PROVE  /\ Line(r, Tail(in), wt, Head(in), n, L)
         /\ \A l \in L : l.relay = r => l.id < Head(in).id
<1> DEFINE x == Head(in)
           u == Tail(in)
<1>1. /\ x \in Entries /\ u \in Seq(Entries) /\ x.relay = r /\ x.id <= n /\ x.id \in Nat
      /\ Before(x.id, u) /\ Ascends(u, r, n) /\ \A id : Before(id, in) => id < x.id /\ Before(id, u)
  BY AscendsTail DEF Line
<1>2. /\ Len(u) = Len(in) - 1 /\ Len(in) \in Nat /\ x = in[1] /\ Len(in) >= 1
      /\ (\A i \in 1 .. Len(in) - 1 : u[i] = in[i + 1])
  BY HeadTail
<1> HIDE DEF x, u
<1>3. Before(x.id, wt) /\ \A i \in 1 .. Len(u) : Before(u[i].id, wt)
  BY <1>2 DEF Line
<1>4. \A l \in L : l.relay = r => l.id < x.id /\ l.id \in Nat
  BY <1>1 DEF Line, Entries
<1>5. Line(r, u, wt, x, n, L)
  BY <1>1, <1>3, <1>4 DEF Line
<1> QED
  BY <1>4, <1>5 DEF x, u

\* A line that loses its hand, its channel or its handlers is a line.
LEMMA LineCut ==
  ASSUME NEW r, NEW in \in Seq(Entries), NEW wt \in Seq(Entries), NEW e \in Entries \cup {NoEntry},
         NEW n \in Nat, NEW L \in SUBSET Entries, Line(r, in, wt, e, n, L)
  PROVE  /\ Line(r, in, wt, NoEntry, n, L) /\ Line(r, <<>>, wt, NoEntry, n, L)
         /\ Line(r, <<>>, <<>>, NoEntry, n, L)
  BY DEF Line, Ascends, Before

\* The entry in hand is logged.
LEMMA LineLogged ==
  ASSUME NEW r, NEW in \in Seq(Entries), NEW wt \in Seq(Entries), NEW e \in Entries,
         NEW n \in Nat, NEW L \in SUBSET Entries, Line(r, in, wt, e, n, L)
  PROVE  Line(r, in, wt, e, n, L \cup {e})
<1>1. e # NoEntry /\ e.id \in Nat
  BY EntryIsNot, AuditAssumption DEF Entries
<1> QED
  BY <1>1 DEF Line

\* Other relays give out ids and log entries.
LEMMA LineOther ==
  ASSUME NEW r, NEW in \in Seq(Entries), NEW wt \in Seq(Entries), NEW e \in Entries \cup {NoEntry},
         NEW n \in Nat, NEW L \in SUBSET Entries, Line(r, in, wt, e, n, L),
         NEW m \in Nat, n <= m, NEW K \in SUBSET Entries, \A l \in K : l.relay = r => l \in L
  PROVE  Line(r, in, wt, e, m, K)
<1>1. Len(in) \in Nat /\ Len(wt) \in Nat /\ (\A i \in 1 .. Len(in) : in[i].id \in Nat)
      /\ (\A i \in 1 .. Len(wt) : wt[i].id \in Nat) /\ (\A l \in L : l.id \in Nat) /\ (e # NoEntry => e.id \in Nat)
  BY SeqFacts, EntryIds
<1>2. Ascends(in, r, m) /\ Ascends(wt, r, m)
  BY <1>1 DEF Line, Ascends
<1>3. e # NoEntry => e.id <= m
  BY <1>1 DEF Line
<1>4. \A l \in K : l.relay = r => l.id <= m
  BY <1>1 DEF Line
<1> QED
  BY <1>2, <1>3, <1>4 DEF Line

\* LineInv of one relay.
LineAt(r) ==
  /\ Line(r, inbox[r], waiting[r], worker[r].entry, created, Logged)
  /\ Unlogged(r) => \A l \in Logged : l.relay = r => l.id < worker[r].entry.id

\* Only a relay that commits, or loses its connection while it does, logs an entry:
\* the one in its hand.
LEMMA LoggedStep ==
  ASSUME ShapeInv, HandInv, ChainInv, NEW r \in Relays, RelayStep(r)
  PROVE  \/ Logged' = Logged
         \/ /\ worker[r].pc = "commit" /\ Logged' = Logged \cup {worker[r].entry}
            /\ Commit(r) \/ ProcessEnds(r) \/ ConnectionLost(r)
<1>1. CASE UNCHANGED <<rows, late>>
  BY <1>1 DEF Logged
<1>2. \/ UNCHANGED <<rows, late>>
      \/ Commit(r)
      \/ ProcessEnds(r) \/ ConnectionLost(r)
  BY DEF RelayStep, Works, Sends, Enqueue, Sent, SendFails, Recv, Close, Acquire, LockTimeout,
         BackoffEnds, ReadHead, Insert, Unlock, Cancel, Exit, Restart, AppendFails, table
<1>3. CASE Commit(r)
  <2>1. worker[r].pc = "commit" /\ rows' = rows \cup {worker[r].head} /\ late' = late
    BY <1>3 DEF Commit, At
  <2>2. worker[r].head.entry = worker[r].entry
    BY <2>1, CommitsPlace
  <2>3. Logged' = Logged \cup {worker[r].entry}
    BY <2>1, <2>2 DEF Logged
  <2> QED
    BY <1>3, <2>1, <2>3
<1>4. CASE ProcessEnds(r) \/ ConnectionLost(r)
  <2>1. rows' = rows /\ (late' = late \/ (worker[r].pc = "commit" /\ late' = late \cup {worker[r].head}))
    BY <1>4 DEF ProcessEnds, ConnectionLost, OrphanSession
  <2>2. CASE late' = late
    BY <1>1, <2>1, <2>2
  <2>3. CASE worker[r].pc = "commit" /\ late' = late \cup {worker[r].head}
    <3>1. worker[r].head.entry = worker[r].entry
      BY <2>3, CommitsPlace
    <3>2. Logged' = Logged \cup {worker[r].entry}
      BY <2>1, <2>3, <3>1 DEF Logged
    <3> QED
      BY <1>4, <2>3, <3>2
  <2> QED
    BY <2>1, <2>2, <2>3
<1> QED
  BY <1>1, <1>2, <1>3, <1>4

\* The end of a session logs nothing that was not on its way into the table.
LEMMA LoggedEnds ==
  ASSUME NEW c \in Communities, SessionEnds(c)
  PROVE  Logged' = Logged
<1>1. rows' \cup late' = rows \cup late
  BY DEF SessionEnds
<1> QED
  BY <1>1 DEF Logged

\* LineInv is kept by every step.
LEMMA LineStep ==
  ASSUME ShapeInv, RoomInv, HandInv, LockInv, ChainInv, LineInv, [ANext]_avars
  PROVE  LineInv'
<1> SUFFICES ASSUME NEW x \in Relays PROVE LineAt(x)'
  BY DEF LineInv, LineAt
<1>1. LineAt(x)
  BY DEF LineInv, LineAt
<1>2. /\ inbox[x] \in Seq(Entries) /\ waiting[x] \in Seq(Entries) /\ created \in Nat
      /\ worker[x].entry \in Entries \cup {NoEntry} /\ Logged \in SUBSET Entries
  BY MovesForms, AuditAssumption DEF ShapeInv, Logged, ChainInv
<1>3. CASE UNCHANGED <<Logged, created>> /\ inbox'[x] = inbox[x] /\ waiting'[x] = waiting[x] /\ worker'[x] = worker[x]
  BY <1>1, <1>3 DEF LineAt, Unlogged
<1>4. CASE UNCHANGED avars
  BY <1>3, <1>4 DEF avars, Logged
<1>5. ASSUME NEW c \in Communities, SessionEnds(c) PROVE LineAt(x)'
  BY <1>3, <1>5, LoggedEnds DEF SessionEnds, senders
<1>6. ASSUME NEW r \in Relays, RelayStep(r), r # x PROVE LineAt(x)'
  <2>1. inbox'[x] = inbox[x] /\ waiting'[x] = waiting[x] /\ worker'[x] = worker[x]
    BY <1>6, OthersKept
  <2>2. created' \in Nat /\ created <= created'
    <3>1. created' = created \/ created' = created + 1
      BY <1>6 DEF RelayStep, Works, Sends, Enqueue, Sent, SendFails, Recv, Close, Acquire, LockTimeout,
         BackoffEnds, ReadHead, Insert, Commit, Unlock, Cancel, Exit, ProcessEnds, Restart,
         AppendFails, ConnectionLost, senders
    <3> QED
      BY <1>2, <3>1
  <2>3. Logged' \in SUBSET Entries /\ \A l \in Logged' : l.relay = x => l \in Logged
    <3>1. CASE Logged' = Logged
      BY <1>2, <3>1
    <3>2. CASE worker[r].pc = "commit" /\ Logged' = Logged \cup {worker[r].entry}
      <4>1. worker[r].entry \in Entries /\ worker[r].entry.relay = r
        BY <3>2, InHand DEF LineInv, Line
      <4> QED
        BY <1>2, <1>6, <3>2, <4>1
    <3> QED
      BY <1>6, <3>1, <3>2, LoggedStep
  <2>4. Line(x, inbox[x], waiting[x], worker[x].entry, created', Logged')
    BY <1>1, <1>2, <2>2, <2>3, LineOther DEF LineAt
  <2> QED
    BY <1>1, <2>1, <2>3, <2>4 DEF LineAt, Unlogged
<1>7. ASSUME RelayStep(x) PROVE LineAt(x)'
  <2>1. Line(x, inbox[x], waiting[x], worker[x].entry, created, Logged)
    BY <1>1 DEF LineAt
  <2>2. ASSUME NEW c \in Communities, Enqueue(x, c) PROVE LineAt(x)'
    <3> DEFINE e == [id |-> created + 1, community |-> c, relay |-> x]
    <3>1. e \in Entries /\ e.relay = x /\ e.id = created + 1
      BY <1>2, <2>2, AuditAssumption DEF Enqueue, Entries
    <3>2. created' = created + 1 /\ worker' = worker /\ rows' = rows /\ late' = late
          /\ \/ waiting[x] = <<>> /\ inbox' = [inbox EXCEPT ![x] = Append(@, e)] /\ waiting' = waiting
             \/ waiting' = [waiting EXCEPT ![x] = Append(@, e)] /\ inbox' = inbox
      BY <2>2 DEF Enqueue, table
    <3> HIDE DEF e
    <3>3. \/ waiting[x] = <<>> /\ inbox'[x] = Append(inbox[x], e) /\ waiting'[x] = waiting[x]
          \/ waiting'[x] = Append(waiting[x], e) /\ inbox'[x] = inbox[x]
      BY <3>2 DEF ShapeInv
    <3>4. Line(x, inbox'[x], waiting'[x], worker[x].entry, created + 1, Logged)
      BY <1>2, <2>1, <3>1, <3>3, LineQueued
    <3> QED
      BY <1>1, <3>2, <3>4 DEF LineAt, Logged, Unlogged
  <2>3. CASE Sent(x) \/ SendFails(x)
    <3>1. /\ created' = created /\ worker' = worker /\ rows' = rows /\ late' = late /\ waiting[x] # <<>>
          /\ waiting'[x] = Tail(waiting[x])
          /\ inbox'[x] = Append(inbox[x], Head(waiting[x])) \/ inbox'[x] = inbox[x]
      BY <2>3 DEF Sent, SendFails, table, ShapeInv
    <3>2. Line(x, inbox'[x], waiting'[x], worker[x].entry, created, Logged)
      BY <1>2, <2>1, <3>1, LineServed
    <3> QED
      BY <1>1, <3>1, <3>2 DEF LineAt, Logged, Unlogged
  <2>4. CASE Close(x) \/ Cancel(x) \/ Restart(x)
    <3>1. UNCHANGED <<waiting, created, inbox, worker, rows, late>>
      BY <2>4 DEF Close, Cancel, Restart, senders, table
    <3>2. UNCHANGED Logged
      BY <3>1 DEF Logged
    <3> QED
      BY <1>3, <3>1, <3>2
  <2>5. CASE Recv(x)
    <3>1. worker[x].pc = "recv" /\ inbox[x] # <<>> /\ inbox'[x] = Tail(inbox[x])
          /\ UNCHANGED <<waiting, created, rows, late>>
      BY <2>5 DEF Recv, At, senders, table, ShapeInv
    <3>2. worker[x].entry = NoEntry /\ worker'[x].entry = Head(inbox[x])
      BY <2>5, <3>1, WorkerAfter DEF HandInv, MovingStep
    <3>3. Line(x, Tail(inbox[x]), waiting[x], Head(inbox[x]), created, Logged)
          /\ \A l \in Logged : l.relay = x => l.id < Head(inbox[x]).id
      BY <1>2, <2>1, <3>1, <3>2, LineTaken
    <3> QED
      BY <3>1, <3>2, <3>3 DEF LineAt, Logged
  <2>6. created' = created \/ \E c \in Communities : Enqueue(x, c)
    BY <1>7 DEF RelayStep, Works, Sends, Sent, SendFails, Recv, Close, Acquire, LockTimeout,
         BackoffEnds, ReadHead, Insert, Commit, Unlock, Cancel, Exit, ProcessEnds, Restart,
         AppendFails, ConnectionLost, senders
  <2>7. CASE worker[x].pc = "commit" /\ created' = created
    <3>1. worker[x].entry \in Entries
      BY <2>7, InHand
    <3>2. Line(x, inbox[x], waiting[x], worker[x].entry, created, Logged \cup {worker[x].entry})
      BY <1>2, <2>1, <3>1, LineLogged
    <3>3. Logged \cup {worker[x].entry} \in SUBSET Entries
      BY <1>2, <3>1
    <3>4. CASE Exit(x) \/ ProcessEnds(x)
      <4>1. inbox'[x] = <<>> /\ waiting'[x] = <<>> /\ worker'[x].entry = NoEntry /\ worker'[x].pc = "recv"
        BY <3>4, WorkerAfter DEF Exit, ProcessEnds, ShapeInv, MovingStep
      <4>2. Line(x, <<>>, <<>>, NoEntry, created, Logged \cup {worker[x].entry})
            /\ Line(x, <<>>, <<>>, NoEntry, created, Logged)
        BY <1>2, <2>1, <3>1, <3>2, <3>3, LineCut
      <4>3. Line(x, <<>>, <<>>, NoEntry, created, Logged')
        BY <1>7, <4>2, LoggedStep
      <4> QED
        BY <2>7, <4>1, <4>3 DEF LineAt, Unlogged
    <3>5. CASE Commit(x) \/ ConnectionLost(x)
      <4>1. inbox' = inbox /\ waiting' = waiting /\ worker'[x].entry = worker[x].entry
            /\ worker'[x].pc = "unlock" /\ worker'[x].outcome \in {"ok", "error"}
        BY <3>5, WorkerAfter DEF Commit, ConnectionLost, senders, MovingStep
      <4>2. Line(x, inbox[x], waiting[x], worker[x].entry, created, Logged')
        BY <1>7, <2>1, <3>2, LoggedStep
      <4> QED
        BY <2>7, <4>1, <4>2 DEF LineAt, Unlogged
    <3>6. CASE AppendFails(x)
      <4>1. inbox' = inbox /\ waiting' = waiting /\ rows' = rows /\ late' = late /\ worker'[x].entry = worker[x].entry
            /\ worker'[x].pc = "unlock" /\ worker'[x].outcome # "timeout"
        BY <2>7, <3>6, WorkerAfter DEF AppendFails, senders, table, MovingStep
      <4> QED
        BY <2>1, <2>7, <4>1 DEF LineAt, Unlogged, Logged
    <3>7. CASE ~MovingStep(x)
      BY <1>7, <2>2, <2>3, <2>4, <3>7, StillSteps DEF Sends
    <3> QED
      BY <2>7, <3>4, <3>5, <3>6, <3>7 DEF MovingStep, Recv, Acquire, LockTimeout, BackoffEnds, ReadHead,
                                    Insert, Unlock, At
  <2>8. CASE worker[x].pc # "commit" /\ MovingStep(x)
    <3>1. Logged' = Logged
      BY <1>7, <2>8, LoggedStep
    <3>2. created' = created
      BY <2>8 DEF MovingStep, Recv, Acquire, LockTimeout, BackoffEnds, ReadHead, Insert, Commit, Unlock,
                  Exit, ProcessEnds, AppendFails, ConnectionLost, senders
    <3>3. CASE Exit(x) \/ ProcessEnds(x)
      <4>1. inbox'[x] = <<>> /\ waiting'[x] = <<>> /\ worker'[x].entry = NoEntry /\ worker'[x].pc = "recv"
        BY <3>3, WorkerAfter DEF Exit, ProcessEnds, ShapeInv, MovingStep
      <4>2. Line(x, <<>>, <<>>, NoEntry, created, Logged)
        BY <1>2, <2>1, LineCut
      <4> QED
        BY <3>1, <3>2, <4>1, <4>2 DEF LineAt, Unlogged
    <3>4. CASE Acquire(x) \/ LockTimeout(x) \/ BackoffEnds(x) \/ ReadHead(x) \/ Insert(x) \/ AppendFails(x) \/ ConnectionLost(x)
      <4>1. inbox' = inbox /\ waiting' = waiting /\ worker'[x].entry = worker[x].entry
        BY <2>8, <3>4, WorkerAfter DEF Acquire, LockTimeout, BackoffEnds, ReadHead, Insert, AppendFails, ConnectionLost, senders
      <4>2. Unlogged(x)
        BY <3>4 DEF Unlogged, Acquire, LockTimeout, BackoffEnds, ReadHead, Insert, AppendFails, ConnectionLost, At
      <4> QED
        BY <1>1, <3>1, <3>2, <4>1, <4>2 DEF LineAt
    <3>5. CASE Unlock(x)
      <4>1. waiting' = waiting /\ worker[x].pc = "unlock"
        BY <3>5 DEF Unlock, At, senders
      <4>2. \/ worker'[x].pc = "recv" /\ worker'[x].entry = NoEntry /\ inbox'[x] = inbox[x]
            \/ worker'[x].pc = "gone" /\ worker'[x].entry = NoEntry /\ inbox'[x] = <<>>
            \/ worker'[x].entry = worker[x].entry /\ inbox'[x] = inbox[x] /\ worker[x].outcome = "timeout"
        BY <2>8, <3>5, WorkerAfter DEF ShapeInv
      <4>3. /\ Line(x, inbox[x], waiting[x], NoEntry, created, Logged)
            /\ Line(x, <<>>, waiting[x], NoEntry, created, Logged)
        BY <1>2, <2>1, LineCut
      <4>4. worker[x].outcome = "timeout" => Unlogged(x)
        BY <4>1 DEF Unlogged
      <4>5. CASE worker'[x].pc \in {"recv", "gone"}
        BY <3>1, <3>2, <4>1, <4>2, <4>3, <4>5, <2>1 DEF LineAt, Unlogged
      <4>6. CASE worker'[x].entry = worker[x].entry /\ inbox'[x] = inbox[x] /\ worker[x].outcome = "timeout"
        BY <1>1, <3>1, <3>2, <4>1, <4>4, <4>6 DEF LineAt
      <4> QED
        BY <4>2, <4>5, <4>6
    <3> QED
      BY <2>5, <2>8, <3>3, <3>4, <3>5 DEF MovingStep, Commit, At
  <2> QED
    BY <1>7, <2>2, <2>3, <2>4, <2>6, <2>7, <2>8, StillSteps DEF Sends
<1> QED
  BY <1>4, <1>5, <1>6, <1>7, StepCases

-----------------------------------------------------------------------------
(* OnceInv.                                                                *)

\* The rows and the late rows together.
Writes == rows \cup late

\* A write whose entry is new, and younger than its relay's others, keeps entries unique.
LEMMA OnceMore ==
  ASSUME ChainInv, OnceInv, NEW w, w.entry \in Entries,
         \A l \in Logged : l.relay = w.entry.relay => l.id < w.entry.id
  PROVE  /\ \A u, v \in Writes \cup {w} : u.entry = v.entry => u = v
         /\ \A v \in rows : v.entry.relay = w.entry.relay => v.entry.id < w.entry.id
<1>1. \A v \in Writes : v.entry \in Logged
  BY DEF Writes, Logged
<1>2. w.entry.id \in Nat
  BY EntryIds
<1>3. \A v \in Writes : v.entry # w.entry
  BY <1>1, <1>2
<1>4. \A v \in rows : v.entry.relay = w.entry.relay => v.entry.id < w.entry.id
  BY <1>1 DEF Writes
<1> QED
  BY <1>3, <1>4 DEF OnceInv, Writes

\* The next row of a chain, younger than the rows of its relay, keeps the order.
LEMMA OrderMore ==
  ASSUME ChainInv, OrderKept, NEW w, w.entry \in Entries, w.community \in Communities,
         w.seq = HeadOf(w.community).seq + 1, rows' = rows \cup {w},
         \A v \in rows : v.community = w.community /\ v.entry.relay = w.entry.relay => v.entry.id < w.entry.id
  PROVE  OrderKept'
<1>1. \A v \in rows : v.community = w.community => v.seq < w.seq
  <2> SUFFICES ASSUME NEW v \in rows, v.community = w.community PROVE v.seq < w.seq
    OBVIOUS
  <2>1. v \in ChainOf(w.community)
    BY DEF ChainOf
  <2> QED
    BY <2>1, HeadFacts
<1>2. \A v \in rows : v.entry.id \in Nat
  BY EntryIds, LatePlace
<1>3. w.entry.id \in Nat
  BY EntryIds
<1> SUFFICES ASSUME NEW u \in rows', NEW v \in rows', u.community = v.community,
                    u.entry.relay = v.entry.relay, u.entry.id < v.entry.id
             PROVE  u.seq < v.seq
  BY DEF OrderKept
<1>4. CASE u \in rows /\ v \in rows
  BY <1>4 DEF OrderKept
<1>5. CASE u \in rows /\ v = w
  BY <1>1, <1>5
<1>6. CASE u = w
  BY <1>2, <1>3, <1>6
<1> QED
  BY <1>4, <1>5, <1>6

\* OnceInv is kept by every step.
LEMMA OnceStep ==
  ASSUME ShapeInv, HandInv, LockInv, ChainInv, LineInv, OnceInv, [ANext]_avars
  PROVE  OnceInv'
<1> USE AuditAssumption
<1>1. Free \notin Relays /\ Orphan \notin Relays
  OBVIOUS
<1>2. CASE UNCHANGED <<rows, late>>
  BY <1>2 DEF OnceInv, OrderKept
<1>3. ASSUME NEW c \in Communities, SessionEnds(c) PROVE OnceInv'
  <2> DEFINE L == {w \in late : w.community = c}
  <2>1. rows' = rows \cup L /\ late' = {w \in late : w.community # c} /\ rows' \cup late' = rows \cup late
    BY <1>3 DEF SessionEnds
  <2>2. \A v \in rows', w \in late' :
          v.community = w.community /\ v.entry.relay = w.entry.relay => v.entry.id < w.entry.id
    BY <2>1 DEF OnceInv
  <2>3. OrderKept'
    <3>1. CASE L = {}
      <4>1. rows' = rows
        BY <2>1, <3>1
      <4> QED
        BY <4>1 DEF OnceInv, OrderKept
    <3>2. CASE L # {}
      <4>1. PICK w \in late : w.community = c
        BY <3>2
      <4>2. rows' = rows \cup {w}
        BY <2>1, <4>1 DEF ChainInv
      <4>3. w.entry \in Entries /\ w = RowAfter(HeadOf(w.community), w.entry)
        BY <4>1 DEF ChainInv
      <4>4. w.seq = HeadOf(w.community).seq + 1
        BY <4>3, RowFields
      <4>5. \A v \in rows : v.community = w.community /\ v.entry.relay = w.entry.relay => v.entry.id < w.entry.id
        BY <4>1 DEF OnceInv
      <4> QED
        BY <4>1, <4>2, <4>3, <4>4, <4>5, OrderMore DEF OnceInv
    <3> QED
      BY <3>1, <3>2
  <2> QED
    BY <2>1, <2>2, <2>3 DEF OnceInv
<1>4. ASSUME NEW r \in Relays, worker[r].pc = "commit", NEW h, h = worker[r].head
      PROVE  /\ h.entry \in Entries /\ h.community \in Communities /\ h.seq = HeadOf(h.community).seq + 1
             /\ \A l \in Logged : l.relay = h.entry.relay => l.id < h.entry.id
             /\ lock[h.community] = r
  <2>1. h.entry = worker[r].entry /\ h.community = Place(r) /\ h = RowAfter(HeadOf(Place(r)), worker[r].entry)
    BY <1>4, CommitsPlace DEF ChainInv
  <2>2. h.entry \in Entries /\ h.community \in Communities /\ h.entry.relay = r
    BY <1>4, <2>1, InHand DEF LineInv, Line
  <2>3. \A l \in Logged : l.relay = r => l.id < h.entry.id
    BY <1>4, <2>1 DEF LineInv, Unlogged
  <2>4. h.seq = HeadOf(h.community).seq + 1
    BY <2>1, RowFields
  <2>5. lock[h.community] = r
    BY <1>4, <2>1 DEF LockInv
  <2> QED
    BY <2>2, <2>3, <2>4, <2>5
<1>5. ASSUME NEW r \in Relays, Commit(r) PROVE OnceInv'
  <2>1. PICK h : h = worker[r].head
    OBVIOUS
  <2>2. worker[r].pc = "commit" /\ rows' = rows \cup {h} /\ late' = late
    BY <1>5, <2>1 DEF Commit, At
  <2>3. /\ h.entry \in Entries /\ h.community \in Communities /\ h.seq = HeadOf(h.community).seq + 1
        /\ \A l \in Logged : l.relay = h.entry.relay => l.id < h.entry.id
        /\ lock[h.community] = r
    BY <1>4, <2>1, <2>2
  <2>4. /\ \A u, v \in Writes \cup {h} : u.entry = v.entry => u = v
        /\ \A v \in rows : v.entry.relay = h.entry.relay => v.entry.id < h.entry.id
    BY <2>3, OnceMore
  <2>5. OrderKept'
    BY <2>2, <2>3, <2>4, OrderMore DEF OnceInv
  <2>6. \A w \in late : w.community # h.community
    BY <1>1, <2>3 DEF LockInv
  <2>7. \A v \in rows', w \in late' :
          v.community = w.community /\ v.entry.relay = w.entry.relay => v.entry.id < w.entry.id
    BY <2>2, <2>6 DEF OnceInv
  <2>8. \A u, v \in rows' \cup late' : u.entry = v.entry => u = v
    BY <2>2, <2>4 DEF Writes
  <2> QED
    BY <2>5, <2>7, <2>8 DEF OnceInv
<1>6. ASSUME NEW r \in Relays, ProcessEnds(r) \/ ConnectionLost(r) PROVE OnceInv'
  <2>1. PICK h : h = worker[r].head
    OBVIOUS
  <2>2. rows' = rows /\ (late' = late \/ (worker[r].pc = "commit" /\ late' = late \cup {h}))
    BY <1>6, <2>1 DEF ProcessEnds, ConnectionLost, OrphanSession
  <2>3. CASE late' = late
    BY <1>2, <2>2, <2>3
  <2>4. CASE worker[r].pc = "commit" /\ late' = late \cup {h}
    <3>1. /\ h.entry \in Entries /\ \A l \in Logged : l.relay = h.entry.relay => l.id < h.entry.id
      BY <1>4, <2>1, <2>4
    <3>2. /\ \A u, v \in Writes \cup {h} : u.entry = v.entry => u = v
          /\ \A v \in rows : v.entry.relay = h.entry.relay => v.entry.id < h.entry.id
      BY <3>1, OnceMore
    <3>3. \A u, v \in rows' \cup late' : u.entry = v.entry => u = v
      BY <2>2, <2>4, <3>2 DEF Writes
    <3>4. \A v \in rows', w \in late' :
            v.community = w.community /\ v.entry.relay = w.entry.relay => v.entry.id < w.entry.id
      BY <2>2, <2>4, <3>2 DEF OnceInv
    <3>5. OrderKept'
      BY <2>2 DEF OnceInv, OrderKept
    <3> QED
      BY <3>3, <3>4, <3>5 DEF OnceInv
  <2> QED
    BY <2>2, <2>3, <2>4
<1>7. \/ UNCHANGED <<rows, late>>
      \/ \E r \in Relays : Commit(r) \/ ProcessEnds(r) \/ ConnectionLost(r)
      \/ \E c \in Communities : SessionEnds(c)
  BY DEF ANext, avars, Works, Sends, Enqueue, Sent, SendFails, Recv, Close, Acquire, LockTimeout,
         BackoffEnds, ReadHead, Insert, Unlock, Cancel, Exit, Restart, AppendFails, table
<1> QED
  BY <1>2, <1>3, <1>5, <1>6, <1>7

-----------------------------------------------------------------------------
(* NeverSilentlyDropped.                                                   *)

\* The entries of a line, as it grows, shrinks and ends.
LEMMA LineSets ==
  /\ ToSet(<<>>) = {}
  /\ \A s \in Seq(Entries), x \in Entries : ToSet(Append(s, x)) = ToSet(s) \cup {x}
  /\ \A s \in Seq(Entries) : s # <<>> => ToSet(s) = {Head(s)} \cup ToSet(Tail(s))
<1>1. ToSet(<<>>) = {}
  BY DEF ToSet
<1>2. ASSUME NEW s \in Seq(Entries), NEW x \in Entries PROVE ToSet(Append(s, x)) = ToSet(s) \cup {x}
  <2> DEFINE a == Append(s, x)
  <2>1. a \in Seq(Entries) /\ Len(a) = Len(s) + 1 /\ a[Len(s) + 1] = x /\ (\A i \in 1 .. Len(s) : a[i] = s[i])
        /\ Len(s) \in Nat
    BY AppendFacts, SeqFacts
  <2> HIDE DEF a
  <2>2. DOMAIN a = 1 .. Len(s) + 1 /\ DOMAIN s = 1 .. Len(s)
    BY <2>1, LenProperties
  <2>3. \A i \in 1 .. Len(s) + 1 : i \in 1 .. Len(s) \/ i = Len(s) + 1
    BY <2>1
  <2>4. ToSet(a) = ToSet(s) \cup {x}
    BY <2>1, <2>2, <2>3 DEF ToSet
  <2> QED
    BY <2>4 DEF a
<1>3. ASSUME NEW s \in Seq(Entries), s # <<>> PROVE ToSet(s) = {Head(s)} \cup ToSet(Tail(s))
  <2> DEFINE u == Tail(s)
             h == Head(s)
  <2>1. u \in Seq(Entries) /\ Len(u) = Len(s) - 1 /\ h = s[1] /\ Len(s) \in Nat /\ Len(s) >= 1
        /\ \A i \in 1 .. Len(s) - 1 : u[i] = s[i + 1]
    BY <1>3, HeadTail
  <2> HIDE DEF u, h
  <2>2. DOMAIN u = 1 .. Len(s) - 1 /\ DOMAIN s = 1 .. Len(s)
    BY <2>1, LenProperties
  <2>3. \A i \in 1 .. Len(s) : i = 1 \/ (i - 1 \in 1 .. Len(s) - 1 /\ s[i] = u[i - 1])
    BY <2>1
  <2>4. \A i \in 1 .. Len(s) - 1 : i + 1 \in 1 .. Len(s)
    BY <2>1
  <2>5. ToSet(s) \subseteq {h} \cup ToSet(u)
    BY <2>1, <2>2, <2>3 DEF ToSet
  <2>6. {h} \cup ToSet(u) \subseteq ToSet(s)
    BY <2>1, <2>2, <2>4 DEF ToSet
  <2> QED
    BY <2>5, <2>6 DEF u, h
<1> QED
  BY <1>1, <1>2, <1>3

\* What a step of relay r does to the entries it holds and to those that are settled.
Passes(r) ==
  /\ InProcess(r) \subseteq InProcess(r)' \cup Settled'
  /\ Settled \subseteq Settled' /\ Settled' \subseteq Settled \cup InProcess(r)

\* A step that gives out no id hands entries on: none appears, none vanishes.
LEMMA PassesOn ==
  ASSUME ShapeInv, HandInv, ChainInv, NEW r \in Relays, RelayStep(r),
         ~\E c \in Communities : Enqueue(r, c)
  PROVE  Passes(r) /\ InProcess(r)' \subseteq InProcess(r) /\ created' = created
<1>1. inbox[r] \in Seq(Entries) /\ waiting[r] \in Seq(Entries) /\ worker[r].entry \in Entries \cup {NoEntry}
  BY MovesForms DEF ShapeInv
<1>2. created' = created
  BY DEF RelayStep, Works, Sends, Sent, SendFails, Recv, Close, Acquire, LockTimeout,
         BackoffEnds, ReadHead, Insert, Commit, Unlock, Cancel, Exit, ProcessEnds, Restart,
         AppendFails, ConnectionLost, senders
<1> DEFINE hand == {worker[r].entry} \ {NoEntry}
           A == ToSet(inbox[r])
           B == ToSet(waiting[r])
<1>3. InProcess(r) = B \cup A \cup hand
  BY DEF InProcess
<1>4. CASE Sent(r)
  <2>1. /\ waiting[r] # <<>> /\ UNCHANGED <<worker, rows, failed, abandoned>>
        /\ inbox'[r] = Append(inbox[r], Head(waiting[r])) /\ waiting'[r] = Tail(waiting[r])
    BY <1>4 DEF Sent, table, ShapeInv
  <2>2. Head(waiting[r]) \in Entries
    BY <1>1, <2>1, HeadTail
  <2>3. ToSet(inbox'[r]) = A \cup {Head(waiting[r])} /\ B = {Head(waiting[r])} \cup ToSet(waiting'[r])
    BY <1>1, <2>1, <2>2, LineSets
  <2>4. InProcess(r)' = InProcess(r)
    BY <2>1, <2>3 DEF InProcess
  <2>5. Settled' = Settled
    BY <2>1 DEF Settled
  <2> QED
    BY <1>2, <2>4, <2>5 DEF Passes
<1>5. CASE SendFails(r)
  <2>1. /\ waiting[r] # <<>> /\ UNCHANGED <<worker, rows, inbox, abandoned>>
        /\ failed' = failed \cup {Head(waiting[r])} /\ waiting'[r] = Tail(waiting[r])
    BY <1>5 DEF SendFails, table, ShapeInv
  <2>2. B = {Head(waiting[r])} \cup ToSet(waiting'[r])
    BY <1>1, <2>1, LineSets
  <2>3. InProcess(r)' \subseteq InProcess(r) /\ InProcess(r) = InProcess(r)' \cup {Head(waiting[r])}
    BY <2>1, <2>2 DEF InProcess
  <2>4. Settled' = Settled \cup {Head(waiting[r])}
    BY <2>1 DEF Settled
  <2> QED
    BY <1>2, <2>3, <2>4 DEF Passes
<1>6. CASE Recv(r)
  <2>1. /\ worker[r].pc = "recv" /\ inbox[r] # <<>> /\ UNCHANGED <<waiting, rows, failed, abandoned>>
        /\ inbox'[r] = Tail(inbox[r])
    BY <1>6 DEF Recv, At, senders, table, ShapeInv
  <2>2. worker'[r].entry = Head(inbox[r]) /\ worker[r].entry = NoEntry
    BY <1>6, <2>1, WorkerAfter DEF MovingStep, HandInv
  <2>3. Head(inbox[r]) \in Entries /\ Head(inbox[r]) # NoEntry /\ A = {Head(inbox[r])} \cup ToSet(inbox'[r])
    BY <1>1, <2>1, HeadTail, LineSets, EntryIsNot
  <2>4. InProcess(r)' = InProcess(r)
    BY <2>1, <2>2, <2>3 DEF InProcess
  <2>5. Settled' = Settled
    BY <2>1 DEF Settled
  <2> QED
    BY <1>2, <2>4, <2>5 DEF Passes
<1>7. CASE Exit(r)
  <2>1. /\ UNCHANGED <<rows, failed>> /\ abandoned' = abandoned \cup B
        /\ inbox'[r] = <<>> /\ waiting'[r] = <<>> /\ worker'[r].entry = NoEntry
    BY <1>7, WorkerAfter DEF Exit, table, ShapeInv, MovingStep
  <2>2. inbox[r] = <<>> /\ worker[r].entry = NoEntry
    BY <1>7 DEF Exit, Drained, HandInv
  <2>3. InProcess(r)' = {} /\ InProcess(r) = B
    BY <2>1, <2>2, LineSets DEF InProcess
  <2>4. Settled' = Settled \cup B
    BY <2>1 DEF Settled
  <2> QED
    BY <1>2, <2>3, <2>4 DEF Passes
<1>8. CASE ProcessEnds(r)
  <2>1. /\ UNCHANGED <<rows, failed>> /\ abandoned' = abandoned \cup InProcess(r)
        /\ inbox'[r] = <<>> /\ waiting'[r] = <<>> /\ worker'[r].entry = NoEntry
    BY <1>8, WorkerAfter DEF ProcessEnds, ShapeInv, MovingStep
  <2>2. InProcess(r)' = {}
    BY <2>1, LineSets DEF InProcess
  <2>3. Settled' = Settled \cup InProcess(r)
    BY <2>1 DEF Settled
  <2> QED
    BY <1>2, <2>2, <2>3 DEF Passes
<1>9. CASE Commit(r)
  <2>1. /\ worker[r].pc = "commit" /\ UNCHANGED <<waiting, inbox, failed, abandoned>>
        /\ rows' = rows \cup {worker[r].head} /\ worker'[r].entry = worker[r].entry
    BY <1>9, WorkerAfter DEF Commit, At, senders, MovingStep
  <2>2. worker[r].head.entry = worker[r].entry /\ worker[r].entry # NoEntry
    BY <2>1, CommitsPlace, InHand
  <2>3. InProcess(r)' = InProcess(r) /\ worker[r].entry \in InProcess(r)
    BY <2>1, <2>2 DEF InProcess
  <2>4. Settled' = Settled \cup {worker[r].entry}
    BY <2>1, <2>2 DEF Settled
  <2> QED
    BY <1>2, <2>3, <2>4 DEF Passes
<1>10. CASE Unlock(r)
  <2>1. worker[r].pc = "unlock" /\ UNCHANGED <<waiting, rows>>
    BY <1>10 DEF Unlock, At, senders, table
  <2>2. worker[r].entry # NoEntry /\ worker[r].entry \in InProcess(r) /\ A \subseteq InProcess(r)
    BY <2>1, InHand DEF InProcess
  <2>3. CASE worker'[r].entry = NoEntry /\ worker[r].outcome = "ok" /\ UNCHANGED <<inbox, failed, abandoned>>
    <3>1. worker[r].entry \in Settled
      BY <2>1, <2>3 DEF HandInv, Settled
    <3>2. Settled' = Settled
      BY <2>1, <2>3 DEF Settled
    <3>3. InProcess(r) \subseteq InProcess(r)' \cup {worker[r].entry} /\ InProcess(r)' \subseteq InProcess(r)
      BY <2>1, <2>3 DEF InProcess
    <3> QED
      BY <1>2, <3>1, <3>2, <3>3 DEF Passes
  <2>4. CASE worker'[r].entry = NoEntry /\ failed' = failed \cup {worker[r].entry} /\ UNCHANGED <<inbox, abandoned>>
    <3>1. Settled' = Settled \cup {worker[r].entry}
      BY <2>1, <2>4 DEF Settled
    <3>2. InProcess(r) \subseteq InProcess(r)' \cup {worker[r].entry} /\ InProcess(r)' \subseteq InProcess(r)
      BY <2>1, <2>4 DEF InProcess
    <3> QED
      BY <1>2, <2>2, <3>1, <3>2 DEF Passes
  <2>5. CASE worker'[r].entry = worker[r].entry /\ UNCHANGED <<inbox, failed, abandoned>>
    <3>1. Settled' = Settled /\ InProcess(r)' = InProcess(r)
      BY <2>1, <2>5 DEF Settled, InProcess
    <3> QED
      BY <1>2, <3>1 DEF Passes
  <2>6. CASE /\ worker'[r].entry = NoEntry /\ inbox'[r] = <<>> /\ failed' = failed
             /\ abandoned' = abandoned \cup {worker[r].entry} \cup A
    <3>1. Settled' = Settled \cup {worker[r].entry} \cup A
      BY <2>1, <2>6 DEF Settled
    <3>2. InProcess(r)' = B /\ InProcess(r) = B \cup A \cup {worker[r].entry}
      BY <2>1, <2>2, <2>6, LineSets DEF InProcess
    <3> QED
      BY <1>2, <2>2, <3>1, <3>2 DEF Passes
  <2>7. inbox' = [inbox EXCEPT ![r] = <<>>] => inbox'[r] = <<>>
    BY DEF ShapeInv
  <2> HIDE DEF A, B, hand
  <2>8. \/ worker'[r].entry = NoEntry /\ worker[r].outcome = "ok" /\ UNCHANGED <<inbox, failed, abandoned>>
        \/ worker'[r].entry = NoEntry /\ failed' = failed \cup {worker[r].entry} /\ UNCHANGED <<inbox, abandoned>>
        \/ worker'[r].entry = worker[r].entry /\ UNCHANGED <<inbox, failed, abandoned>>
        \/ /\ worker'[r].entry = NoEntry /\ inbox'[r] = <<>> /\ failed' = failed
           /\ abandoned' = abandoned \cup {worker[r].entry} \cup A
    BY <1>10, <2>7, WorkerAfter DEF MovingStep, A
  <2> QED
    BY <2>3, <2>4, <2>5, <2>6, <2>8
<1>11. CASE Acquire(r) \/ LockTimeout(r) \/ BackoffEnds(r) \/ ReadHead(r) \/ Insert(r) \/ AppendFails(r)
            \/ ConnectionLost(r) \/ Close(r) \/ Cancel(r) \/ Restart(r)
  <2>1. UNCHANGED <<waiting, inbox, rows, failed, abandoned>>
    BY <1>11 DEF Acquire, LockTimeout, BackoffEnds, ReadHead, Insert, AppendFails, ConnectionLost,
                 Close, Cancel, Restart, senders, table
  <2>2. worker'[r].entry = worker[r].entry
    <3>1. CASE MovingStep(r)
      BY <1>11, <3>1, WorkerAfter DEF Close, Cancel, Restart
    <3> QED
      BY <1>11, <3>1 DEF Close, Cancel, Restart, MovingStep
  <2>3. InProcess(r)' = InProcess(r) /\ Settled' = Settled
    BY <2>1, <2>2 DEF InProcess, Settled
  <2> QED
    BY <1>2, <2>3 DEF Passes
<1> QED
  BY <1>4, <1>5, <1>6, <1>7, <1>8, <1>9, <1>10, <1>11 DEF RelayStep, Works, Sends

\* The other relays' entries stay with them.
LEMMA OthersHold ==
  ASSUME ShapeInv, NEW r \in Relays, RelayStep(r), NEW x \in Relays \ {r}
  PROVE  InProcess(x)' = InProcess(x)
  BY OthersKept DEF InProcess

\* The known entries never become fewer.  They grow by a new id, or by an entry whose
\* COMMIT is processed after its session lost its client.
LEMMA KnownStep ==
  ASSUME ShapeInv, HandInv, ChainInv, [ANext]_avars
  PROVE  /\ Known \subseteq Known'
         /\ \/ created' = created /\ Known' \subseteq Known \cup Logged
            \/ /\ created' = created + 1
               /\ \E e \in Entries : e.id = created + 1 /\ Known' = Known \cup {e}
<1>1. created \in Nat
  BY AuditAssumption DEF ShapeInv
<1>2. CASE UNCHANGED avars
  <2>1. Known' = Known /\ created' = created
    BY <1>2 DEF avars, Known, OnItsWay, Settled, InProcess
  <2> QED
    BY <2>1
<1>3. ASSUME NEW c \in Communities, SessionEnds(c)
      PROVE  Known \subseteq Known' /\ created' = created /\ Known' \subseteq Known \cup Logged
  <2>1. /\ UNCHANGED <<waiting, created, inbox, worker, failed, abandoned>>
        /\ rows \subseteq rows' /\ rows' \subseteq rows \cup late
    BY <1>3 DEF SessionEnds, senders
  <2>2. OnItsWay' = OnItsWay
    BY <2>1 DEF OnItsWay, InProcess
  <2>3. Settled \subseteq Settled' /\ \A e \in Settled' : e \in Settled \/ e \in Logged
    BY <2>1 DEF Settled, Logged
  <2> QED
    BY <2>1, <2>2, <2>3 DEF Known
<1>4. ASSUME NEW r \in Relays, RelayStep(r), ~\E c \in Communities : Enqueue(r, c)
      PROVE  Known \subseteq Known' /\ created' = created /\ Known' \subseteq Known \cup Logged
  <2>1. Passes(r) /\ InProcess(r)' \subseteq InProcess(r) /\ created' = created
    BY <1>4, PassesOn
  <2>2. \A x \in Relays \ {r} : InProcess(x)' = InProcess(x)
    BY <1>4, OthersHold
  <2>3. Known' \subseteq Known
    BY <2>1, <2>2 DEF Known, OnItsWay, Passes
  <2>4. Known \subseteq Known'
    BY <2>1, <2>2 DEF Known, OnItsWay, Passes
  <2> QED
    BY <2>1, <2>3, <2>4
<1>5. ASSUME NEW r \in Relays, RelayStep(r), NEW c \in Communities, Enqueue(r, c)
      PROVE  /\ created' = created + 1
             /\ \E e \in Entries : e.id = created + 1 /\ Known' = Known \cup {e}
  <2> DEFINE e == [id |-> created + 1, community |-> c, relay |-> r]
  <2>1. /\ created' = created + 1 /\ UNCHANGED <<worker, rows, failed, abandoned>>
        /\ \/ inbox' = [inbox EXCEPT ![r] = Append(@, e)] /\ waiting' = waiting
           \/ waiting' = [waiting EXCEPT ![r] = Append(@, e)] /\ inbox' = inbox
    BY <1>5 DEF Enqueue, table
  <2>2. e \in Entries /\ e.id = created + 1
    BY <1>1, <1>5, AuditAssumption DEF Enqueue, Entries
  <2> HIDE DEF e
  <2>3. \/ inbox'[r] = Append(inbox[r], e) /\ waiting'[r] = waiting[r]
        \/ waiting'[r] = Append(waiting[r], e) /\ inbox'[r] = inbox[r]
    BY <2>1 DEF ShapeInv
  <2>4. InProcess(r)' = InProcess(r) \cup {e}
    <3>1. inbox[r] \in Seq(Entries) /\ waiting[r] \in Seq(Entries)
      BY DEF ShapeInv
    <3>2. \/ ToSet(inbox'[r]) = ToSet(inbox[r]) \cup {e} /\ waiting'[r] = waiting[r]
          \/ ToSet(waiting'[r]) = ToSet(waiting[r]) \cup {e} /\ inbox'[r] = inbox[r]
      BY <2>2, <2>3, <3>1, LineSets
    <3> QED
      BY <2>1, <3>2 DEF InProcess
  <2>5. \A x \in Relays \ {r} : InProcess(x)' = InProcess(x)
    BY <1>5, OthersHold
  <2>6. OnItsWay' = OnItsWay \cup {e}
    BY <2>4, <2>5 DEF OnItsWay
  <2>7. Known' = Known \cup {e}
    BY <2>1, <2>6 DEF Settled, Known
  <2> QED
    BY <2>1, <2>2, <2>7
<1> QED
  BY <1>2, <1>3, <1>4, <1>5, StepCases

\* NeverSilentlyDropped is kept by every step.
LEMMA DropStep ==
  ASSUME ShapeInv, HandInv, ChainInv, IdInv, NeverSilentlyDropped, [ANext]_avars
  PROVE  NeverSilentlyDropped'
<1>1. {e.id : e \in Known} = 1 .. created /\ created \in Nat
  BY AuditAssumption DEF NeverSilentlyDropped, ShapeInv, Known
<1>2. CASE created' = created /\ Known' = Known
  BY <1>1, <1>2 DEF NeverSilentlyDropped, Known
<1>3. ASSUME NEW e \in Entries, created' = created + 1, e.id = created + 1, Known' = Known \cup {e}
      PROVE  NeverSilentlyDropped'
  <2>1. {a.id : a \in Known'} = {a.id : a \in Known} \cup {created + 1}
    BY <1>3
  <2>2. (1 .. created) \cup {created + 1} = 1 .. created + 1
    BY <1>1
  <2>3. {a.id : a \in Known'} = 1 .. created'
    BY <1>1, <1>3, <2>1, <2>2
  <2> QED
    BY <2>3 DEF NeverSilentlyDropped, Known
<1>4. Known' \subseteq Known \cup Logged => Known' \subseteq Known
  BY DEF IdInv
<1> QED
  BY <1>2, <1>3, <1>4, KnownStep

\* IdInv is kept by every step.
LEMMA IdStep ==
  ASSUME ShapeInv, HandInv, ChainInv, IdInv, NeverSilentlyDropped, [ANext]_avars
  PROVE  IdInv'
<1>1. {e.id : e \in Known} = 1 .. created /\ created \in Nat
  BY AuditAssumption DEF NeverSilentlyDropped, ShapeInv, Known
<1>2. Logged' \subseteq Known'
  <2>1. Logged' \subseteq Logged \cup Known
    <3>1. CASE UNCHANGED avars
      BY <3>1 DEF avars, Logged
    <3>2. ASSUME NEW c \in Communities, SessionEnds(c) PROVE Logged' \subseteq Logged \cup Known
      BY <3>2, LoggedEnds
    <3>3. ASSUME NEW r \in Relays, RelayStep(r) PROVE Logged' \subseteq Logged \cup Known
      <4>1. worker[r].pc = "commit" => worker[r].entry \in Known
        BY InHand DEF Known, OnItsWay, InProcess
      <4> QED
        BY <3>3, <4>1, LoggedStep
    <3> QED
      BY <3>1, <3>2, <3>3, StepCases
  <2> QED
    BY <2>1, KnownStep DEF IdInv
<1>3. CASE Known' \subseteq Known
  BY <1>2, <1>3 DEF IdInv
<1>4. ASSUME NEW e \in Entries, e.id = created + 1, Known' = Known \cup {e} PROVE IdInv'
  <2>1. \A a \in Known : a.id \in 1 .. created
    BY <1>1
  <2>2. \A a \in Known : a.id # e.id
    BY <1>1, <1>4, <2>1
  <2> QED
    BY <1>2, <1>4, <2>2 DEF IdInv
<1>5. Known' \subseteq Known \cup Logged => Known' \subseteq Known
  BY DEF IdInv
<1> QED
  BY <1>3, <1>4, <1>5, KnownStep

-----------------------------------------------------------------------------
(* The invariant, and what follows from it.                                *)

\* The invariant holds at the start.
LEMMA AuditInitInv == AInit => AuditInv
<1> SUFFICES ASSUME AInit PROVE AuditInv
  OBVIOUS
<1>1. ShapeInv /\ RoomInv
  BY ShapeInit
<1>2. \A r \in Relays : /\ waiting[r] = <<>> /\ inbox[r] = <<>> /\ worker[r].pc = "recv"
                        /\ worker[r].entry = NoEntry
  BY DEF AInit, Idle
<1>3. rows = {} /\ late = {} /\ created = 0 /\ failed = {} /\ abandoned = {}
  BY DEF AInit
<1>4. HandInv /\ LockInv
  BY <1>2, <1>3 DEF HandInv, LockInv
<1>5. ChainInv
  <2>1. \A c \in Communities : ChainOf(c) = {} /\ HeadOf(c).seq = 0
    BY <1>3 DEF ChainOf, HeadOf, Genesis
  <2> QED
    BY <1>2, <1>3, <2>1 DEF ChainInv
<1>6. LineInv
  BY <1>2, <1>3 DEF LineInv, Line, Ascends, Before, Logged, Unlogged
<1>7. OnceInv
  BY <1>3 DEF OnceInv, OrderKept
<1>8. NeverSilentlyDropped /\ IdInv
  <2>1. OnItsWay = {} /\ Settled = {}
    BY <1>2, <1>3, LineSets DEF OnItsWay, InProcess, Settled
  <2> QED
    BY <1>3, <2>1 DEF NeverSilentlyDropped, IdInv, Logged, Known
<1> QED
  BY <1>1, <1>4, <1>5, <1>6, <1>7, <1>8 DEF AuditInv

\* Every step keeps it.
LEMMA AuditStep == AuditInv /\ [ANext]_avars => AuditInv'
  BY ShapeStep, HandStep, LockStep, ChainStep, LineStep, OnceStep, IdStep, DropStep DEF AuditInv

\* The inductive invariant holds in every state of every behaviour.
LEMMA AuditInvariant == ASpec => []AuditInv
  BY AuditInitInv, AuditStep, PTL DEF ASpec

\* The head a worker read is still the head when it inserts and commits, whatever
\* relays append at once and wherever connections and processes are lost.
THEOREM HeadStaysCurrent == ASpec => []HeadIsCurrent
<1>1. AuditInv => HeadIsCurrent
  BY DEF AuditInv, ChainInv, HeadIsCurrent, At
<1> QED
  BY <1>1, AuditInvariant, PTL

\* An entry has one row at most, and one that is retried has none, not even in a
\* session that ends later.
THEOREM EntriesLoggedOnce == ASpec => []LoggedOnce
<1>1. AuditInv => LoggedOnce
  <2> SUFFICES ASSUME AuditInv PROVE LoggedOnce
    OBVIOUS
  <2>1. \A v, w \in rows \cup late : v.entry = w.entry => v = w
    BY DEF AuditInv, OnceInv
  <2>2. ASSUME NEW r \in Relays, NEW w \in rows \cup late,
               worker[r].pc \in {"acquire", "backoff", "read", "insert"}, w.entry = worker[r].entry
        PROVE  FALSE
    <3>1. worker[r].entry \in Entries /\ worker[r].entry # NoEntry
      BY <2>2, InHand DEF AuditInv
    <3>2. Unlogged(r) /\ w.entry \in Logged /\ w.entry.relay = r /\ w.entry.id \in Nat
      BY <2>2, <3>1, EntryIds DEF Unlogged, Logged, AuditInv, LineInv, Line
    <3>3. w.entry.id < worker[r].entry.id
      BY <3>2 DEF AuditInv, LineInv
    <3> QED
      BY <2>2, <3>2, <3>3
  <2> QED
    BY <2>1, <2>2 DEF LoggedOnce
<1> QED
  BY <1>1, AuditInvariant, PTL

\* A chain keeps the order in which one relay's handlers queued their entries.
THEOREM QueueOrderKept == ASpec => []OrderKept
<1>1. AuditInv => OrderKept
  BY DEF AuditInv, OnceInv
<1> QED
  BY <1>1, AuditInvariant, PTL

\* Every entry a handler created is on its way, in the chain, counted as an error, or
\* was lost with a process or a worker; and there are no others.
THEOREM NothingSilentlyDropped == ASpec => []NeverSilentlyDropped
<1>1. AuditInv => NeverSilentlyDropped
  BY DEF AuditInv
<1> QED
  BY <1>1, AuditInvariant, PTL

\* A set of rows numbered 1..n without repetition has n of them.
LEMMA Counted ==
  ASSUME NEW S, NEW n \in Nat, {w.seq : w \in S} = 1 .. n, \A v, w \in S : v.seq = w.seq => v = w
  PROVE  Cardinality(S) = n /\ IsFiniteSet(S)
<1> DEFINE F == [w \in S |-> w.seq]
<1>1. F \in [S -> 1 .. n] /\ \A w \in S : F[w] = w.seq
  OBVIOUS
<1>2. \A k \in 1 .. n : \E w \in S : w.seq = k
  OBVIOUS
<1> HIDE DEF F
<1>3. F \in Injection(S, 1 .. n)
  BY <1>1, Fun_IsInj
<1>4. F \in Surjection(S, 1 .. n)
  BY <1>1, <1>2, Fun_IsSurj
<1>5. ExistsBijection(S, 1 .. n)
  BY <1>3, <1>4 DEF ExistsBijection, Bijection
<1>6. ExistsBijection(1 .. n, S)
  BY <1>5, Fun_ExistsBijSymmetric
<1> QED
  BY <1>6, FS_CountingElements, FS_NatBijection

\* Rows of distinct entries whose ids are within 1..m are at most m.
LEMMA Fits ==
  ASSUME NEW S, NEW m \in Nat, \A w \in S : w.entry.id \in 1 .. m,
         \A v, w \in S : v.entry.id = w.entry.id => v = w
  PROVE  Cardinality(S) <= m
<1> DEFINE F == [w \in S |-> w.entry.id]
<1>1. F \in [S -> 1 .. m] /\ \A w \in S : F[w] = w.entry.id
  OBVIOUS
<1> HIDE DEF F
<1>2. F \in Injection(S, 1 .. m)
  BY <1>1, Fun_IsInj
<1>3. IsFiniteSet(1 .. m) /\ Cardinality(1 .. m) = IF 1 > m THEN 0 ELSE m - 1 + 1
  BY FS_Interval
<1>4. Cardinality(S) <= Cardinality(1 .. m)
  BY <1>2, <1>3, FS_Injection
<1>5. Cardinality(1 .. m) = m
  BY <1>3
<1> QED
  BY <1>4, <1>5

\* A chain has as many rows as its head says.
LEMMA ChainCounted ==
  ASSUME ChainInv, NEW c \in Communities
  PROVE  Cardinality(ChainOf(c)) = HeadOf(c).seq /\ IsFiniteSet(ChainOf(c))
<1>1. HeadOf(c).seq \in Nat
  BY HeadFacts
<1>2. {w.seq : w \in ChainOf(c)} = 1 .. HeadOf(c).seq
  BY DEF ChainInv
<1>3. \A v, w \in ChainOf(c) : v.seq = w.seq => v = w
  BY DEF ChainInv, ChainOf
<1> QED
  BY <1>1, <1>2, <1>3, Counted

\* verify_chain accepts every range of every chain, and no chain has a gap.
THEOREM ChainsVerify == ASpec => []VerifyAccepts
<1>1. AuditInv => VerifyAccepts
  <2> SUFFICES ASSUME AuditInv, NEW c \in Communities
               PROVE  /\ {w.seq : w \in ChainOf(c)} = 1 .. Cardinality(ChainOf(c))
                      /\ \A from, to \in 1 .. MaxEntries : VerifyChain(c, from, to)
    BY DEF VerifyAccepts
  <2>1. ChainInv
    BY DEF AuditInv
  <2>2. {w.seq : w \in ChainOf(c)} = 1 .. Cardinality(ChainOf(c))
    <3>1. Cardinality(ChainOf(c)) = HeadOf(c).seq
      BY <2>1, ChainCounted
    <3>2. {w.seq : w \in ChainOf(c)} = 1 .. HeadOf(c).seq
      BY <2>1 DEF ChainInv
    <3> QED
      BY <3>1, <3>2
  <2>3. ASSUME NEW from \in 1 .. MaxEntries, NEW to \in 1 .. MaxEntries PROVE VerifyChain(c, from, to)
    <3> DEFINE seg == {w \in ChainOf(c) : w.seq \in from .. to}
               before(w) == {v \in seg : v.seq < w.seq}
    <3>1. ASSUME NEW w \in seg, NEW v \in before(w), \A u \in before(w) : u.seq <= v.seq
          PROVE  w.prev = v.hash
      <4>1. /\ w \in rows /\ v \in rows /\ w.community = c /\ v.community = c
            /\ w.seq \in Nat /\ v.seq \in Nat /\ v.seq < w.seq /\ w.seq \in from .. to /\ v.seq \in from .. to
        BY <2>1, HeadFacts DEF ChainOf
      <4>2. w.seq - 1 \in 1 .. HeadOf(c).seq /\ w.seq - 1 \in from .. to /\ w.seq - 1 >= v.seq
        <5>1. w.seq <= HeadOf(c).seq /\ HeadOf(c).seq \in Nat
          BY <2>1, HeadFacts
        <5>2. v.seq >= 1
          BY <2>1, <4>1 DEF ChainInv
        <5> QED
          BY <2>3, <4>1, <5>1, <5>2
      <4>3. PICK u \in ChainOf(c) : u.seq = w.seq - 1
        <5>1. w.seq - 1 \in {x.seq : x \in ChainOf(c)}
          BY <2>1, <4>2 DEF ChainInv
        <5> QED
          BY <5>1
      <4>4. u \in before(w)
        BY <4>1, <4>2, <4>3
      <4>5. v.seq = w.seq - 1
        BY <3>1, <4>1, <4>2, <4>3, <4>4
      <4>6. w.seq = v.seq + 1
        BY <4>1, <4>5
      <4> QED
        BY <2>1, <4>1, <4>6 DEF ChainInv
    <3>2. \A w \in seg : w.hash = ComputeHash(w.community, w.seq, w.entry, w.prev)
      BY <2>1 DEF ChainInv, ChainOf
    <3> QED
      BY <3>1, <3>2 DEF VerifyChain
  <2> QED
    BY <2>2, <2>3
<1> QED
  BY <1>1, AuditInvariant, PTL

\* A chain has at most as many rows as there are entries, the late one included.
LEMMA ChainFits ==
  ASSUME AuditInv, NEW c \in Communities
  PROVE  /\ HeadOf(c).seq <= MaxEntries
         /\ \A w \in late : w.community = c => HeadOf(c).seq + 1 <= MaxEntries
<1>1. MaxEntries \in Nat /\ HeadOf(c).seq \in Nat /\ IsFiniteSet(ChainOf(c)) /\ Cardinality(ChainOf(c)) = HeadOf(c).seq
  BY AuditAssumption, HeadFacts, ChainCounted DEF AuditInv
<1>2. \A w \in Writes : w.entry \in Known /\ w.entry.id \in 1 .. MaxEntries
  BY LatePlace DEF AuditInv, IdInv, Logged, Writes, Entries
<1>3. \A v, w \in Writes : v.entry.id = w.entry.id => v = w
  BY <1>2 DEF AuditInv, IdInv, OnceInv, Writes
<1>4. ChainOf(c) \subseteq Writes
  BY DEF ChainOf, Writes
<1>5. HeadOf(c).seq <= MaxEntries
  <2>1. Cardinality(ChainOf(c)) <= MaxEntries
    BY <1>1, <1>2, <1>3, <1>4, Fits
  <2> QED
    BY <1>1, <2>1
<1>6. ASSUME NEW w \in late, w.community = c PROVE HeadOf(c).seq + 1 <= MaxEntries
  <2>1. w = RowAfter(HeadOf(c), w.entry)
    BY <1>6 DEF AuditInv, ChainInv
  <2>2. w.seq = HeadOf(c).seq + 1
    BY <2>1, RowFields
  <2>3. w \notin ChainOf(c)
    BY <1>1, <2>2, HeadFacts DEF AuditInv
  <2>4. Cardinality(ChainOf(c) \cup {w}) = HeadOf(c).seq + 1
    BY <1>1, <2>3, FS_AddElement
  <2>5. Cardinality(ChainOf(c) \cup {w}) <= MaxEntries
    <3>1. ChainOf(c) \cup {w} \subseteq Writes
      BY <1>4 DEF Writes
    <3> QED
      BY <1>1, <1>2, <1>3, <3>1, Fits
  <2> QED
    BY <2>4, <2>5
<1> QED
  BY <1>5, <1>6

\* Types: the channel keeps its capacity, and no chain outgrows the entries created.
THEOREM AuditTypeCorrect == ASpec => []AuditTypeOK
<1>1. AuditInv => AuditTypeOK
  <2> SUFFICES ASSUME AuditInv PROVE AuditTypeOK
    OBVIOUS
  <2>1. ShapeInv /\ RoomInv /\ ChainInv
    BY DEF AuditInv
  <2>2. ASSUME NEW r \in Relays
        PROVE  /\ ToSet(waiting[r]) \cup ToSet(inbox[r]) \subseteq Entries
               /\ Len(inbox[r]) <= Capacity
               /\ door[r] \in Doors /\ worker[r].pc \in Pcs
               /\ worker[r].entry \in Entries \cup {NoEntry} /\ worker[r].outcome \in Outcomes
    <3>1. ToSet(waiting[r]) \cup ToSet(inbox[r]) \subseteq Entries
      BY <2>1, InProcessType
    <3>2. worker[r].pc \in Pcs /\ worker[r].entry \in Entries \cup {NoEntry} /\ worker[r].outcome \in Outcomes
      BY <2>1, MovesForms
    <3>3. door[r] \in Doors /\ Len(inbox[r]) <= Capacity
      BY <2>1 DEF ShapeInv, RoomInv
    <3> QED
      BY <3>1, <3>2, <3>3
  <2>3. ASSUME NEW w \in rows \cup late
        PROVE  w.community \in Communities /\ w.seq \in 1 .. MaxEntries /\ w.entry \in Entries
    <3>1. w.community \in Communities /\ w.entry \in Entries
      BY <2>1, LatePlace
    <3>2. w.seq \in Nat \ {0} /\ HeadOf(w.community).seq \in Nat /\ MaxEntries \in Nat
      BY <2>1, <3>1, HeadFacts, AuditAssumption DEF ChainInv
    <3>3. CASE w \in rows
      <4>1. w \in ChainOf(w.community)
        BY <3>3 DEF ChainOf
      <4>2. w.seq <= HeadOf(w.community).seq /\ HeadOf(w.community).seq <= MaxEntries
        BY <2>1, <3>1, <4>1, HeadFacts, ChainFits
      <4> QED
        BY <3>1, <3>2, <4>2
    <3>4. CASE w \in late
      <4>1. w = RowAfter(HeadOf(w.community), w.entry)
        BY <2>1, <3>4 DEF ChainInv
      <4>2. w.seq = HeadOf(w.community).seq + 1
        BY <4>1, RowFields
      <4>3. HeadOf(w.community).seq + 1 <= MaxEntries
        BY <3>1, <3>4, ChainFits
      <4> QED
        BY <3>1, <3>2, <4>2, <4>3
    <3> QED
      BY <3>3, <3>4
  <2>4. lock \in [Communities -> Relays \cup {Free, Orphan}] /\ failed \cup abandoned \subseteq Entries
        /\ created \in 0 .. MaxEntries /\ faults \in 0 .. MaxFaults
    BY <2>1 DEF ShapeInv
  <2> QED
    BY <2>2, <2>3, <2>4 DEF AuditTypeOK, Doors, Pcs, Outcomes
<1> QED
  BY <1>1, AuditInvariant, PTL
=============================================================================
