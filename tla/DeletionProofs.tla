--------------------------- MODULE DeletionProofs ---------------------------
(***************************************************************************)
(* Proofs about community deletion (Deletion.tla), for any number of       *)
(* executors and serving writes and any bounds on requests and faults.     *)
(*                                                                         *)
(* The argument has two halves.  The lease: of all executors that hold a   *)
(* token, only the one the request row names passes a check (Held), and    *)
(* once an executor fails it, it fails it for ever; so what the listing    *)
(* and the delete loop know in memory is needed of that executor alone.    *)
(* The fence: behind it no serving lease is live, so whatever still lands  *)
(* comes from a write whose lease ended under way.                         *)
(***************************************************************************)
EXTENDS Deletion, SequenceTheorems, FiniteSetTheorems, TLAPS

\* Shapes of the rows and of what the processes hold.
CommunityRow == [ state : {"active", "quiescing", "fenced", "tombstone"},
                  fence : Nat, archived : BOOLEAN ]

RequestRow ==
    [ id : Nat, stage : Stages, gen : Nat,
      owner : Executors \cup {NoOwner}, live : BOOLEAN, fence : Nat,
      blocked : BOOLEAN, retries : Nat,
      retryStage : Runnable \cup {"none"}, quiesced : BOOLEAN,
      before : BOOLEAN, frozen : BOOLEAN, manifest : Seq(Keys) ]

ChunkRow == [key : Keys, deleted : BOOLEAN]

Memory == [ pc : ExecPcs, id : Nat, gen : Nat, stage : Stages, fence : Nat,
            frozen : BOOLEAN, listed : Seq(Keys), chunk : Nat ]

Lease == [ pc : {"idle", "admitted", "sent", "recorded", "done"},
           live : BOOLEAN, fence : Nat ]

DShape ==
    /\ community \in CommunityRow
    /\ req \in RequestRow
    /\ chunks \in Seq(ChunkRow)
    /\ exec \in [Executors -> Memory]
    /\ serving \in [Writers -> Lease]
    /\ objects \subseteq Keys /\ deletes \subseteq Keys
    /\ cache \subseteq Writers /\ rows \subseteq Keys
    /\ puts \subseteq Writers \X Targets /\ orphans \subseteq Writers
    /\ destroyed \in BOOLEAN /\ faults \in 0..MaxFaults

\* The stages an executor can be working on at each of its steps.
StagesAt ==
    [ pc \in ExecPcs |->
        IF pc = "idle" THEN {"submitted"}
        ELSE IF pc = "stage" THEN Runnable
        ELSE IF pc \in {"quiesce", "fence"} THEN {"approved"}
        ELSE IF pc \in {"drain", "clear", "list", "freeze", "mark_drained"}
             THEN {"fenced"}
        ELSE IF pc \in {"next_chunk", "deleting"} THEN {"drained"}
        ELSE IF pc = "purge" THEN {"bindings_removed"}
        ELSE IF pc \in {"purge_cache", "mark_cache_purged"}
             THEN {"postgres_purged"}
        ELSE IF pc = "retain" THEN {"logically_verified"}
        ELSE {"cache_purged"} ]

\* What an executor's memory says about itself.
PcInv ==
    \A e \in Executors :
        /\ exec[e].stage \in StagesAt[exec[e].pc]
        /\ exec[e].pc = "idle" <=> exec[e].id = 0
        /\ exec[e].id <= req.id
        /\ exec[e].pc \in {"stage", "drain", "clear"} => exec[e].listed = <<>>

\* The request row by itself: only a request under way is leased, and the
\* streak that reaches the limit blocks.
LeaseInv ==
    /\ req.id \in 1..MaxRequests
    /\ req.live => req.stage \in Runnable
    /\ req.retries <= RetryLimit
    /\ ~req.blocked => req.retries < RetryLimit

\* Stages from which a request can no longer be aborted.
Late == {"drained", "bindings_removed", "postgres_purged", "cache_purged",
         "logically_verified", "retention_pending"}

\* The request's stage fixes the community's state, the archived flag, and
\* how far the fence generation can have come.
StateInv ==
    /\ req.stage \in {"submitted", "inventoried"} =>
         /\ community.state = "active" /\ ~req.quiesced /\ ~req.frozen
         /\ community.fence <= 2 * req.id - 2
    /\ req.stage = "approved" =>
         /\ community.state = IF req.quiesced THEN "quiescing" ELSE "active"
         /\ ~req.frozen
         /\ community.fence <= 2 * req.id - 2
    /\ req.stage \in {"fenced", "drained", "bindings_removed"} =>
         /\ community.state = "fenced" /\ req.quiesced
         /\ community.fence <= 2 * req.id - 1
    /\ req.stage \in Late \ {"drained", "bindings_removed"} =>
         /\ community.state = "tombstone"
         /\ community.fence <= 2 * req.id - 1
    /\ req.stage = "aborted" =>
         community.state = "active" /\ community.fence <= 2 * req.id
    /\ community.state = "active" => ~community.archived
    /\ req.quiesced => ~req.before

\* Copies of the fence generation are copies of one that was there.
FenceInv ==
    /\ req.fence <= 2 * MaxRequests
    /\ \A e \in Executors : exec[e].fence <= 2 * MaxRequests
    /\ \A w \in Writers : serving[w].fence <= 2 * MaxRequests

\* Behind the fence no serving lease is live, and an effect under way
\* belongs to a live lease or is an orphan.
WriteInv ==
    /\ community.state \in {"fenced", "tombstone"} =>
         \A w \in Writers : ~serving[w].live
    /\ \A w \in Writers, t \in Targets : <<w, t>> \in puts =>
         w \in orphans \/ (serving[w].live /\ serving[w].pc = "sent")

\* Nothing is removed, and no delete is sent, before stage drained.
RemovalInv ==
    destroyed \/ deletes # {} => req.stage \in Late

\* A key of the store that is no late effect.
Due(k) == k \in objects /\ k \notin orphans

\* The stored list: ascending, and a stamped chunk is gone.
ChunkInv ==
    /\ \A i, j \in 1..Len(chunks) : i < j => chunks[i].key < chunks[j].key
    /\ \A i \in 1..Len(chunks) : chunks[i].deleted =>
         req.stage \in Late /\ ~Due(chunks[i].key)
    /\ \A e \in Executors : exec[e].chunk <= Cardinality(Keys)

\* What the executor that holds the lease knows at each step.
Knows(e) ==
    /\ exec[e].frozen => req.frozen
    /\ exec[e].pc = "mark_drained" => req.frozen
    /\ exec[e].pc \in {"list", "freeze"} /\ ~req.frozen =>
         ChunkKeys = exec[e].listed
    /\ exec[e].pc = "list" => \A k \in Keys : Due(k) =>
         \/ \E i \in 1..Len(exec[e].listed) : exec[e].listed[i] = k
         \/ \A i \in 1..Len(exec[e].listed) : exec[e].listed[i] < k
    /\ exec[e].pc = "freeze" => \A k \in Keys : Due(k) =>
         \E i \in 1..Len(exec[e].listed) : exec[e].listed[i] = k
    /\ exec[e].pc = "deleting" =>
         /\ exec[e].chunk \in 1..Len(chunks)
         /\ Due(chunks[exec[e].chunk].key) =>
              chunks[exec[e].chunk].key \in deletes
    /\ exec[e].pc = "mark_cache_purged" => cache \subseteq orphans

HolderInv == \A e \in Executors : Held(e) => Knows(e)

\* What the stages promise of the stores.
AbsenceInv ==
    /\ req.stage \in Late => req.frozen
    /\ community.state = "tombstone" => rows = {}
    /\ req.stage \in {"cache_purged", "logically_verified",
                      "retention_pending"} => cache \subseteq orphans

\* The inductive invariant.
DeletionInv ==
    /\ DShape /\ PcInv /\ LeaseInv /\ StateInv /\ FenceInv /\ WriteInv
    /\ RemovalInv /\ ChunkInv /\ HolderInv /\ AbsenceInv
    /\ ChunksAreManifest /\ FrozenListIsFinal /\ RemovedBindingsAreGone

-----------------------------------------------------------------------------
(***************************************************************************)
(* The rows.                                                               *)
(***************************************************************************)
\* A stage that is under way has a successor.
LEMMA StageAfterRunnable ==
    ASSUME NEW s \in Runnable
    PROVE  /\ StageAfter[s] \in Stages
           /\ s = "approved" => StageAfter[s] = "fenced"
           /\ s = "fenced" => StageAfter[s] = "drained"
           /\ s = "drained" => StageAfter[s] = "bindings_removed"
           /\ s = "bindings_removed" => StageAfter[s] = "postgres_purged"
           /\ s = "postgres_purged" => StageAfter[s] = "cache_purged"
           /\ s = "cache_purged" => StageAfter[s] = "logically_verified"
           /\ s = "logically_verified" => StageAfter[s] = "retention_pending"
BY DEF StageAfter, Runnable, Stages, Terminal

\* advance_request_tx changes the stage, the fence and the retry streak.
LEMMA AdvancedRow ==
    ASSUME NEW r \in RequestRow, r.stage \in Runnable, NEW f \in Nat
    PROVE  /\ Advanced(r, f) \in RequestRow
           /\ Advanced(r, f).stage = StageAfter[r.stage]
           /\ Advanced(r, f).fence = f
           /\ Advanced(r, f).retries = 0
           /\ Advanced(r, f).id = r.id
           /\ Advanced(r, f).gen = r.gen
           /\ Advanced(r, f).owner = r.owner
           /\ Advanced(r, f).live = r.live
           /\ Advanced(r, f).blocked = r.blocked
           /\ Advanced(r, f).quiesced = r.quiesced
           /\ Advanced(r, f).before = r.before
           /\ Advanced(r, f).frozen = r.frozen
           /\ Advanced(r, f).manifest = r.manifest
BY StageAfterRunnable DEF Advanced, RequestRow

\* A released request keeps everything but its lease.
LEMMA ReleasedRow ==
    ASSUME NEW r \in RequestRow
    PROVE  /\ Released(r) \in RequestRow
           /\ Released(r).live = FALSE
           /\ Released(r).stage = r.stage
           /\ Released(r).fence = r.fence
           /\ Released(r).retries = r.retries
           /\ Released(r).id = r.id
           /\ Released(r).gen = r.gen
           /\ Released(r).blocked = r.blocked
           /\ Released(r).quiesced = r.quiesced
           /\ Released(r).before = r.before
           /\ Released(r).frozen = r.frozen
           /\ Released(r).manifest = r.manifest
BY DEF Released, RequestRow

\* record_retry keeps the stage, counts the failure and blocks at the limit.
LEMMA RetriedRow ==
    ASSUME NEW r \in RequestRow, r.stage \in Runnable,
           r.retries < RetryLimit
    PROVE  /\ Retried(r) \in RequestRow
           /\ Retried(r).live = FALSE
           /\ Retried(r).stage = r.stage
           /\ Retried(r).fence = r.fence
           /\ Retried(r).retries <= RetryLimit
           /\ ~Retried(r).blocked => Retried(r).retries < RetryLimit
           /\ Retried(r).id = r.id
           /\ Retried(r).gen = r.gen
           /\ Retried(r).quiesced = r.quiesced
           /\ Retried(r).before = r.before
           /\ Retried(r).frozen = r.frozen
           /\ Retried(r).manifest = r.manifest
<1> DEFINE streak == IF r.retryStage = r.stage THEN r.retries + 1 ELSE 1
           s == Released(r)
<1>1. RetryLimit \in Nat \ {0}
  BY DeletionAssumption
<1>2. r.retries \in Nat
  BY DEF RequestRow
<1>3. streak \in Nat /\ streak <= RetryLimit
  BY <1>1, <1>2
<1>4. Retried(r) = [s EXCEPT !.retries = streak, !.retryStage = r.stage,
                             !.blocked = (streak >= RetryLimit)]
  BY DEF Retried
<1>5. (streak >= RetryLimit) \in BOOLEAN
  OBVIOUS
<1>6. s \in RequestRow /\ s.live = FALSE /\ s.stage = r.stage
      /\ s.fence = r.fence /\ s.id = r.id /\ s.gen = r.gen
      /\ s.quiesced = r.quiesced /\ s.before = r.before
      /\ s.frozen = r.frozen /\ s.manifest = r.manifest
  BY ReleasedRow
<1> HIDE DEF streak, s
<1>7. PICK b \in BOOLEAN : b = (streak >= RetryLimit)
  BY <1>5
<1>8. Retried(r) = [s EXCEPT !.retries = streak, !.retryStage = r.stage,
                             !.blocked = b]
  BY <1>4, <1>7
<1>9. /\ Retried(r) \in RequestRow
      /\ Retried(r).retries = streak /\ Retried(r).blocked = b
      /\ Retried(r).live = s.live /\ Retried(r).stage = s.stage
      /\ Retried(r).fence = s.fence /\ Retried(r).id = s.id
      /\ Retried(r).gen = s.gen /\ Retried(r).quiesced = s.quiesced
      /\ Retried(r).before = s.before /\ Retried(r).frozen = s.frozen
      /\ Retried(r).manifest = s.manifest
  BY <1>3, <1>6, <1>8 DEF RequestRow
<1>10. ~Retried(r).blocked => Retried(r).retries < RetryLimit
  <2>1. SUFFICES ASSUME ~b PROVE streak < RetryLimit
    BY <1>9
  <2>2. ~(streak >= RetryLimit)
    BY <2>1, <1>7, Zenon
  <2> QED
    BY <2>2, <1>1, <1>3
<1>11. Retried(r).retries <= RetryLimit
  BY <1>3, <1>9
<1> QED
  BY <1>6, <1>9, <1>10, <1>11, Zenon

\* A block, a release and an unblock change only lease and streak.
LEMMA BlockedRow ==
    ASSUME NEW r \in RequestRow
    PROVE  LET b == [Released(r) EXCEPT !.blocked = TRUE]
           IN  /\ b \in RequestRow /\ b.live = FALSE /\ b.blocked
               /\ b.stage = r.stage /\ b.fence = r.fence
               /\ b.retries = r.retries /\ b.id = r.id /\ b.gen = r.gen
               /\ b.quiesced = r.quiesced /\ b.before = r.before
               /\ b.frozen = r.frozen /\ b.manifest = r.manifest
<1>1. \A t \in BOOLEAN :
        LET b == [Released(r) EXCEPT !.blocked = t]
        IN  /\ b \in RequestRow /\ b.live = FALSE /\ b.blocked = t
            /\ b.stage = r.stage /\ b.fence = r.fence
            /\ b.retries = r.retries /\ b.id = r.id /\ b.gen = r.gen
            /\ b.quiesced = r.quiesced /\ b.before = r.before
            /\ b.frozen = r.frozen /\ b.manifest = r.manifest
  BY ReleasedRow DEF RequestRow
<1> QED
  BY <1>1, Zenon

\* An unblock also ends the streak.
LEMMA UnblockedRow ==
    ASSUME NEW r \in RequestRow
    PROVE  LET b == [Released(r) EXCEPT !.blocked = FALSE, !.retries = 0,
                                        !.retryStage = "none"]
           IN  /\ b \in RequestRow /\ b.live = FALSE
               /\ b.stage = r.stage /\ b.fence = r.fence
               /\ b.retries = 0 /\ b.id = r.id /\ b.gen = r.gen
               /\ b.quiesced = r.quiesced /\ b.before = r.before
               /\ b.frozen = r.frozen /\ b.manifest = r.manifest
BY ReleasedRow DEF RequestRow

\* An abort ends the request and releases it; its list stays.
LEMMA AbortedRow ==
    ASSUME NEW r \in RequestRow, NEW f \in Nat
    PROVE  LET b == [Released(r) EXCEPT !.stage = "aborted", !.gen = @ + 1,
                                        !.fence = f, !.blocked = FALSE,
                                        !.retries = 0, !.retryStage = "none"]
           IN  /\ b \in RequestRow /\ b.live = FALSE
               /\ b.stage = "aborted" /\ b.fence = f
               /\ b.retries = 0 /\ b.id = r.id
               /\ b.quiesced = r.quiesced /\ b.before = r.before
               /\ b.frozen = r.frozen /\ b.manifest = r.manifest
<1> DEFINE s == Released(r)
           g == s.gen + 1
<1>1. s \in RequestRow /\ s.live = FALSE /\ s.id = r.id
      /\ s.quiesced = r.quiesced /\ s.before = r.before
      /\ s.frozen = r.frozen /\ s.manifest = r.manifest
  BY ReleasedRow
<1>2. g \in Nat
  BY <1>1 DEF RequestRow
<1> HIDE DEF s, g
<1> DEFINE b == [s EXCEPT !.stage = "aborted", !.gen = g, !.fence = f,
                          !.blocked = FALSE, !.retries = 0,
                          !.retryStage = "none"]
<1>3. /\ b \in RequestRow /\ b.live = s.live /\ b.stage = "aborted"
      /\ b.fence = f /\ b.retries = 0 /\ b.id = s.id
      /\ b.quiesced = s.quiesced /\ b.before = s.before
      /\ b.frozen = s.frozen /\ b.manifest = s.manifest
  BY <1>1, <1>2 DEF RequestRow, Stages, Terminal
<1> QED
  BY <1>1, <1>3 DEF s, g

\* A claim takes the lease.
LEMMA ClaimedRow ==
    ASSUME NEW r \in RequestRow, NEW e \in Executors
    PROVE  LET b == [r EXCEPT !.owner = e, !.gen = @ + 1, !.live = TRUE]
           IN  /\ b \in RequestRow /\ b.live /\ b.owner = e
               /\ b.gen = r.gen + 1
               /\ b.stage = r.stage /\ b.fence = r.fence
               /\ b.retries = r.retries /\ b.id = r.id
               /\ b.blocked = r.blocked
               /\ b.quiesced = r.quiesced /\ b.before = r.before
               /\ b.frozen = r.frozen /\ b.manifest = r.manifest
<1>1. \A t \in BOOLEAN, g \in Nat :
        LET b == [r EXCEPT !.owner = e, !.gen = g, !.live = t]
        IN  /\ b \in RequestRow /\ b.live = t /\ b.owner = e /\ b.gen = g
            /\ b.stage = r.stage /\ b.fence = r.fence
            /\ b.retries = r.retries /\ b.id = r.id
            /\ b.blocked = r.blocked
            /\ b.quiesced = r.quiesced /\ b.before = r.before
            /\ b.frozen = r.frozen /\ b.manifest = r.manifest
  BY DEF RequestRow
<1>2. r.gen + 1 \in Nat
  BY DEF RequestRow
<1> QED
  BY <1>1, <1>2, Zenon

\* The rows a request starts with.
LEMMA NewRow ==
    ASSUME NEW n \in Nat
    PROVE  /\ NewRequest(n) \in RequestRow
           /\ NewRequest(n).id = n /\ NewRequest(n).stage = "submitted"
           /\ NewRequest(n).live = FALSE /\ NewRequest(n).blocked = FALSE
           /\ NewRequest(n).fence = 0 /\ NewRequest(n).retries = 0
           /\ NewRequest(n).quiesced = FALSE /\ NewRequest(n).frozen = FALSE
BY EmptySeq DEF NewRequest, RequestRow, Stages, Terminal, NoOwner

\* An executor without a claim.
LEMMA IdleRow ==
    /\ Idle \in Memory
    /\ Idle.pc = "idle" /\ Idle.id = 0 /\ Idle.stage = "submitted"
    /\ Idle.fence = 0 /\ Idle.listed = <<>> /\ Idle.chunk = 0
    /\ Idle.frozen = FALSE
BY EmptySeq DEF Idle, Memory, ExecPcs, Stages

-----------------------------------------------------------------------------
(***************************************************************************)
(* The executors' memory.                                                  *)
(***************************************************************************)
\* A step that only moves an executor on.
LEMMA GotoRow ==
    ASSUME exec \in [Executors -> Memory], NEW e \in Executors,
           NEW p \in ExecPcs, Goto(e, p)
    PROVE  /\ exec' \in [Executors -> Memory]
           /\ \A f \in Executors : f # e => exec'[f] = exec[f]
           /\ exec'[e].pc = p
           /\ exec'[e].id = exec[e].id /\ exec'[e].gen = exec[e].gen
           /\ exec'[e].stage = exec[e].stage
           /\ exec'[e].fence = exec[e].fence
           /\ exec'[e].frozen = exec[e].frozen
           /\ exec'[e].listed = exec[e].listed
           /\ exec'[e].chunk = exec[e].chunk
BY DEF Goto, Memory

\* An executor that has reread the request stands before its next stage.
LEMMA RereadRow ==
    ASSUME exec \in [Executors -> Memory], NEW e \in Executors,
           NEW r \in RequestRow, Reread(e, r)
    PROVE  /\ exec' \in [Executors -> Memory]
           /\ \A f \in Executors : f # e => exec'[f] = exec[f]
           /\ exec'[e].pc = "stage"
           /\ exec'[e].id = exec[e].id /\ exec'[e].gen = exec[e].gen
           /\ exec'[e].stage = r.stage
           /\ exec'[e].fence = r.fence
           /\ exec'[e].frozen = r.frozen
           /\ exec'[e].listed = <<>>
           /\ exec'[e].chunk = 0
<1>1. exec[e] \in Memory
  OBVIOUS
<1>2. r.stage \in Stages /\ r.fence \in Nat /\ r.frozen \in BOOLEAN
  BY DEF RequestRow
<1>3. PICK s, n, z : s = r.stage /\ n = r.fence /\ z = r.frozen
  OBVIOUS
<1> DEFINE m == [exec[e] EXCEPT !.pc = "stage", !.stage = s, !.fence = n,
                                !.frozen = z, !.listed = <<>>, !.chunk = 0]
<1>4. exec' = [exec EXCEPT ![e] = m]
  BY <1>3 DEF Reread
<1>5. /\ m \in Memory /\ m.pc = "stage" /\ m.id = exec[e].id
      /\ m.gen = exec[e].gen /\ m.stage = s /\ m.fence = n
      /\ m.frozen = z /\ m.listed = <<>> /\ m.chunk = 0
  BY <1>1, <1>2, <1>3, EmptySeq DEF Memory, ExecPcs
<1> HIDE DEF m
<1> QED
  BY <1>3, <1>4, <1>5

\* An executor that gives its claim up.
LEMMA IdleAgain ==
    ASSUME exec \in [Executors -> Memory], NEW e \in Executors,
           exec' = [exec EXCEPT ![e] = Idle]
    PROVE  /\ exec' \in [Executors -> Memory]
           /\ \A f \in Executors : f # e => exec'[f] = exec[f]
           /\ exec'[e] = Idle
BY IdleRow

\* An executor that has just claimed.
LEMMA ClaimRow ==
    ASSUME exec \in [Executors -> Memory], req \in RequestRow,
           NEW e \in Executors, Claim(e)
    PROVE  /\ exec' \in [Executors -> Memory]
           /\ \A f \in Executors : f # e => exec'[f] = exec[f]
           /\ exec'[e].pc = "stage" /\ exec'[e].id = req.id
           /\ exec'[e].gen = req.gen + 1 /\ exec'[e].stage = req.stage
           /\ exec'[e].fence = req.fence /\ exec'[e].frozen = req.frozen
           /\ exec'[e].listed = <<>> /\ exec'[e].chunk = 0
<1>1. /\ req.stage \in Stages /\ req.fence \in Nat /\ req.frozen \in BOOLEAN
      /\ req.id \in Nat /\ req.gen + 1 \in Nat
  BY DEF RequestRow
<1>2. PICK s, n, z, i, g : /\ s = req.stage /\ n = req.fence
                           /\ z = req.frozen /\ i = req.id
                           /\ g = req.gen + 1
  OBVIOUS
<1> DEFINE m == [Idle EXCEPT !.pc = "stage", !.id = i, !.gen = g,
                             !.stage = s, !.fence = n, !.frozen = z]
<1>3. exec' = [exec EXCEPT ![e] = m]
  BY <1>2 DEF Claim
<1>4. /\ m \in Memory /\ m.pc = "stage" /\ m.id = i /\ m.gen = g
      /\ m.stage = s /\ m.fence = n /\ m.frozen = z /\ m.listed = <<>>
      /\ m.chunk = 0
  BY <1>1, <1>2, IdleRow DEF Memory, ExecPcs
<1> HIDE DEF m
<1> QED
  BY <1>2, <1>3, <1>4

\* The step a stage begins with belongs to that stage.
LEMMA FirstStepRunnable ==
    ASSUME NEW s \in Runnable
    PROVE  /\ FirstStep[s] \in ExecPcs
           /\ s \in StagesAt[FirstStep[s]]
           /\ FirstStep[s] \notin {"idle", "stage", "clear", "list", "freeze",
                 "mark_drained", "deleting", "mark_cache_purged"}
BY DEF FirstStep, Runnable, ExecPcs, StagesAt

\* Which stage an executor works on at each step, and that a step that
\* passes the lease check is at the request's own stage.
LEMMA AtStage ==
    ASSUME DShape, PcInv, NEW e \in Executors
    PROVE  /\ exec[e] \in Memory
           /\ exec[e].pc \in {"quiesce", "fence"} =>
                exec[e].stage = "approved"
           /\ exec[e].pc \in {"drain", "clear", "list", "freeze",
                              "mark_drained"} => exec[e].stage = "fenced"
           /\ exec[e].pc \in {"next_chunk", "deleting"} =>
                exec[e].stage = "drained"
           /\ exec[e].pc = "purge" => exec[e].stage = "bindings_removed"
           /\ exec[e].pc \in {"purge_cache", "mark_cache_purged"} =>
                exec[e].stage = "postgres_purged"
           /\ exec[e].pc \in {"verify_rows", "verify_objects",
                              "verify_cache", "mark_verified"} =>
                exec[e].stage = "cache_purged"
           /\ exec[e].pc = "retain" => exec[e].stage = "logically_verified"
           /\ exec[e].pc # "idle" => exec[e].stage \in Runnable
           /\ Held(e) => req.stage = exec[e].stage
<1>1. exec[e] \in Memory
  BY DEF DShape
<1>2. exec[e].pc \in ExecPcs /\ exec[e].stage \in StagesAt[exec[e].pc]
  BY <1>1 DEF Memory, PcInv
<1>3. PICK p, s : p = exec[e].pc /\ s = exec[e].stage
  OBVIOUS
<1>4. p \in ExecPcs /\ s \in StagesAt[p]
  BY <1>2, <1>3
<1>5. /\ p \in {"quiesce", "fence"} => s = "approved"
      /\ p \in {"drain", "clear", "list", "freeze", "mark_drained"} =>
           s = "fenced"
      /\ p \in {"next_chunk", "deleting"} => s = "drained"
      /\ p = "purge" => s = "bindings_removed"
      /\ p \in {"purge_cache", "mark_cache_purged"} => s = "postgres_purged"
      /\ p \in {"verify_rows", "verify_objects", "verify_cache",
                "mark_verified"} => s = "cache_purged"
      /\ p = "retain" => s = "logically_verified"
      /\ p # "idle" => s \in Runnable
  BY <1>4 DEF StagesAt, ExecPcs, Runnable
<1> QED
  BY <1>1, <1>3, <1>5 DEF Held

\* What an executor that completes a stage changes in the row and in its
\* memory.
StageMoved(e, s) ==
    /\ req' \in RequestRow /\ req'.stage = s /\ req'.retries = 0
    /\ req'.id = req.id /\ req'.gen = req.gen /\ req'.owner = req.owner
    /\ req'.live = req.live /\ req'.blocked = req.blocked
    /\ req'.quiesced = req.quiesced /\ req'.before = req.before
    /\ req'.frozen = req.frozen /\ req'.manifest = req.manifest
    /\ exec' \in [Executors -> Memory]
    /\ \A f \in Executors : f # e => exec'[f] = exec[f]
    /\ exec'[e].pc = "stage"
    /\ exec'[e].id = exec[e].id /\ exec'[e].gen = exec[e].gen
    /\ exec'[e].stage = s /\ exec'[e].fence = req'.fence
    /\ exec'[e].frozen = req.frozen /\ exec'[e].listed = <<>>
    /\ exec'[e].chunk = 0

\* An advance followed by a reread is such a step.
LEMMA AdvanceMoves ==
    ASSUME DShape, NEW e \in Executors, req.stage \in Runnable,
           NEW f \in Nat, req' = Advanced(req, f), Reread(e, req')
    PROVE  StageMoved(e, StageAfter[req.stage]) /\ req'.fence = f
<1>1. req \in RequestRow /\ exec \in [Executors -> Memory]
  BY DEF DShape
<1>2. /\ req' \in RequestRow /\ req'.stage = StageAfter[req.stage]
      /\ req'.fence = f /\ req'.retries = 0
      /\ req'.id = req.id /\ req'.gen = req.gen /\ req'.owner = req.owner
      /\ req'.live = req.live /\ req'.blocked = req.blocked
      /\ req'.quiesced = req.quiesced /\ req'.before = req.before
      /\ req'.frozen = req.frozen /\ req'.manifest = req.manifest
  BY <1>1, AdvancedRow
<1>3. PICK r : r = req'
  OBVIOUS
<1>4. r \in RequestRow /\ Reread(e, r)
  BY <1>2, <1>3
<1> QED
  BY <1>1, <1>2, <1>3, <1>4, RereadRow DEF StageMoved

\* The steps that complete a stage, and where each leaves the request.
LEMMA StageCompleted ==
    ASSUME DShape, PcInv, NEW e \in Executors
    PROVE  /\ FenceUp(e) => /\ StageMoved(e, "fenced")
                            /\ req.stage = "approved"
                            /\ req'.fence = community.fence + 1
           /\ MarkDrained(e) => StageMoved(e, "drained")
                                /\ req.stage = "fenced"
           /\ MarkBindingsRemoved(e) => StageMoved(e, "bindings_removed")
                                        /\ req.stage = "drained"
           /\ PurgePostgres(e) => StageMoved(e, "postgres_purged")
                                  /\ req.stage = "bindings_removed"
           /\ MarkCachePurged(e) => StageMoved(e, "cache_purged")
                                    /\ req.stage = "postgres_purged"
           /\ MarkLogicallyVerified(e) =>
                StageMoved(e, "logically_verified")
                /\ req.stage = "cache_purged"
           /\ (\/ MarkDrained(e) \/ MarkBindingsRemoved(e)
               \/ PurgePostgres(e) \/ MarkCachePurged(e)
               \/ MarkLogicallyVerified(e)) => req'.fence = exec[e].fence
<1>1. /\ exec[e].fence \in Nat /\ community.fence + 1 \in Nat
  BY DEF DShape, Memory, CommunityRow
<1>2. FenceUp(e) => /\ StageMoved(e, "fenced") /\ req.stage = "approved"
                    /\ req'.fence = community.fence + 1
  <2> SUFFICES ASSUME FenceUp(e)
               PROVE  /\ StageMoved(e, "fenced") /\ req.stage = "approved"
                      /\ req'.fence = community.fence + 1
    OBVIOUS
  <2>1. req.stage = "approved"
    BY AtStage DEF FenceUp
  <2>2. req.stage \in Runnable /\ StageAfter[req.stage] = "fenced"
    BY <2>1 DEF Runnable, StageAfter
  <2>3. /\ req' = Advanced(req, community.fence + 1) /\ Reread(e, req')
    BY DEF FenceUp
  <2> QED
    BY <1>1, <2>1, <2>2, <2>3, AdvanceMoves
<1>3. ASSUME NEW s \in Runnable, req.stage = s,
             req' = Advanced(req, exec[e].fence), Reread(e, req')
      PROVE  StageMoved(e, StageAfter[s]) /\ req'.fence = exec[e].fence
  BY <1>1, <1>3, AdvanceMoves
<1>4. MarkDrained(e) => /\ StageMoved(e, "drained") /\ req.stage = "fenced"
                        /\ req'.fence = exec[e].fence
  <2>1. StageAfter["fenced"] = "drained" /\ "fenced" \in Runnable
    BY DEF StageAfter, Runnable
  <2> QED
    BY <2>1, <1>3, AtStage DEF MarkDrained, HeldFenced
<1>5. MarkBindingsRemoved(e) =>
        /\ StageMoved(e, "bindings_removed") /\ req.stage = "drained"
        /\ req'.fence = exec[e].fence
  <2>1. StageAfter["drained"] = "bindings_removed" /\ "drained" \in Runnable
    BY DEF StageAfter, Runnable
  <2> QED
    BY <2>1, <1>3, AtStage DEF MarkBindingsRemoved, HeldFenced
<1>6. PurgePostgres(e) =>
        /\ StageMoved(e, "postgres_purged") /\ req.stage = "bindings_removed"
        /\ req'.fence = exec[e].fence
  <2>1. /\ StageAfter["bindings_removed"] = "postgres_purged"
        /\ "bindings_removed" \in Runnable
    BY DEF StageAfter, Runnable
  <2> QED
    BY <2>1, <1>3, AtStage DEF PurgePostgres, HeldFenced
<1>7. MarkCachePurged(e) =>
        /\ StageMoved(e, "cache_purged") /\ req.stage = "postgres_purged"
        /\ req'.fence = exec[e].fence
  <2>1. /\ StageAfter["postgres_purged"] = "cache_purged"
        /\ "postgres_purged" \in Runnable
    BY DEF StageAfter, Runnable
  <2> QED
    BY <2>1, <1>3, AtStage DEF MarkCachePurged, HeldFenced
<1>8. MarkLogicallyVerified(e) =>
        /\ StageMoved(e, "logically_verified") /\ req.stage = "cache_purged"
        /\ req'.fence = exec[e].fence
  <2>1. /\ StageAfter["cache_purged"] = "logically_verified"
        /\ "cache_purged" \in Runnable
    BY DEF StageAfter, Runnable
  <2> QED
    BY <2>1, <1>3, AtStage DEF MarkLogicallyVerified, HeldFenced
<1> QED
  BY <1>2, <1>4, <1>5, <1>6, <1>7, <1>8

\* The end of the request: the lease is released with the last stage.
LEMMA RetainMoves ==
    ASSUME DShape, PcInv, NEW e \in Executors, MarkRetentionPending(e)
    PROVE  /\ req' \in RequestRow /\ req'.stage = "retention_pending"
           /\ req.stage = "logically_verified"
           /\ req'.live = FALSE /\ req'.id = req.id /\ req'.retries = 0
           /\ req'.fence = exec[e].fence
           /\ req'.quiesced = req.quiesced /\ req'.before = req.before
           /\ req'.frozen = req.frozen /\ req'.manifest = req.manifest
<1>1. req \in RequestRow /\ exec[e].fence \in Nat
  BY DEF DShape, Memory
<1>2. req.stage = "logically_verified"
  BY AtStage DEF MarkRetentionPending, HeldFenced
<1>3. req.stage \in Runnable /\ StageAfter[req.stage] = "retention_pending"
  BY <1>2 DEF Runnable, StageAfter
<1>4. PICK r : r = Advanced(req, exec[e].fence)
  OBVIOUS
<1>5. /\ r \in RequestRow /\ r.stage = "retention_pending"
      /\ r.id = req.id /\ r.retries = 0 /\ r.fence = exec[e].fence
      /\ r.quiesced = req.quiesced /\ r.before = req.before
      /\ r.frozen = req.frozen /\ r.manifest = req.manifest
  BY <1>1, <1>3, <1>4, AdvancedRow
<1>6. req' = Released(r)
  BY <1>4 DEF MarkRetentionPending
<1> QED
  BY <1>2, <1>5, <1>6, ReleasedRow

\* A step that touches no more of the row than its lease, its retry streak
\* and its block.
KeptContent ==
    /\ req' \in RequestRow /\ req'.id = req.id /\ req'.stage = req.stage
    /\ req'.fence = req.fence /\ req'.quiesced = req.quiesced
    /\ req'.before = req.before /\ req'.frozen = req.frozen
    /\ req'.manifest = req.manifest

\* The streak that reaches the limit blocks.
StreakInv ==
    /\ req.retries <= RetryLimit
    /\ ~req.blocked => req.retries < RetryLimit

\* The steps that end a lease.
LEMMA LeaseEnds ==
    ASSUME DShape, PcInv, LeaseInv,
           \/ Unblock \/ BlockPreclaim \/ HeartbeatsMissed \/ LeaseRunsOut
           \/ \E e \in Executors : RecordRetry(e) \/ Block(e)
    PROVE  KeptContent /\ ~req'.live /\ StreakInv'
<1>1. req \in RequestRow /\ RetryLimit \in Nat \ {0} /\ StreakInv
  BY DeletionAssumption DEF DShape, LeaseInv, StreakInv
<1>2. CASE Unblock
  <2>1. req' = [Released(req) EXCEPT !.blocked = FALSE, !.retries = 0,
                                     !.retryStage = "none"]
    BY <1>2 DEF Unblock
  <2>2. KeptContent /\ req'.live = FALSE /\ req'.retries = 0
    BY <1>1, <2>1, UnblockedRow DEF KeptContent
  <2> QED
    BY <1>1, <2>2 DEF StreakInv
<1>3. CASE BlockPreclaim
  <2>1. \A t \in BOOLEAN :
          LET b == [req EXCEPT !.blocked = t]
          IN  /\ b \in RequestRow /\ b.live = req.live /\ b.blocked = t
              /\ b.stage = req.stage /\ b.fence = req.fence
              /\ b.retries = req.retries /\ b.id = req.id
              /\ b.quiesced = req.quiesced /\ b.before = req.before
              /\ b.frozen = req.frozen /\ b.manifest = req.manifest
    BY <1>1 DEF RequestRow
  <2>2. req' = [req EXCEPT !.blocked = TRUE] /\ ~req.live
    BY <1>3 DEF BlockPreclaim
  <2>3. KeptContent /\ ~req'.live /\ req'.blocked /\ req'.retries = req.retries
    BY <2>1, <2>2, Zenon DEF KeptContent
  <2> QED
    BY <1>1, <2>3 DEF StreakInv
<1>4. CASE HeartbeatsMissed \/ LeaseRunsOut
  <2>1. req' = [req EXCEPT !.live = FALSE]
    BY <1>4 DEF HeartbeatsMissed, LeaseRunsOut
  <2>2. /\ KeptContent /\ req'.live = FALSE /\ req'.blocked = req.blocked
        /\ req'.retries = req.retries
    BY <1>1, <2>1 DEF RequestRow, KeptContent
  <2> QED
    BY <1>1, <2>2 DEF StreakInv
<1>5. CASE \E e \in Executors : RecordRetry(e)
  <2>1. PICK e \in Executors : RecordRetry(e)
    BY <1>5
  <2>2. req' = Retried(req) /\ Held(e) /\ exec[e].pc # "idle"
    BY <2>1 DEF RecordRetry
  <2>3. req.stage \in Runnable /\ ~req.blocked
    BY <2>2, AtStage DEF Held
  <2>4. req.retries < RetryLimit
    BY <1>1, <2>3 DEF StreakInv
  <2> QED
    BY <1>1, <2>2, <2>3, <2>4, RetriedRow DEF KeptContent, StreakInv
<1>6. CASE \E e \in Executors : Block(e)
  <2>1. req' = [Released(req) EXCEPT !.blocked = TRUE]
    BY <1>6 DEF Block
  <2>2. /\ KeptContent /\ req'.live = FALSE /\ req'.blocked
        /\ req'.retries = req.retries
    BY <1>1, <2>1, BlockedRow DEF KeptContent
  <2> QED
    BY <1>1, <2>2 DEF StreakInv
<1> QED
  BY <1>2, <1>3, <1>4, <1>5, <1>6

\* A stopping executor ends its own lease or none.
LEMMA StopMoves ==
    ASSUME DShape, LeaseInv, NEW e \in Executors, StopExecutor(e)
    PROVE  /\ KeptContent /\ StreakInv'
           /\ req' # req => ~req'.live
           /\ req' # req => req.owner = e
<1>1. req \in RequestRow /\ StreakInv
  BY DEF DShape, LeaseInv, StreakInv
<1>2. \/ req' = req
      \/ req' = Released(req) /\ req.owner = e
  BY DEF StopExecutor
<1>3. CASE req' = req
  BY <1>1, <1>3 DEF KeptContent, StreakInv
<1>4. CASE req' = Released(req) /\ req.owner = e
  <2>1. /\ KeptContent /\ req'.live = FALSE /\ req'.retries = req.retries
        /\ req'.blocked = req.blocked
    BY <1>1, <1>4, ReleasedRow DEF KeptContent
  <2> QED
    BY <1>1, <1>4, <2>1 DEF StreakInv
<1> QED
  BY <1>2, <1>3, <1>4

\* A claim takes the lease of a request under way.
LEMMA ClaimMoves ==
    ASSUME DShape, LeaseInv, NEW e \in Executors, Claim(e)
    PROVE  /\ KeptContent /\ StreakInv' /\ req'.owner = e /\ req'.live
           /\ req'.gen = req.gen + 1 /\ req.stage \in Runnable
<1>1. req \in RequestRow /\ StreakInv
  BY DEF DShape, LeaseInv, StreakInv
<1>2. req' = [req EXCEPT !.owner = e, !.gen = @ + 1, !.live = TRUE]
  BY DEF Claim
<1>3. /\ KeptContent /\ req'.owner = e /\ req'.live
      /\ req'.gen = req.gen + 1 /\ req'.retries = req.retries
      /\ req'.blocked = req.blocked
  BY <1>1, <1>2, ClaimedRow DEF KeptContent
<1> QED
  BY <1>1, <1>3 DEF StreakInv, Claim

\* A step that leaves the lease, the streak and the block alone.
SameLease ==
    /\ req'.id = req.id /\ req'.gen = req.gen /\ req'.owner = req.owner
    /\ req'.live = req.live /\ req'.blocked = req.blocked
    /\ req'.retries = req.retries

\* The operator's steps on the row.
LEMMA OperatorMoves ==
    ASSUME DShape
    PROVE  /\ Submit =>
                /\ req' \in RequestRow /\ req'.id = req.id + 1
                /\ req'.stage = "submitted" /\ ~req'.live
                /\ req'.fence = 0 /\ req'.retries = 0
                /\ ~req'.quiesced /\ ~req'.frozen
           /\ FreezeInventory \/ Approve =>
                /\ req' \in RequestRow /\ SameLease
                /\ req'.stage =
                     IF req.stage = "submitted" THEN "inventoried"
                     ELSE "approved"
                /\ req.stage \in {"submitted", "inventoried"}
                /\ req'.fence = req.fence /\ req'.quiesced = req.quiesced
                /\ req'.before = req.before /\ req'.frozen = req.frozen
                /\ req'.manifest = req.manifest
           /\ Abort =>
                /\ req' \in RequestRow /\ req'.id = req.id
                /\ req'.stage = "aborted" /\ ~req'.live
                /\ req'.fence = community.fence + 1 /\ req'.retries = 0
                /\ req'.quiesced = req.quiesced /\ req'.before = req.before
                /\ req'.frozen = req.frozen /\ req'.manifest = req.manifest
<1>1. req \in RequestRow /\ req.id + 1 \in Nat /\ community.fence + 1 \in Nat
  BY DEF DShape, RequestRow, CommunityRow
<1>2. CASE Submit
  BY <1>1, <1>2, NewRow DEF Submit, FreezeInventory, Approve, Abort, Abortable
<1>3. CASE FreezeInventory
  <2>1. req.stage = "submitted"
        /\ req' = [req EXCEPT !.stage = "inventoried"]
    BY <1>3 DEF FreezeInventory
  <2> QED
    BY <1>1, <2>1 DEF RequestRow, Stages, SameLease, Submit, Abort, Abortable
<1>4. CASE Approve
  <2>1. req.stage = "inventoried"
        /\ req' = [req EXCEPT !.stage = "approved"]
    BY <1>4 DEF Approve
  <2> QED
    BY <1>1, <2>1
    DEF RequestRow, Stages, Runnable, SameLease, Submit, Abort, Abortable
<1>5. CASE Abort
  <2>1. req.stage \in {"approved", "fenced"}
    BY <1>5 DEF Abort, Abortable
  <2>2. req' = [Released(req) EXCEPT !.stage = "aborted", !.gen = @ + 1,
                                     !.fence = community.fence + 1,
                                     !.blocked = FALSE, !.retries = 0,
                                     !.retryStage = "none"]
    BY <1>5 DEF Abort
  <2>3. /\ req' \in RequestRow /\ req'.live = FALSE
        /\ req'.stage = "aborted" /\ req'.fence = community.fence + 1
        /\ req'.retries = 0 /\ req'.id = req.id
        /\ req'.quiesced = req.quiesced /\ req'.before = req.before
        /\ req'.frozen = req.frozen /\ req'.manifest = req.manifest
    BY <1>1, <2>2, AbortedRow
  <2> QED
    BY <2>1, <2>3 DEF Submit, FreezeInventory, Approve
<1> QED
  BY <1>2, <1>3, <1>4, <1>5

\* Quiescing records the archived flag it found, once.
LEMMA QuiesceMoves ==
    ASSUME DShape, PcInv, NEW e \in Executors, BeginQuiescing(e)
    PROVE  /\ req' \in RequestRow /\ SameLease /\ req'.stage = req.stage
           /\ req.stage = "approved"
           /\ req'.fence = req.fence /\ req'.quiesced
           /\ req'.before = (IF req.quiesced THEN req.before
                             ELSE community.archived)
           /\ req'.frozen = req.frozen /\ req'.manifest = req.manifest
           /\ community' \in CommunityRow
           /\ community'.state = "quiescing"
           /\ community'.fence = community.fence
<1>1. /\ req \in RequestRow /\ community \in CommunityRow
      /\ community.archived \in BOOLEAN
  BY DEF DShape, CommunityRow
<1>2. req.stage = "approved"
  BY AtStage DEF BeginQuiescing
<1>3. \A q, a \in BOOLEAN :
        LET b == [req EXCEPT !.quiesced = q, !.before = a]
        IN  /\ b \in RequestRow /\ b.stage = req.stage
            /\ b.fence = req.fence /\ b.quiesced = q /\ b.before = a
            /\ b.frozen = req.frozen /\ b.manifest = req.manifest
            /\ b.id = req.id /\ b.gen = req.gen /\ b.owner = req.owner
            /\ b.live = req.live /\ b.blocked = req.blocked
            /\ b.retries = req.retries
  BY <1>1 DEF RequestRow
<1>4. req' = IF req.quiesced THEN req
             ELSE [req EXCEPT !.quiesced = TRUE, !.before = community.archived]
  BY DEF BeginQuiescing
<1>5. /\ req' \in RequestRow /\ SameLease /\ req'.stage = req.stage
      /\ req'.fence = req.fence /\ req'.quiesced
      /\ req'.before = (IF req.quiesced THEN req.before
                        ELSE community.archived)
      /\ req'.frozen = req.frozen /\ req'.manifest = req.manifest
  <2>1. CASE req.quiesced
    BY <1>1, <1>4, <2>1 DEF SameLease
  <2>2. CASE ~req.quiesced
    <3>1. req' = [req EXCEPT !.quiesced = TRUE,
                             !.before = community.archived]
      BY <1>4, <2>2
    <3> QED
      BY <1>1, <1>3, <2>2, <3>1, Zenon DEF SameLease
  <2> QED
    BY <2>1, <2>2
<1>6. \A a \in BOOLEAN :
        LET c == [community EXCEPT !.state = "quiescing", !.archived = a]
        IN  /\ c \in CommunityRow /\ c.state = "quiescing"
            /\ c.fence = community.fence
  BY <1>1 DEF CommunityRow
<1>7. community' = [community EXCEPT !.state = "quiescing",
                                     !.archived = TRUE]
  BY DEF BeginQuiescing
<1>8. /\ community' \in CommunityRow /\ community'.state = "quiescing"
      /\ community'.fence = community.fence
  BY <1>6, <1>7
<1> QED
  BY <1>2, <1>5, <1>8

\* Freezing stores the listing as the manifest.
LEMMA FreezeMoves ==
    ASSUME DShape, PcInv, NEW e \in Executors, FreezeManifest(e)
    PROVE  /\ req' \in RequestRow /\ SameLease /\ req'.stage = req.stage
           /\ req.stage = "fenced"
           /\ req'.fence = req.fence /\ req'.quiesced = req.quiesced
           /\ req'.before = req.before
           /\ req'.frozen /\ req'.manifest = exec[e].listed
<1>1. req \in RequestRow /\ exec[e].listed \in Seq(Keys)
  BY DEF DShape, Memory
<1>2. req.stage = "fenced"
  BY AtStage DEF FreezeManifest, HeldFenced
<1>3. \A q \in BOOLEAN, s \in Seq(Keys) :
        LET b == [req EXCEPT !.frozen = q, !.manifest = s]
        IN  /\ b \in RequestRow /\ b.stage = req.stage
            /\ b.fence = req.fence /\ b.quiesced = req.quiesced
            /\ b.before = req.before /\ b.frozen = q /\ b.manifest = s
            /\ b.id = req.id /\ b.gen = req.gen /\ b.owner = req.owner
            /\ b.live = req.live /\ b.blocked = req.blocked
            /\ b.retries = req.retries
  BY <1>1 DEF RequestRow
<1>4. req' = [req EXCEPT !.frozen = TRUE, !.manifest = exec[e].listed]
  BY DEF FreezeManifest
<1> QED
  BY <1>1, <1>2, <1>3, <1>4, Zenon DEF SameLease

-----------------------------------------------------------------------------
(***************************************************************************)
(* The steps keep the shapes.                                              *)
(***************************************************************************)
\* Steps that only move an executor on.
OnlyGoes(e) ==
    \/ BeginStage(e) \/ BeginQuiescing(e) \/ CheckDrained(e)
    \/ ClearChunks(e) \/ EndListing(e) \/ FreezeManifest(e)
    \/ MarkChunkDeleted(e) \/ PurgeCache(e) \/ VerifyRows(e)
    \/ VerifyObjects(e) \/ VerifyCache(e)

\* Steps after which an executor holds no claim.
GivesUp(e) ==
    \/ LeaseLost(e) \/ RecordRetry(e) \/ Block(e) \/ StopExecutor(e)
    \/ Crash(e) \/ MarkRetentionPending(e)

\* Steps that complete a stage and go on.
Completes(e) ==
    \/ FenceUp(e) \/ MarkDrained(e) \/ MarkBindingsRemoved(e)
    \/ PurgePostgres(e) \/ MarkCachePurged(e) \/ MarkLogicallyVerified(e)

\* The kinds of steps an executor takes.
LEMMA ExecutorKinds ==
    ASSUME NEW e \in Executors, ExecutorStep(e) \/ ExecutorFault(e)
    PROVE  \/ OnlyGoes(e) \/ GivesUp(e) \/ Completes(e)
           \/ Claim(e) \/ ListChunk(e) \/ SendDelete(e)
BY DEF ExecutorStep, ExecutorFault, OnlyGoes, GivesUp, Completes

\* Where the steps that only move an executor on take it.
LEMMA GoesTo ==
    ASSUME DShape, PcInv, NEW e \in Executors, OnlyGoes(e)
    PROVE  \E p \in ExecPcs \ {"idle", "stage"} :
             Goto(e, p) /\ exec[e].stage \in StagesAt[p]
<1>0. exec[e] \in Memory
  BY DEF DShape
<1>1. CASE BeginStage(e)
  <2>1. exec[e].stage \in Runnable
    BY <1>1, AtStage DEF BeginStage
  <2> QED
    BY <1>1, <2>1, FirstStepRunnable DEF BeginStage
<1>2. CASE BeginQuiescing(e)
  BY <1>2, AtStage DEF BeginQuiescing, StagesAt, ExecPcs
<1>3. CASE CheckDrained(e)
  BY <1>3, AtStage DEF CheckDrained, StagesAt, ExecPcs
<1>4. CASE ClearChunks(e) \/ EndListing(e) \/ FreezeManifest(e)
  BY <1>4, AtStage DEF ClearChunks, EndListing, FreezeManifest, StagesAt, ExecPcs
<1>5. CASE MarkChunkDeleted(e) \/ PurgeCache(e)
  BY <1>5, AtStage DEF MarkChunkDeleted, PurgeCache, StagesAt, ExecPcs
<1>6. CASE VerifyRows(e) \/ VerifyObjects(e) \/ VerifyCache(e)
  BY <1>6, AtStage DEF VerifyRows, VerifyObjects, VerifyCache, StagesAt, ExecPcs
<1> QED
  BY <1>1, <1>2, <1>3, <1>4, <1>5, <1>6 DEF OnlyGoes

\* A page of the listing, as the executor remembers it.
LEMMA ListRow ==
    ASSUME DShape, PcInv, NEW e \in Executors, ListChunk(e)
    PROVE  \E k \in Unlisted(e) :
             /\ k \in Keys /\ \A j \in Unlisted(e) : k <= j
             /\ chunks' = Append(chunks, [key |-> k, deleted |-> FALSE])
             /\ exec' \in [Executors -> Memory]
             /\ \A f \in Executors : f # e => exec'[f] = exec[f]
             /\ exec'[e].listed = Append(exec[e].listed, k)
             /\ exec'[e].pc = "list"
             /\ exec'[e].id = exec[e].id /\ exec'[e].gen = exec[e].gen
             /\ exec'[e].stage = exec[e].stage
             /\ exec'[e].fence = exec[e].fence
             /\ exec'[e].frozen = exec[e].frozen
             /\ exec'[e].chunk = exec[e].chunk
<1>1. PICK k \in Unlisted(e) :
        /\ \A j \in Unlisted(e) : k <= j
        /\ chunks' = Append(chunks, [key |-> k, deleted |-> FALSE])
        /\ exec' = [exec EXCEPT ![e].listed = Append(@, k)]
  BY DEF ListChunk
<1>2. k \in Keys
  BY DEF Unlisted, DShape
<1>3. exec[e] \in Memory /\ exec[e].pc = "list"
  BY DEF DShape, ListChunk
<1>4. PICK s : s = Append(exec[e].listed, k)
  OBVIOUS
<1>5. s \in Seq(Keys)
  BY <1>2, <1>3, <1>4 DEF Memory
<1>6. exec' = [exec EXCEPT ![e].listed = s]
  BY <1>1, <1>4
<1>7. /\ exec' \in [Executors -> Memory]
      /\ \A f \in Executors : f # e => exec'[f] = exec[f]
      /\ exec'[e].listed = s
      /\ exec'[e].pc = exec[e].pc
      /\ exec'[e].id = exec[e].id /\ exec'[e].gen = exec[e].gen
      /\ exec'[e].stage = exec[e].stage
      /\ exec'[e].fence = exec[e].fence
      /\ exec'[e].frozen = exec[e].frozen
      /\ exec'[e].chunk = exec[e].chunk
  BY <1>3, <1>5, <1>6 DEF DShape, Memory
<1> QED
  BY <1>1, <1>2, <1>3, <1>4, <1>7

\* A bulk delete, as the executor remembers it.
LEMMA SendRow ==
    ASSUME DShape, PcInv, NEW e \in Executors, SendDelete(e)
    PROVE  \E i \in 1..Len(chunks) :
             /\ deletes' = deletes \cup {chunks[i].key}
             /\ exec' \in [Executors -> Memory]
             /\ \A f \in Executors : f # e => exec'[f] = exec[f]
             /\ exec'[e].pc = "deleting" /\ exec'[e].chunk = i
             /\ exec'[e].id = exec[e].id /\ exec'[e].gen = exec[e].gen
             /\ exec'[e].stage = exec[e].stage
             /\ exec'[e].fence = exec[e].fence
             /\ exec'[e].frozen = exec[e].frozen
             /\ exec'[e].listed = exec[e].listed
<1>1. PICK i \in Pending :
        /\ exec' = [exec EXCEPT ![e].pc = "deleting", ![e].chunk = i]
        /\ deletes' = deletes \cup {chunks[i].key}
  BY DEF SendDelete
<1>2. i \in 1..Len(chunks) /\ Len(chunks) \in Nat
  BY DEF Pending, DShape
<1>3. i \in Nat /\ exec[e] \in Memory /\ "deleting" \in ExecPcs
  BY <1>2 DEF DShape, ExecPcs
<1>4. /\ exec' \in [Executors -> Memory]
      /\ \A f \in Executors : f # e => exec'[f] = exec[f]
      /\ exec'[e].pc = "deleting" /\ exec'[e].chunk = i
      /\ exec'[e].id = exec[e].id /\ exec'[e].gen = exec[e].gen
      /\ exec'[e].stage = exec[e].stage
      /\ exec'[e].fence = exec[e].fence
      /\ exec'[e].frozen = exec[e].frozen
      /\ exec'[e].listed = exec[e].listed
  BY <1>1, <1>3 DEF DShape, Memory
<1> QED
  BY <1>1, <1>2, <1>4

\* An executor changes nobody else's memory.
LEMMA ExecutorShape ==
    ASSUME DShape, PcInv, NEW e \in Executors,
           ExecutorStep(e) \/ ExecutorFault(e)
    PROVE  /\ exec' \in [Executors -> Memory]
           /\ \A f \in Executors : f # e => exec'[f] = exec[f]
<1>1. exec \in [Executors -> Memory] /\ req \in RequestRow
  BY DEF DShape
<1>2. CASE OnlyGoes(e)
  BY <1>1, <1>2, GoesTo, GotoRow
<1>3. CASE GivesUp(e)
  <2>1. exec' = [exec EXCEPT ![e] = Idle]
    BY <1>3 DEF GivesUp, LeaseLost, RecordRetry, Block, StopExecutor, Crash,
                MarkRetentionPending
  <2> QED
    BY <1>1, <2>1, IdleAgain
<1>4. CASE Completes(e)
  BY <1>4, StageCompleted DEF Completes, StageMoved
<1>5. CASE Claim(e)
  BY <1>1, <1>5, ClaimRow
<1>6. CASE ListChunk(e)
  BY <1>6, ListRow
<1>7. CASE SendDelete(e)
  BY <1>7, SendRow
<1> QED
  BY <1>2, <1>3, <1>4, <1>5, <1>6, <1>7, ExecutorKinds

\* The steps that leave the request and the community alone.
RowsKept == req' = req /\ community' = community

\* What can happen to the request and the community in one step.
LEMMA RequestMoves ==
    ASSUME DNext
    PROVE  \/ RowsKept
           \/ Submit \/ FreezeInventory \/ Approve \/ Abort
           \/ /\ community' = community
              /\ \/ Unblock \/ BlockPreclaim \/ HeartbeatsMissed
                 \/ LeaseRunsOut
                 \/ \E e \in Executors : RecordRetry(e) \/ Block(e)
           \/ /\ community' = community
              /\ \E e \in Executors :
                   \/ Claim(e) \/ StopExecutor(e) \/ FreezeManifest(e)
                   \/ MarkDrained(e) \/ MarkBindingsRemoved(e)
                   \/ MarkCachePurged(e) \/ MarkLogicallyVerified(e)
                   \/ MarkRetentionPending(e)
           \/ \E e \in Executors :
                BeginQuiescing(e) \/ FenceUp(e) \/ PurgePostgres(e)
<1>1. CASE Operator
  BY <1>1 DEF Operator, Unblock, BlockPreclaim
<1>2. CASE HeartbeatsMissed \/ LeaseRunsOut
  BY <1>2 DEF HeartbeatsMissed, LeaseRunsOut
<1>3. CASE \E k \in Keys : DeleteLands(k)
  BY <1>3 DEF DeleteLands, RowsKept
<1>4. CASE \E w \in Writers : ServingStep(w) \/ ServingFault(w)
  <2>1. PICK w \in Writers : ServingStep(w) \/ ServingFault(w)
    BY <1>4
  <2> QED
    BY <2>1 DEF ServingStep, ServingFault, AcquireServing, SendEffect,
                EffectLands, RecordRow, FinishServing, AbandonServing,
                DropServing, ServingExpires, EffectVanishes, RowsKept
<1>5. CASE \E e \in Executors : ExecutorStep(e) \/ ExecutorFault(e)
  <2>1. PICK e \in Executors : ExecutorStep(e) \/ ExecutorFault(e)
    BY <1>5
  <2>2. CASE \/ BeginStage(e) \/ CheckDrained(e) \/ ClearChunks(e)
             \/ EndListing(e) \/ MarkChunkDeleted(e) \/ PurgeCache(e)
             \/ VerifyRows(e) \/ VerifyObjects(e) \/ VerifyCache(e)
             \/ ListChunk(e) \/ SendDelete(e) \/ LeaseLost(e) \/ Crash(e)
    BY <2>2 DEF BeginStage, CheckDrained, ClearChunks, EndListing,
                MarkChunkDeleted, PurgeCache, VerifyRows, VerifyObjects,
                VerifyCache, ListChunk, SendDelete, LeaseLost, Crash,
                RowsKept
  <2>3. CASE \/ Claim(e) \/ StopExecutor(e) \/ FreezeManifest(e)
             \/ MarkDrained(e) \/ MarkBindingsRemoved(e)
             \/ MarkCachePurged(e) \/ MarkLogicallyVerified(e)
             \/ MarkRetentionPending(e) \/ RecordRetry(e) \/ Block(e)
    <3>1. community' = community
      BY <2>3 DEF Claim, StopExecutor, FreezeManifest, MarkDrained,
                  MarkBindingsRemoved, MarkCachePurged,
                  MarkLogicallyVerified, MarkRetentionPending, RecordRetry,
                  Block
    <3> QED
      BY <2>3, <3>1
  <2>4. CASE BeginQuiescing(e) \/ FenceUp(e) \/ PurgePostgres(e)
    BY <2>4
  <2> QED
    BY <2>1, <2>2, <2>3, <2>4 DEF ExecutorStep, ExecutorFault
<1> QED
  BY <1>1, <1>2, <1>3, <1>4, <1>5 DEF DNext

\* The rows keep their shape.
LEMMA RowsShape ==
    ASSUME DShape, PcInv, LeaseInv, DNext
    PROVE  req' \in RequestRow /\ community' \in CommunityRow
<1>1. req \in RequestRow /\ community \in CommunityRow
  BY DEF DShape
<1>2. CASE RowsKept
  BY <1>1, <1>2 DEF RowsKept
<1>3. CASE Submit \/ FreezeInventory \/ Approve
  BY <1>1, <1>3, OperatorMoves DEF Submit, FreezeInventory, Approve
<1>4. CASE Abort
  <2>1. ArchivedBefore \in BOOLEAN /\ community.fence + 1 \in Nat
    BY <1>1 DEF ArchivedBefore, RequestRow, CommunityRow
  <2>2. community' = [state |-> "active", fence |-> community.fence + 1,
                      archived |-> ArchivedBefore]
    BY <1>4 DEF Abort
  <2> QED
    BY <2>1, <2>2, <1>4, OperatorMoves DEF CommunityRow
<1>5. CASE /\ community' = community
           /\ \/ Unblock \/ BlockPreclaim \/ HeartbeatsMissed \/ LeaseRunsOut
              \/ \E e \in Executors : RecordRetry(e) \/ Block(e)
  BY <1>1, <1>5, LeaseEnds DEF KeptContent
<1>6. CASE /\ community' = community
           /\ \E e \in Executors :
                \/ Claim(e) \/ StopExecutor(e) \/ FreezeManifest(e)
                \/ MarkDrained(e) \/ MarkBindingsRemoved(e)
                \/ MarkCachePurged(e) \/ MarkLogicallyVerified(e)
                \/ MarkRetentionPending(e)
  BY <1>1, <1>6, ClaimMoves, StopMoves, FreezeMoves, StageCompleted,
     RetainMoves DEF KeptContent, StageMoved
<1>7. CASE \E e \in Executors : BeginQuiescing(e)
  BY <1>7, QuiesceMoves
<1>8. CASE \E e \in Executors : FenceUp(e) \/ PurgePostgres(e)
  <2>1. PICK e \in Executors : FenceUp(e) \/ PurgePostgres(e)
    BY <1>8
  <2>2. req' \in RequestRow
    BY <2>1, StageCompleted DEF StageMoved
  <2>3. community' \in CommunityRow
    <3>1. CASE FenceUp(e)
      BY <1>1, <3>1 DEF FenceUp, CommunityRow
    <3>2. CASE PurgePostgres(e)
      <4>1. community' = [community EXCEPT !.state = "tombstone",
                                           !.archived = TRUE]
        BY <3>2 DEF PurgePostgres
      <4> QED
        BY <1>1, <4>1 DEF CommunityRow
    <3> QED
      BY <2>1, <3>1, <3>2
  <2> QED
    BY <2>2, <2>3
<1> QED
  BY <1>2, <1>3, <1>4, <1>5, <1>6, <1>7, <1>8, RequestMoves

\* What can happen to the stored list in one step.
LEMMA ChunkMoves ==
    ASSUME DNext
    PROVE  \/ chunks' = chunks
           \/ Submit
           \/ \E e \in Executors :
                \/ ClearChunks(e) \/ ListChunk(e) \/ MarkChunkDeleted(e)
                \/ MarkLogicallyVerified(e)
<1>1. CASE Operator \/ HeartbeatsMissed \/ LeaseRunsOut
  BY <1>1 DEF Operator, FreezeInventory, Approve, Abort, Unblock,
              BlockPreclaim, HeartbeatsMissed, LeaseRunsOut
<1>2. CASE \E k \in Keys : DeleteLands(k)
  BY <1>2 DEF DeleteLands
<1>3. CASE \E w \in Writers : ServingStep(w) \/ ServingFault(w)
  <2>1. PICK w \in Writers : ServingStep(w) \/ ServingFault(w)
    BY <1>3
  <2> QED
    BY <2>1 DEF ServingStep, ServingFault, AcquireServing, SendEffect,
                EffectLands, RecordRow, FinishServing, AbandonServing,
                DropServing, ServingExpires, EffectVanishes
<1>4. CASE \E e \in Executors : ExecutorStep(e) \/ ExecutorFault(e)
  <2>1. PICK e \in Executors : ExecutorStep(e) \/ ExecutorFault(e)
    BY <1>4
  <2> QED
    BY <2>1 DEF ExecutorStep, ExecutorFault, Claim, BeginStage, LeaseLost,
         BeginQuiescing, FenceUp, CheckDrained, EndListing, FreezeManifest,
         MarkDrained, SendDelete, MarkBindingsRemoved, PurgePostgres,
         PurgeCache, MarkCachePurged, VerifyRows, VerifyObjects, VerifyCache,
         MarkRetentionPending, RecordRetry, Block, StopExecutor, Crash
<1> QED
  BY <1>1, <1>2, <1>3, <1>4 DEF DNext

\* Stamping a chunk keeps the list, its keys and every other stamp.
LEMMA StampKeeps ==
    ASSUME NEW s \in Seq(ChunkRow), NEW n \in 1..Len(s), NEW t,
           t = [s EXCEPT ![n].deleted = TRUE]
    PROVE  /\ t \in Seq(ChunkRow) /\ Len(t) = Len(s)
           /\ \A i \in 1..Len(s) : t[i].key = s[i].key
           /\ \A i \in 1..Len(s) : i # n => t[i] = s[i]
<1>1. \A b \in BOOLEAN : [s[n] EXCEPT !.deleted = b] \in ChunkRow
                         /\ [s[n] EXCEPT !.deleted = b].key = s[n].key
  <2>1. s[n] \in ChunkRow
    OBVIOUS
  <2> QED
    BY <2>1 DEF ChunkRow
<1>2. PICK c : c = [s[n] EXCEPT !.deleted = TRUE]
  OBVIOUS
<1>3. c \in ChunkRow /\ c.key = s[n].key
  BY <1>1, <1>2
<1>4. t = [s EXCEPT ![n] = c]
  BY <1>2
<1>5. DOMAIN s = 1..Len(s) /\ Len(s) \in Nat
  OBVIOUS
<1>6. t \in Seq(ChunkRow) /\ Len(t) = Len(s)
  <2>0. s \in [1..Len(s) -> ChunkRow]
    BY <1>5
  <2>1. t \in [1..Len(s) -> ChunkRow]
    BY <2>0, <1>3, <1>4
  <2> QED
    BY <1>5, <2>1
<1> QED
  BY <1>3, <1>4, <1>5, <1>6

\* The stored list keeps its shape.
LEMMA ChunksShape ==
    ASSUME DShape, PcInv, HolderInv, DNext
    PROVE  chunks' \in Seq(ChunkRow)
<1>1. chunks \in Seq(ChunkRow)
  BY DEF DShape
<1>2. <<>> \in Seq(ChunkRow)
  OBVIOUS
<1>3. ASSUME NEW e \in Executors, ListChunk(e) PROVE chunks' \in Seq(ChunkRow)
  <2>1. PICK k \in Keys :
          chunks' = Append(chunks, [key |-> k, deleted |-> FALSE])
    BY <1>3, ListRow
  <2>2. [key |-> k, deleted |-> FALSE] \in ChunkRow
    BY DEF ChunkRow
  <2> QED
    BY <1>1, <2>1, <2>2
<1>4. ASSUME NEW e \in Executors, MarkChunkDeleted(e)
      PROVE  chunks' \in Seq(ChunkRow)
  <2>1. exec[e].chunk \in 1..Len(chunks)
    BY <1>4 DEF MarkChunkDeleted, HolderInv, HeldFenced, Knows
  <2>2. chunks' = [chunks EXCEPT ![exec[e].chunk].deleted = TRUE]
    BY <1>4 DEF MarkChunkDeleted
  <2> QED
    BY <1>1, <2>1, <2>2, StampKeeps
<1> QED
  BY <1>1, <1>2, <1>3, <1>4, ChunkMoves
  DEF Submit, ClearChunks, MarkLogicallyVerified

\* The kinds of steps seen from the stores: most touch none of them and no
\* serving lease.
LEMMA StoreMoves ==
    ASSUME DNext
    PROVE  \/ UNCHANGED <<serving, stores>>
           \/ \E e \in Executors :
                SendDelete(e) \/ PurgePostgres(e) \/ PurgeCache(e)
           \/ \E k \in Keys : DeleteLands(k)
           \/ \E w \in Writers : ServingStep(w) \/ ServingFault(w)
<1>1. CASE Operator \/ HeartbeatsMissed \/ LeaseRunsOut
  BY <1>1 DEF Operator, Submit, FreezeInventory, Approve, Abort, Unblock,
              BlockPreclaim, HeartbeatsMissed, LeaseRunsOut
<1>2. CASE \E e \in Executors : ExecutorStep(e) \/ ExecutorFault(e)
  <2>1. PICK e \in Executors : ExecutorStep(e) \/ ExecutorFault(e)
    BY <1>2
  <2>2. \/ UNCHANGED <<serving, stores>>
        \/ SendDelete(e) \/ PurgePostgres(e) \/ PurgeCache(e)
    BY <2>1 DEF ExecutorStep, ExecutorFault, Claim, BeginStage, LeaseLost,
         BeginQuiescing, FenceUp, CheckDrained, ClearChunks, ListChunk,
         EndListing, FreezeManifest, MarkDrained, MarkChunkDeleted,
         MarkBindingsRemoved, MarkCachePurged, VerifyRows, VerifyObjects,
         VerifyCache, MarkLogicallyVerified, MarkRetentionPending,
         RecordRetry, Block, StopExecutor, Crash
  <2> QED
    BY <2>2
<1> QED
  BY <1>1, <1>2 DEF DNext

\* A serving write's steps keep the shape of the leases and of the stores.
LEMMA ServingShape ==
    ASSUME DShape, NEW w \in Writers, ServingStep(w) \/ ServingFault(w)
    PROVE  /\ serving' \in [Writers -> Lease]
           /\ objects' \subseteq Keys /\ deletes' \subseteq Keys
           /\ cache' \subseteq Writers /\ rows' \subseteq Keys
           /\ puts' \subseteq Writers \X Targets /\ orphans' \subseteq Writers
           /\ destroyed' \in BOOLEAN
<1>1. /\ serving \in [Writers -> Lease] /\ serving[w] \in Lease
      /\ community.fence \in Nat /\ w \in Keys
      /\ objects \subseteq Keys /\ deletes \subseteq Keys
      /\ cache \subseteq Writers /\ rows \subseteq Keys
      /\ puts \subseteq Writers \X Targets /\ orphans \subseteq Writers
      /\ destroyed \in BOOLEAN
  BY DEF DShape, CommunityRow, Keys
<1>2. Done \in Lease /\ Orphaned(w) \subseteq Writers
  BY <1>1 DEF Done, Lease, Orphaned
<1>3. CASE AcquireServing(w)
  <2>1. [pc |-> "admitted", live |-> TRUE, fence |-> community.fence] \in Lease
    BY <1>1 DEF Lease
  <2> QED
    BY <1>1, <1>3, <2>1 DEF AcquireServing, stores
<1>4. CASE SendEffect(w)
  <2>1. serving' \in [Writers -> Lease]
    BY <1>1, <1>4 DEF SendEffect, Lease
  <2>2. PICK t \in Targets : puts' = puts \cup {<<w, t>>}
    BY <1>4 DEF SendEffect
  <2>3. puts' \subseteq Writers \X Targets
    BY <1>1, <2>2
  <2> QED
    BY <1>1, <1>4, <2>1, <2>3 DEF SendEffect
<1>5. CASE EffectLands(w)
  BY <1>1, <1>5 DEF EffectLands
<1>6. CASE RecordRow(w)
  <2>1. serving' \in [Writers -> Lease]
    BY <1>1, <1>6 DEF RecordRow, Lease
  <2> QED
    BY <1>1, <1>6, <2>1 DEF RecordRow
<1>7. CASE FinishServing(w)
  BY <1>1, <1>2, <1>7 DEF FinishServing, stores
<1>8. CASE AbandonServing(w) \/ DropServing(w)
  BY <1>1, <1>2, <1>8 DEF AbandonServing, DropServing
<1>9. CASE ServingExpires(w)
  <2>1. serving' \in [Writers -> Lease]
    BY <1>1, <1>9 DEF ServingExpires, Lease
  <2> QED
    BY <1>1, <1>2, <1>9, <2>1 DEF ServingExpires
<1>10. CASE EffectVanishes(w)
  BY <1>1, <1>10 DEF EffectVanishes
<1> QED
  BY <1>3, <1>4, <1>5, <1>6, <1>7, <1>8, <1>9, <1>10
  DEF ServingStep, ServingFault

\* Faults stay within their bound.
LEMMA FaultsBounded ==
    ASSUME faults \in 0..MaxFaults, DNext
    PROVE  faults' \in 0..MaxFaults
<1>0. MaxFaults \in Nat
  BY DeletionAssumption
<1>1. SUFFICES faults' = faults \/ (faults < MaxFaults /\ faults' = faults + 1)
  BY <1>0
<1>2. CASE Operator \/ HeartbeatsMissed \/ LeaseRunsOut
           \/ \E k \in Keys : DeleteLands(k)
  BY <1>2 DEF Operator, Submit, FreezeInventory, Approve, Abort, Unblock,
              BlockPreclaim, HeartbeatsMissed, LeaseRunsOut, DeleteLands,
              Fault
<1>3. CASE \E w \in Writers : ServingStep(w) \/ ServingFault(w)
  <2>1. PICK w \in Writers : ServingStep(w) \/ ServingFault(w)
    BY <1>3
  <2> QED
    BY <2>1 DEF ServingStep, ServingFault, AcquireServing, SendEffect,
                EffectLands, RecordRow, FinishServing, AbandonServing,
                DropServing, ServingExpires, EffectVanishes, Fault
<1>4. CASE \E e \in Executors : ExecutorStep(e) \/ ExecutorFault(e)
  <2>1. PICK e \in Executors : ExecutorStep(e) \/ ExecutorFault(e)
    BY <1>4
  <2>2. CASE Block(e)
    BY <2>2 DEF Block
  <2>3. CASE ~Block(e)
    BY <2>1, <2>3 DEF ExecutorStep, ExecutorFault, Claim, BeginStage,
         LeaseLost, BeginQuiescing, FenceUp, CheckDrained, ClearChunks,
         ListChunk, EndListing, FreezeManifest, MarkDrained, SendDelete,
         MarkChunkDeleted, MarkBindingsRemoved, PurgePostgres, PurgeCache,
         MarkCachePurged, VerifyRows, VerifyObjects, VerifyCache,
         MarkLogicallyVerified, MarkRetentionPending, RecordRetry,
         StopExecutor, Crash, Fault
  <2> QED
    BY <2>2, <2>3
<1> QED
  BY <1>2, <1>3, <1>4 DEF DNext

\* An executor's memory changes by its own steps only.
LEMMA MemoryMoves ==
    ASSUME DShape, PcInv, DNext, NEW f \in Executors
    PROVE  exec'[f] = exec[f] \/ ExecutorStep(f) \/ ExecutorFault(f)
<1>1. CASE Operator \/ HeartbeatsMissed \/ LeaseRunsOut
           \/ \E k \in Keys : DeleteLands(k)
  BY <1>1 DEF Operator, Submit, FreezeInventory, Approve, Abort,
       Unblock, BlockPreclaim, HeartbeatsMissed, LeaseRunsOut, DeleteLands
<1>2. CASE \E w \in Writers : ServingStep(w) \/ ServingFault(w)
  <2>1. PICK w \in Writers : ServingStep(w) \/ ServingFault(w)
    BY <1>2
  <2> QED
    BY <2>1 DEF ServingStep, ServingFault, AcquireServing, SendEffect,
         EffectLands, RecordRow, FinishServing, AbandonServing,
         DropServing, ServingExpires, EffectVanishes
<1>3. CASE \E e \in Executors : ExecutorStep(e) \/ ExecutorFault(e)
  BY <1>3, ExecutorShape
<1> QED
  BY <1>1, <1>2, <1>3 DEF DNext

\* A serving write's lease changes by its own steps only.
LEMMA LeaseMoves ==
    ASSUME DShape, DNext, NEW w \in Writers
    PROVE  serving'[w] = serving[w] \/ ServingStep(w) \/ ServingFault(w)
<1>0. serving \in [Writers -> Lease]
  BY DEF DShape
<1>1. CASE UNCHANGED <<serving, stores>>
  BY <1>1
<1>2. CASE \/ \E e \in Executors :
                SendDelete(e) \/ PurgePostgres(e) \/ PurgeCache(e)
           \/ \E k \in Keys : DeleteLands(k)
  BY <1>2 DEF SendDelete, PurgePostgres, PurgeCache, DeleteLands
<1>3. ASSUME NEW v \in Writers, v # w, ServingStep(v) \/ ServingFault(v)
      PROVE  serving'[w] = serving[w]
  BY <1>0, <1>3 DEF ServingStep, ServingFault, AcquireServing, SendEffect,
       EffectLands, RecordRow, FinishServing, AbandonServing,
       DropServing, ServingExpires, EffectVanishes
<1> QED
  BY <1>1, <1>2, <1>3, StoreMoves

\* A chunk holds a key, and keys are numbers.
LEMMA KeyOfChunk ==
    ASSUME DShape, NEW i \in 1..Len(chunks)
    PROVE  chunks[i] \in ChunkRow /\ chunks[i].key \in Keys
           /\ chunks[i].key \in Nat
<1>1. chunks[i] \in ChunkRow
  BY DEF DShape
<1>2. chunks[i].key \in Keys
  BY <1>1 DEF ChunkRow
<1>3. Keys \subseteq Nat
  BY DeletionAssumption DEF Keys
<1> QED
  BY <1>1, <1>2, <1>3

\* Every step keeps the shapes.
LEMMA ShapeStep ==
    ASSUME DShape, PcInv, LeaseInv, HolderInv, DNext
    PROVE  DShape'
<1>1. req' \in RequestRow /\ community' \in CommunityRow
  BY RowsShape
<1>2. chunks' \in Seq(ChunkRow)
  BY ChunksShape
<1>3. exec' \in [Executors -> Memory]
  <2>1. CASE \E e \in Executors : ExecutorStep(e) \/ ExecutorFault(e)
    BY <2>1, ExecutorShape
  <2>2. CASE Operator \/ HeartbeatsMissed \/ LeaseRunsOut
             \/ \E k \in Keys : DeleteLands(k)
    BY <2>2 DEF DShape, Operator, Submit, FreezeInventory, Approve, Abort,
         Unblock, BlockPreclaim, HeartbeatsMissed, LeaseRunsOut, DeleteLands
  <2>3. CASE \E w \in Writers : ServingStep(w) \/ ServingFault(w)
    <3>1. PICK w \in Writers : ServingStep(w) \/ ServingFault(w)
      BY <2>3
    <3>2. exec' = exec
      BY <3>1 DEF ServingStep, ServingFault, AcquireServing, SendEffect,
           EffectLands, RecordRow, FinishServing, AbandonServing,
           DropServing, ServingExpires, EffectVanishes
    <3> QED
      BY <3>2 DEF DShape
  <2> QED
    BY <2>1, <2>2, <2>3 DEF DNext
<1>4. /\ serving' \in [Writers -> Lease]
      /\ objects' \subseteq Keys /\ deletes' \subseteq Keys
      /\ cache' \subseteq Writers /\ rows' \subseteq Keys
      /\ puts' \subseteq Writers \X Targets /\ orphans' \subseteq Writers
      /\ destroyed' \in BOOLEAN
  <2>1. CASE UNCHANGED <<serving, stores>>
    BY <2>1 DEF DShape, stores
  <2>2. CASE \E e \in Executors : SendDelete(e)
    <3>1. PICK e \in Executors : SendDelete(e)
      BY <2>2
    <3>2. PICK i \in 1..Len(chunks) : deletes' = deletes \cup {chunks[i].key}
      BY <3>1, SendRow
    <3>3. chunks[i].key \in Keys
      BY KeyOfChunk
    <3> QED
      BY <3>1, <3>2, <3>3 DEF SendDelete, DShape
  <2>3. CASE \E e \in Executors : PurgePostgres(e) \/ PurgeCache(e)
    BY <2>3 DEF PurgePostgres, PurgeCache, DShape
  <2>4. CASE \E k \in Keys : DeleteLands(k)
    BY <2>4 DEF DeleteLands, DShape
  <2>5. CASE \E w \in Writers : ServingStep(w) \/ ServingFault(w)
    BY <2>5, ServingShape
  <2> QED
    BY <2>1, <2>2, <2>3, <2>4, <2>5, StoreMoves
<1>5. faults' \in 0..MaxFaults
  BY FaultsBounded DEF DShape
<1> QED
  BY <1>1, <1>2, <1>3, <1>4, <1>5 DEF DShape

-----------------------------------------------------------------------------
(***************************************************************************)
(* Steps and stages, leases, the community's state and its fence.          *)
(***************************************************************************)
\* Requests are numbered upwards, and within their bound; only a request
\* under way is leased.
LEMMA LeaseStep ==
    ASSUME DShape, PcInv, LeaseInv, DNext
    PROVE  LeaseInv' /\ req'.id >= req.id
<1>0. /\ MaxRequests \in Nat /\ RetryLimit \in Nat \ {0}
      /\ req \in RequestRow /\ req.id \in Nat /\ req.retries \in Nat
      /\ StreakInv
  BY DeletionAssumption DEF DShape, RequestRow, LeaseInv, StreakInv
<1>1. CASE RowsKept
  BY <1>0, <1>1 DEF RowsKept, LeaseInv
<1>2. CASE Submit
  <2>1. /\ req'.id = req.id + 1 /\ ~req'.live /\ req'.retries = 0
    BY <1>2, OperatorMoves
  <2>2. req.id < MaxRequests
    BY <1>2 DEF Submit
  <2> QED
    BY <1>0, <2>1, <2>2 DEF LeaseInv
<1>3. CASE FreezeInventory \/ Approve
  <2>1. SameLease /\ req.stage \in {"submitted", "inventoried"}
    BY <1>3, OperatorMoves
  <2>2. ~req.live
    BY <2>1 DEF LeaseInv, Runnable
  <2> QED
    BY <1>0, <2>1, <2>2 DEF LeaseInv, SameLease
<1>4. CASE Abort
  <2>1. /\ req'.id = req.id /\ ~req'.live /\ req'.retries = 0
    BY <1>4, OperatorMoves
  <2> QED
    BY <1>0, <2>1 DEF LeaseInv
<1>5. CASE \/ Unblock \/ BlockPreclaim \/ HeartbeatsMissed \/ LeaseRunsOut
           \/ \E e \in Executors : RecordRetry(e) \/ Block(e)
  <2>1. KeptContent /\ ~req'.live /\ StreakInv'
    BY <1>5, LeaseEnds
  <2> QED
    BY <1>0, <2>1 DEF LeaseInv, KeptContent, StreakInv
<1>6. ASSUME NEW e \in Executors,
             \/ Claim(e) \/ StopExecutor(e) \/ FreezeManifest(e)
             \/ MarkDrained(e) \/ MarkBindingsRemoved(e)
             \/ MarkCachePurged(e) \/ MarkLogicallyVerified(e)
             \/ MarkRetentionPending(e)
             \/ BeginQuiescing(e) \/ FenceUp(e) \/ PurgePostgres(e)
      PROVE  LeaseInv' /\ req'.id >= req.id
  <2>1. CASE Claim(e)
    BY <1>0, <2>1, ClaimMoves DEF LeaseInv, KeptContent, StreakInv
  <2>2. CASE StopExecutor(e)
    <3>1. KeptContent /\ StreakInv' /\ (req' # req => ~req'.live)
      BY <2>2, StopMoves
    <3> QED
      BY <1>0, <3>1 DEF LeaseInv, KeptContent, StreakInv
  <2>3. CASE FreezeManifest(e) \/ BeginQuiescing(e)
    <3>1. SameLease /\ req'.stage = req.stage
      BY <2>3, FreezeMoves, QuiesceMoves
    <3> QED
      BY <1>0, <3>1 DEF LeaseInv, SameLease
  <2>4. CASE \/ MarkDrained(e) \/ MarkBindingsRemoved(e) \/ FenceUp(e)
             \/ PurgePostgres(e) \/ MarkCachePurged(e)
             \/ MarkLogicallyVerified(e)
    <3>1. PICK s \in Runnable : StageMoved(e, s)
      BY <2>4, StageCompleted DEF Runnable
    <3> QED
      BY <1>0, <3>1 DEF LeaseInv, StageMoved
  <2>5. CASE MarkRetentionPending(e)
    <3>1. req'.live = FALSE /\ req'.id = req.id /\ req'.retries = 0
      BY <2>5, RetainMoves
    <3> QED
      BY <1>0, <3>1 DEF LeaseInv
  <2> QED
    BY <1>6, <2>1, <2>2, <2>3, <2>4, <2>5
<1> QED
  BY <1>1, <1>2, <1>3, <1>4, <1>5, <1>6, RequestMoves

\* An executor takes a step of a claim, and a listing starts empty.
LEMMA GoesFrom ==
    ASSUME DShape, NEW e \in Executors
    PROVE  /\ (OnlyGoes(e) \/ Completes(e) \/ ListChunk(e) \/ SendDelete(e))
                => exec[e].pc # "idle"
           /\ OnlyGoes(e) /\ exec'[e].pc \in {"stage", "drain", "clear"}
                => exec[e].pc \in {"stage", "drain"}
<1>1. exec \in [Executors -> Memory]
  BY DEF DShape
<1>2. (OnlyGoes(e) \/ Completes(e) \/ ListChunk(e) \/ SendDelete(e))
        => exec[e].pc # "idle"
  BY DEF OnlyGoes, Completes, BeginStage, BeginQuiescing, CheckDrained,
         ClearChunks, EndListing, FreezeManifest, MarkChunkDeleted,
         PurgeCache, VerifyRows, VerifyObjects, VerifyCache, FenceUp,
         MarkDrained, MarkBindingsRemoved, PurgePostgres, MarkCachePurged,
         MarkLogicallyVerified, ListChunk, SendDelete
<1>3. ASSUME OnlyGoes(e), exec[e].pc \notin {"stage", "drain"}
      PROVE  exec'[e].pc \notin {"stage", "drain", "clear"}
  <2>1. \E p \in {"fence", "list", "freeze", "mark_drained", "next_chunk",
                  "mark_cache_purged", "verify_objects", "verify_cache",
                  "mark_verified"} : Goto(e, p)
    BY <1>3
    DEF OnlyGoes, BeginStage, BeginQuiescing, CheckDrained,
        ClearChunks, EndListing, FreezeManifest, MarkChunkDeleted,
        PurgeCache, VerifyRows, VerifyObjects, VerifyCache
  <2> QED
    BY <1>1, <2>1, GotoRow DEF ExecPcs
<1> QED
  BY <1>2, <1>3

\* Every executor stays at a step of the stage it works on.
LEMMA PcStep ==
    ASSUME DShape, PcInv, LeaseInv, DNext
    PROVE  PcInv'
<1>0. /\ exec \in [Executors -> Memory] /\ req \in RequestRow
      /\ req.id \in 1..MaxRequests /\ req'.id >= req.id
      /\ req.id \in Nat /\ req'.id \in Nat
      /\ MaxRequests \in Nat
  BY LeaseStep, RowsShape, DeletionAssumption DEF DShape, LeaseInv, RequestRow
<1>1. ASSUME NEW f \in Executors, exec'[f] = exec[f]
      PROVE  /\ exec'[f].stage \in StagesAt[exec'[f].pc]
             /\ exec'[f].pc = "idle" <=> exec'[f].id = 0
             /\ exec'[f].id <= req'.id
             /\ exec'[f].pc \in {"stage", "drain", "clear"}
                  => exec'[f].listed = <<>>
  <2>1. exec[f].id \in Nat
    BY <1>0 DEF Memory
  <2> QED
    BY <1>0, <1>1, <2>1 DEF PcInv
<1>2. CASE exec' = exec
  BY <1>1, <1>2 DEF PcInv
<1>3. ASSUME NEW e \in Executors, ExecutorStep(e) \/ ExecutorFault(e)
      PROVE  PcInv'
  <2>1. \A f \in Executors : f # e => exec'[f] = exec[f]
    BY <1>3, ExecutorShape
  <2>2. SUFFICES /\ exec'[e].stage \in StagesAt[exec'[e].pc]
                 /\ exec'[e].pc = "idle" <=> exec'[e].id = 0
                 /\ exec'[e].id <= req'.id
                 /\ exec'[e].pc \in {"stage", "drain", "clear"}
                      => exec'[e].listed = <<>>
    BY <1>1, <2>1 DEF PcInv
  <2>3. /\ exec[e].id \in Nat /\ exec[e].id <= req.id
        /\ exec[e].pc = "idle" <=> exec[e].id = 0
        /\ exec[e].stage \in StagesAt[exec[e].pc]
        /\ exec[e].pc \in {"stage", "drain", "clear"}
             => exec[e].listed = <<>>
    BY <1>0 DEF Memory, PcInv
  <2>4. StagesAt["stage"] = Runnable /\ StagesAt["idle"] = {"submitted"}
    BY DEF StagesAt, ExecPcs
  <2>5. CASE OnlyGoes(e)
    <3>1. PICK p \in ExecPcs \ {"idle", "stage"} :
            Goto(e, p) /\ exec[e].stage \in StagesAt[p]
      BY <2>5, GoesTo
    <3>2. /\ exec'[e].pc = p /\ exec'[e].id = exec[e].id
          /\ exec'[e].stage = exec[e].stage
          /\ exec'[e].listed = exec[e].listed
      BY <1>0, <3>1, GotoRow
    <3>3. /\ exec[e].pc # "idle"
          /\ p \in {"stage", "drain", "clear"} => exec[e].listed = <<>>
      BY <2>3, <2>5, <3>2, GoesFrom
    <3> QED
      BY <1>0, <2>3, <3>1, <3>2, <3>3
  <2>6. CASE GivesUp(e)
    <3>1. exec' = [exec EXCEPT ![e] = Idle]
      BY <2>6 DEF GivesUp, LeaseLost, RecordRetry, Block, StopExecutor,
                  Crash, MarkRetentionPending
    <3>2. exec'[e] = Idle
      BY <1>0, <3>1, IdleAgain
    <3> QED
      BY <1>0, <2>4, <3>2, IdleRow
  <2>7. CASE Completes(e)
    <3>1. PICK s \in Runnable : StageMoved(e, s)
      BY <2>7, StageCompleted DEF Runnable, Completes
    <3>2. exec[e].pc # "idle"
      BY <2>7, GoesFrom
    <3> QED
      BY <1>0, <2>3, <2>4, <3>1, <3>2 DEF StageMoved
  <2>8. CASE Claim(e)
    <3>1. req.stage \in Runnable /\ req'.id = req.id
      BY <2>8, ClaimMoves DEF KeptContent
    <3>2. /\ exec'[e].pc = "stage" /\ exec'[e].id = req.id
          /\ exec'[e].stage = req.stage /\ exec'[e].listed = <<>>
      BY <1>0, <2>8, ClaimRow
    <3> QED
      BY <1>0, <2>4, <3>1, <3>2
  <2>9. CASE ListChunk(e)
    <3>1. /\ exec'[e].pc = "list" /\ exec'[e].id = exec[e].id
          /\ exec'[e].stage = exec[e].stage /\ exec[e].pc = "list"
      BY <2>9, ListRow DEF ListChunk
    <3> QED
      BY <1>0, <2>3, <3>1
  <2>10. CASE SendDelete(e)
    <3>1. /\ exec'[e].pc = "deleting" /\ exec'[e].id = exec[e].id
          /\ exec'[e].stage = exec[e].stage /\ exec[e].pc = "next_chunk"
      BY <2>10, SendRow DEF SendDelete
    <3>2. exec[e].stage = "drained" /\ "drained" \in StagesAt["deleting"]
      BY <3>1, AtStage DEF StagesAt, ExecPcs
    <3> QED
      BY <1>0, <2>3, <3>1, <3>2
  <2> QED
    BY <1>3, <2>5, <2>6, <2>7, <2>8, <2>9, <2>10, ExecutorKinds
<1>4. CASE Operator \/ HeartbeatsMissed \/ LeaseRunsOut
           \/ \E k \in Keys : DeleteLands(k)
  BY <1>2, <1>4 DEF Operator, Submit, FreezeInventory, Approve, Abort,
       Unblock, BlockPreclaim, HeartbeatsMissed, LeaseRunsOut, DeleteLands
<1>5. CASE \E w \in Writers : ServingStep(w) \/ ServingFault(w)
  <2>1. PICK w \in Writers : ServingStep(w) \/ ServingFault(w)
    BY <1>5
  <2> QED
    BY <1>2, <2>1 DEF ServingStep, ServingFault, AcquireServing, SendEffect,
         EffectLands, RecordRow, FinishServing, AbandonServing,
         DropServing, ServingExpires, EffectVanishes
<1> QED
  BY <1>3, <1>4, <1>5 DEF DNext

\* The request's stage and the community's state move together.
LEMMA StateStep ==
    ASSUME DShape, PcInv, LeaseInv, StateInv, DNext
    PROVE  StateInv'
<1>0. /\ req.id \in Nat \ {0} /\ community.fence \in Nat
      /\ req.stage \in Stages /\ community.archived \in BOOLEAN
      /\ req.quiesced \in BOOLEAN /\ req.before \in BOOLEAN
      /\ req'.quiesced \in BOOLEAN /\ req'.before \in BOOLEAN
      /\ community'.archived \in BOOLEAN
  BY RowsShape DEF DShape, RequestRow, CommunityRow, LeaseInv
<1>1. CASE RowsKept
  BY <1>1 DEF RowsKept, StateInv
<1>2. ASSUME KeptContent, community' = community PROVE StateInv'
  BY <1>2 DEF KeptContent, StateInv
<1>3. CASE Submit
  <2>1. /\ req'.id = req.id + 1 /\ req'.stage = "submitted"
        /\ ~req'.quiesced /\ ~req'.frozen
    BY <1>3, OperatorMoves
  <2>2. /\ community' = community /\ community.state = "active"
        /\ req.stage = "aborted"
    BY <1>3 DEF Submit
  <2> QED
    BY <1>0, <2>1, <2>2 DEF StateInv, Late
<1>4. CASE FreezeInventory \/ Approve
  <2>1. /\ SameLease /\ req.stage \in {"submitted", "inventoried"}
        /\ req'.stage \in {"inventoried", "approved"}
        /\ req'.quiesced = req.quiesced /\ req'.before = req.before
        /\ req'.frozen = req.frozen
    BY <1>4, OperatorMoves
  <2>2. community' = community
    BY <1>4 DEF FreezeInventory, Approve
  <2> QED
    BY <1>0, <2>1, <2>2 DEF StateInv, Late, SameLease
<1>5. CASE Abort
  <2>1. /\ req'.id = req.id /\ req'.stage = "aborted"
        /\ req'.quiesced = req.quiesced /\ req'.before = req.before
    BY <1>5, OperatorMoves
  <2>2. /\ community'.state = "active"
        /\ community'.fence = community.fence + 1
        /\ community'.archived = ArchivedBefore
        /\ req.stage \in {"approved", "fenced"}
    BY <1>5 DEF Abort, Abortable
  <2>3. ~ArchivedBefore
    BY <1>0, <2>2 DEF ArchivedBefore, StateInv
  <2>4. community'.fence <= 2 * req'.id
    BY <1>0, <2>1, <2>2 DEF StateInv
  <2> QED
    BY <1>0, <2>1, <2>2, <2>3, <2>4 DEF StateInv, Late
<1>6. CASE /\ community' = community
           /\ \/ Unblock \/ BlockPreclaim \/ HeartbeatsMissed \/ LeaseRunsOut
              \/ \E e \in Executors : RecordRetry(e) \/ Block(e)
  BY <1>2, <1>6, LeaseEnds
<1>7. ASSUME NEW e \in Executors, community' = community,
             \/ Claim(e) \/ StopExecutor(e) \/ FreezeManifest(e)
             \/ MarkDrained(e) \/ MarkBindingsRemoved(e)
             \/ MarkCachePurged(e) \/ MarkLogicallyVerified(e)
             \/ MarkRetentionPending(e)
      PROVE  StateInv'
  <2>1. CASE Claim(e) \/ StopExecutor(e)
    BY <1>2, <1>7, <2>1, ClaimMoves, StopMoves
  <2>2. CASE FreezeManifest(e)
    <3>1. /\ SameLease /\ req'.stage = "fenced" /\ req.stage = "fenced"
          /\ req'.quiesced = req.quiesced /\ req'.before = req.before
      BY <2>2, FreezeMoves
    <3> QED
      BY <1>0, <1>7, <3>1 DEF StateInv, SameLease, Late
  <2>3. CASE \/ MarkDrained(e) \/ MarkBindingsRemoved(e)
             \/ MarkCachePurged(e) \/ MarkLogicallyVerified(e)
    <3>1. /\ req'.id = req.id /\ req'.quiesced = req.quiesced
          /\ req'.before = req.before
          /\ \/ req.stage = "fenced" /\ req'.stage = "drained"
             \/ req.stage = "drained" /\ req'.stage = "bindings_removed"
             \/ req.stage = "postgres_purged" /\ req'.stage = "cache_purged"
             \/ req.stage = "cache_purged"
                /\ req'.stage = "logically_verified"
      BY <2>3, StageCompleted DEF StageMoved
    <3> QED
      BY <1>0, <1>7, <3>1 DEF StateInv, Late
  <2>4. CASE MarkRetentionPending(e)
    <3>1. /\ req'.id = req.id /\ req'.stage = "retention_pending"
          /\ req'.quiesced = req.quiesced /\ req'.before = req.before
          /\ req.stage = "logically_verified"
      BY <2>4, RetainMoves
    <3> QED
      BY <1>0, <1>7, <3>1 DEF StateInv, Late
  <2> QED
    BY <1>7, <2>1, <2>2, <2>3, <2>4
<1>8. ASSUME NEW e \in Executors, BeginQuiescing(e) PROVE StateInv'
  <2>1. /\ SameLease /\ req'.stage = "approved" /\ req.stage = "approved"
        /\ req'.quiesced /\ req'.frozen = req.frozen
        /\ req'.before = (IF req.quiesced THEN req.before
                          ELSE community.archived)
        /\ community'.state = "quiescing"
        /\ community'.fence = community.fence
    BY <1>8, QuiesceMoves
  <2>2. ~req'.before
    BY <1>0, <2>1 DEF StateInv
  <2> QED
    BY <1>0, <2>1, <2>2 DEF StateInv, SameLease, Late
<1>9. ASSUME NEW e \in Executors, FenceUp(e) PROVE StateInv'
  <2>1. /\ req'.id = req.id /\ req'.quiesced = req.quiesced
        /\ req'.before = req.before
        /\ req'.stage = "fenced" /\ req.stage = "approved"
    BY <1>9, StageCompleted DEF StageMoved
  <2>2. /\ community.state = "quiescing" /\ community'.state = "fenced"
        /\ community'.fence = community.fence + 1
    BY <1>9 DEF FenceUp
  <2> QED
    BY <1>0, <2>1, <2>2 DEF StateInv, Late
<1>10. ASSUME NEW e \in Executors, PurgePostgres(e) PROVE StateInv'
  <2>1. /\ req'.id = req.id /\ req'.quiesced = req.quiesced
        /\ req'.before = req.before
        /\ req'.stage = "postgres_purged" /\ req.stage = "bindings_removed"
    BY <1>10, StageCompleted DEF StageMoved
  <2>2. community \in CommunityRow
    BY DEF DShape
  <2>3. /\ community'.state = "tombstone"
        /\ community'.fence = community.fence
    BY <1>10, <2>2 DEF PurgePostgres, CommunityRow
  <2> QED
    BY <1>0, <2>1, <2>3 DEF StateInv, Late
<1> QED
  BY <1>1, <1>3, <1>4, <1>5, <1>6, <1>7, <1>8, <1>9, <1>10, RequestMoves

\* The state of the community at each stage, as bounds on its fence.
LEMMA FenceBound ==
    ASSUME DShape, LeaseInv, StateInv
    PROVE  community.fence <= 2 * MaxRequests
<1>1. /\ req.id \in Nat \ {0} /\ req.id <= MaxRequests
      /\ MaxRequests \in Nat /\ community.fence \in Nat
      /\ req.stage \in Stages
  BY DeletionAssumption DEF DShape, RequestRow, CommunityRow, LeaseInv
<1>2. community.fence <= 2 * req.id
  BY <1>1 DEF StateInv, Stages, Runnable, Terminal, Late
<1> QED
  BY <1>1, <1>2

\* The same after a step.
LEMMA FenceBoundNext ==
    ASSUME DShape, PcInv, LeaseInv, StateInv, DNext
    PROVE  community'.fence <= 2 * MaxRequests
<1>0. LeaseInv' /\ StateInv'
  BY LeaseStep, StateStep
<1>1. /\ req'.id \in Nat \ {0} /\ req'.id <= MaxRequests
      /\ MaxRequests \in Nat /\ community'.fence \in Nat
      /\ req'.stage \in Stages
  BY <1>0, RowsShape, DeletionAssumption DEF RequestRow, CommunityRow, LeaseInv
<1>2. community'.fence <= 2 * req'.id
  BY <1>0, <1>1 DEF StateInv, Stages, Runnable, Terminal, Late
<1> QED
  BY <1>1, <1>2

\* Copies of the fence generation stay within the bound.
LEMMA FenceStep ==
    ASSUME DShape, PcInv, LeaseInv, StateInv, FenceInv, DNext
    PROVE  FenceInv'
<1>0. /\ community.fence <= 2 * MaxRequests
      /\ community'.fence <= 2 * MaxRequests
      /\ MaxRequests \in Nat /\ exec \in [Executors -> Memory]
      /\ req \in RequestRow /\ serving \in [Writers -> Lease]
      /\ req.fence <= 2 * MaxRequests
      /\ \A e \in Executors : exec[e].fence <= 2 * MaxRequests
  BY FenceBound, FenceBoundNext, DeletionAssumption DEF DShape, FenceInv
<1>1. req'.fence <= 2 * MaxRequests
  <2>1. CASE RowsKept
    BY <1>0, <2>1 DEF RowsKept
  <2>2. CASE Submit \/ FreezeInventory \/ Approve
    BY <1>0, <2>2, OperatorMoves
  <2>3. CASE Abort
    <3>1. req'.fence = community'.fence
      BY <2>3, OperatorMoves DEF Abort
    <3> QED
      BY <1>0, <3>1
  <2>4. CASE \/ Unblock \/ BlockPreclaim \/ HeartbeatsMissed
             \/ LeaseRunsOut
             \/ \E e \in Executors : RecordRetry(e) \/ Block(e)
    BY <1>0, <2>4, LeaseEnds DEF KeptContent
  <2>5. ASSUME NEW e \in Executors,
               \/ Claim(e) \/ StopExecutor(e) \/ FreezeManifest(e)
               \/ BeginQuiescing(e)
        PROVE  req'.fence <= 2 * MaxRequests
    <3>1. req'.fence = req.fence
      BY <2>5, ClaimMoves, StopMoves, FreezeMoves, QuiesceMoves
      DEF KeptContent
    <3> QED
      BY <1>0, <3>1
  <2>6. ASSUME NEW e \in Executors,
               \/ MarkDrained(e) \/ MarkBindingsRemoved(e)
               \/ PurgePostgres(e) \/ MarkCachePurged(e)
               \/ MarkLogicallyVerified(e) \/ MarkRetentionPending(e)
        PROVE  req'.fence <= 2 * MaxRequests
    <3>1. req'.fence = exec[e].fence
      BY <2>6, StageCompleted, RetainMoves
    <3> QED
      BY <1>0, <3>1
  <2>7. ASSUME NEW e \in Executors, FenceUp(e)
        PROVE  req'.fence <= 2 * MaxRequests
    <3>1. req'.fence = community'.fence
      BY <2>7, StageCompleted DEF FenceUp
    <3> QED
      BY <1>0, <3>1
  <2> QED
    BY <2>1, <2>2, <2>3, <2>4, <2>5, <2>6, <2>7, RequestMoves
<1>2. ASSUME NEW f \in Executors PROVE exec'[f].fence <= 2 * MaxRequests
  <2>1. CASE exec'[f] = exec[f]
    BY <1>0, <2>1
  <2>2. CASE ExecutorStep(f) \/ ExecutorFault(f)
    <3>1. CASE OnlyGoes(f)
      BY <1>0, <3>1, GoesTo, GotoRow
    <3>2. CASE GivesUp(f)
      <4>1. exec' = [exec EXCEPT ![f] = Idle]
        BY <3>2 DEF GivesUp, LeaseLost, RecordRetry, Block, StopExecutor,
                    Crash, MarkRetentionPending
      <4> QED
        BY <1>0, <4>1, IdleAgain, IdleRow
    <3>3. CASE Completes(f)
      <4>1. exec'[f].fence = req'.fence
        BY <3>3, StageCompleted DEF Completes, StageMoved
      <4> QED
        BY <1>1, <4>1
    <3>4. CASE Claim(f)
      BY <1>0, <3>4, ClaimRow
    <3>5. CASE ListChunk(f) \/ SendDelete(f)
      BY <1>0, <3>5, ListRow, SendRow
    <3> QED
      BY <2>2, <3>1, <3>2, <3>3, <3>4, <3>5, ExecutorKinds
  <2> QED
    BY <2>1, <2>2, MemoryMoves
<1>3. ASSUME NEW w \in Writers PROVE serving'[w].fence <= 2 * MaxRequests
  <2>0. serving[w].fence <= 2 * MaxRequests /\ serving[w] \in Lease
    BY <1>0 DEF FenceInv
  <2>1. CASE serving'[w] = serving[w]
    BY <2>0, <2>1
  <2>2. CASE ServingStep(w) \/ ServingFault(w)
    <3>1. \/ serving'[w].fence = community.fence
          \/ serving'[w].fence = 0
          \/ serving'[w].fence = serving[w].fence
      BY <1>0, <2>0, <2>2
      DEF ServingStep, ServingFault, AcquireServing, SendEffect,
          EffectLands, RecordRow, FinishServing, AbandonServing,
          DropServing, ServingExpires, EffectVanishes, Done, Lease
    <3> QED
      BY <1>0, <2>0, <3>1
  <2> QED
    BY <2>1, <2>2, LeaseMoves
<1> QED
  BY <1>1, <1>2, <1>3 DEF FenceInv

-----------------------------------------------------------------------------
(***************************************************************************)
(* The stores behind the fence.                                            *)
(***************************************************************************)
\* What can happen to the stage and the frozen list in one step.
LEMMA StageMoves ==
    ASSUME DShape, PcInv, LeaseInv, DNext
    PROVE  \/ /\ req'.stage = req.stage /\ req'.frozen = req.frozen
              /\ req'.manifest = req.manifest
           \/ \E e \in Executors : FreezeManifest(e)
           \/ Submit
           \/ Abort
           \/ /\ req'.frozen = req.frozen /\ req'.manifest = req.manifest
              /\ \/ /\ req.stage \in {"submitted", "inventoried"}
                    /\ req'.stage \in {"inventoried", "approved"}
                 \/ \E e \in Executors :
                      \/ /\ FenceUp(e)
                         /\ req.stage = "approved" /\ req'.stage = "fenced"
                      \/ /\ MarkDrained(e)
                         /\ req.stage = "fenced" /\ req'.stage = "drained"
                      \/ /\ MarkBindingsRemoved(e) /\ req.stage = "drained"
                         /\ req'.stage = "bindings_removed"
                      \/ /\ PurgePostgres(e)
                         /\ req.stage = "bindings_removed"
                         /\ req'.stage = "postgres_purged"
                      \/ /\ MarkCachePurged(e)
                         /\ req.stage = "postgres_purged"
                         /\ req'.stage = "cache_purged"
                      \/ /\ MarkLogicallyVerified(e)
                         /\ req.stage = "cache_purged"
                         /\ req'.stage = "logically_verified"
                      \/ /\ MarkRetentionPending(e)
                         /\ req.stage = "logically_verified"
                         /\ req'.stage = "retention_pending"
<1>1. CASE RowsKept
  BY <1>1 DEF RowsKept
<1>2. CASE \/ Unblock \/ BlockPreclaim \/ HeartbeatsMissed \/ LeaseRunsOut
           \/ \E e \in Executors : RecordRetry(e) \/ Block(e)
  BY <1>2, LeaseEnds DEF KeptContent
<1>3. CASE FreezeInventory \/ Approve
  <2>1. /\ req.stage \in {"submitted", "inventoried"}
        /\ req'.stage \in {"inventoried", "approved"}
        /\ req'.frozen = req.frozen /\ req'.manifest = req.manifest
    BY <1>3, OperatorMoves
  <2> QED
    BY <2>1
<1>4. CASE \E e \in Executors : Claim(e) \/ StopExecutor(e)
  BY <1>4, ClaimMoves, StopMoves DEF KeptContent
<1>5. CASE \E e \in Executors : BeginQuiescing(e)
  BY <1>5, QuiesceMoves
<1>6. CASE \E e \in Executors : Completes(e)
  BY <1>6, StageCompleted DEF Completes, StageMoved
<1>7. CASE \E e \in Executors : MarkRetentionPending(e)
  BY <1>7, RetainMoves
<1> QED
  BY <1>1, <1>2, <1>3, <1>4, <1>5, <1>6, <1>7, RequestMoves DEF Completes

\* A request past stage fenced is never aborted.
LEMMA LateStays ==
    ASSUME DShape, PcInv, LeaseInv, DNext, req.stage \in Late
    PROVE  req'.stage \in Late
BY StageMoves, FreezeMoves DEF Late, Submit, Abort, Abortable

\* A lease becomes live only when it is acquired, which an unfenced and
\* serving community allows.
LEMMA LiveMoves ==
    ASSUME DShape, DNext, NEW w \in Writers, serving'[w].live
    PROVE  \/ serving[w].live
           \/ AcquireServing(w)
<1>0. serving \in [Writers -> Lease] /\ serving[w] \in Lease
  BY DEF DShape
<1>1. CASE serving'[w] = serving[w]
  BY <1>1
<1>2. CASE FinishServing(w) \/ AbandonServing(w) \/ DropServing(w)
  <2>1. serving'[w] = Done
    BY <1>0, <1>2 DEF FinishServing, AbandonServing, DropServing
  <2> QED
    BY <2>1 DEF Done
<1>3. CASE ServingExpires(w)
  BY <1>3 DEF ServingExpires
<1>4. CASE SendEffect(w) \/ RecordRow(w)
  BY <1>4 DEF SendEffect, RecordRow, RowGuard, LeaseCurrent
<1>5. CASE EffectLands(w) \/ EffectVanishes(w)
  BY <1>5 DEF EffectLands, EffectVanishes
<1> QED
  BY <1>1, <1>2, <1>3, <1>4, <1>5, LeaseMoves DEF ServingStep, ServingFault

\* Orphans stay orphans.
LEMMA OrphansGrow ==
    ASSUME DNext
    PROVE  orphans \subseteq orphans'
<1>1. CASE UNCHANGED <<serving, stores>>
  BY <1>1 DEF stores
<1>2. CASE \/ \E e \in Executors :
                SendDelete(e) \/ PurgePostgres(e) \/ PurgeCache(e)
           \/ \E k \in Keys : DeleteLands(k)
  BY <1>2 DEF SendDelete, PurgePostgres, PurgeCache, DeleteLands
<1>3. CASE \E w \in Writers : ServingStep(w) \/ ServingFault(w)
  BY <1>3 DEF ServingStep, ServingFault, AcquireServing, SendEffect,
       EffectLands, RecordRow, FinishServing, AbandonServing,
       DropServing, ServingExpires, EffectVanishes, Orphaned, stores
<1> QED
  BY <1>1, <1>2, <1>3, StoreMoves

\* Behind the fence no lease is live; an effect under way has a live lease
\* or is an orphan.
LEMMA WriteStep ==
    ASSUME DShape, PcInv, LeaseInv, StateInv, WriteInv, DNext
    PROVE  WriteInv'
<1>1. ASSUME community'.state \in {"fenced", "tombstone"},
             NEW w \in Writers, serving'[w].live
      PROVE  FALSE
  <2>1. CASE AcquireServing(w)
    BY <1>1, <2>1 DEF AcquireServing, Admits
  <2>2. CASE serving[w].live
    <3>1. community.state \notin {"fenced", "tombstone"}
      BY <2>2 DEF WriteInv
    <3>2. \E e \in Executors : FenceUp(e) \/ PurgePostgres(e)
      <4>1. CASE RowsKept
        BY <1>1, <3>1, <4>1 DEF RowsKept
      <4>2. CASE Submit \/ FreezeInventory \/ Approve
        BY <1>1, <3>1, <4>2 DEF Submit, FreezeInventory, Approve
      <4>3. CASE Abort
        BY <1>1, <4>3 DEF Abort
      <4>4. CASE \E e \in Executors : BeginQuiescing(e)
        <5>1. community'.state = "quiescing"
          BY <4>4, QuiesceMoves
        <5> QED
          BY <1>1, <5>1
      <4> QED
        BY <1>1, <3>1, <4>1, <4>2, <4>3, <4>4, RequestMoves
    <3>3. PICK e \in Executors : FenceUp(e)
      BY <3>1, <3>2 DEF PurgePostgres
    <3> QED
      BY <2>2, <3>3 DEF FenceUp, LiveServing
  <2> QED
    BY <1>1, <2>1, <2>2, LiveMoves
<1>2. ASSUME NEW w \in Writers, NEW t \in Targets, <<w, t>> \in puts'
      PROVE  \/ w \in orphans'
             \/ serving'[w].live /\ serving'[w].pc = "sent"
  <2>0. /\ serving \in [Writers -> Lease] /\ serving[w] \in Lease
        /\ puts \subseteq Writers \X Targets
    BY DEF DShape
  <2>1. CASE w \in orphans
    BY <2>1, OrphansGrow
  <2>2. CASE w \notin orphans /\ <<w, t>> \in puts
    <3>1. serving[w].live /\ serving[w].pc = "sent" /\ Sent(w) # {}
      BY <2>2 DEF WriteInv, Sent
    <3>2. CASE serving'[w] = serving[w]
      BY <3>1, <3>2
    <3>3. CASE AbandonServing(w) \/ DropServing(w) \/ ServingExpires(w)
      BY <3>1, <3>3
      DEF AbandonServing, DropServing, ServingExpires, Orphaned
    <3>4. CASE EffectLands(w) \/ EffectVanishes(w)
      BY <3>1, <3>4 DEF EffectLands, EffectVanishes
    <3>5. CASE AcquireServing(w) \/ SendEffect(w) \/ RecordRow(w)
               \/ FinishServing(w)
      BY <3>1, <3>5
      DEF AcquireServing, SendEffect, RecordRow, FinishServing
    <3> QED
      BY <3>2, <3>3, <3>4, <3>5, LeaseMoves DEF ServingStep, ServingFault
  <2>3. CASE <<w, t>> \notin puts
    <3>1. SendEffect(w)
      <4>1. CASE UNCHANGED <<serving, stores>>
        BY <1>2, <2>3, <4>1 DEF stores
      <4>2. CASE \/ \E e \in Executors :
                      SendDelete(e) \/ PurgePostgres(e) \/ PurgeCache(e)
                 \/ \E k \in Keys : DeleteLands(k)
        BY <1>2, <2>3, <4>2
        DEF SendDelete, PurgePostgres, PurgeCache, DeleteLands
      <4>3. ASSUME NEW v \in Writers, ServingStep(v) \/ ServingFault(v)
            PROVE  SendEffect(w)
        <5>1. CASE SendEffect(v)
          <6>1. PICK u \in Targets : puts' = puts \cup {<<v, u>>}
            BY <5>1 DEF SendEffect
          <6>2. <<w, t>> = <<v, u>>
            BY <1>2, <2>3, <6>1
          <6>3. w = v
            BY <6>2
          <6> QED
            BY <5>1, <6>3
        <5>2. CASE ~SendEffect(v)
          BY <1>2, <2>3, <4>3, <5>2
          DEF ServingStep, ServingFault, AcquireServing,
              EffectLands, RecordRow, FinishServing, AbandonServing,
              DropServing, ServingExpires, EffectVanishes, stores
        <5> QED
          BY <5>1, <5>2
      <4> QED
        BY <4>1, <4>2, <4>3, StoreMoves
    <3>2. /\ serving' = [serving EXCEPT ![w].pc = "sent"]
          /\ serving[w].live
      BY <3>1 DEF SendEffect, LeaseCurrent
    <3> QED
      BY <2>0, <3>2 DEF Lease
  <2> QED
    BY <2>1, <2>2, <2>3
<1> QED
  BY <1>1, <1>2 DEF WriteInv

\* Nothing is removed before stage drained.
LEMMA RemovalStep ==
    ASSUME DShape, PcInv, LeaseInv, StateInv, RemovalInv, DNext
    PROVE  RemovalInv'
<1>1. CASE destroyed \/ deletes # {}
  BY <1>1, LateStays DEF RemovalInv
<1>2. CASE ~destroyed /\ deletes = {}
  <2>1. CASE UNCHANGED <<serving, stores>>
    BY <1>2, <2>1 DEF stores, RemovalInv
  <2>2. CASE \E e \in Executors : SendDelete(e)
    <3>1. PICK e \in Executors : SendDelete(e)
      BY <2>2
    <3>2. req.stage = "drained" /\ req' = req
      BY <3>1, AtStage DEF SendDelete, HeldFenced
    <3> QED
      BY <3>2 DEF RemovalInv, Late
  <2>3. CASE \E e \in Executors : PurgePostgres(e)
    <3>1. req'.stage = "postgres_purged"
      BY <2>3, StageCompleted DEF StageMoved
    <3> QED
      BY <3>1 DEF RemovalInv, Late
  <2>4. CASE \E e \in Executors : PurgeCache(e)
    BY <1>2, <2>4 DEF PurgeCache, RemovalInv
  <2>5. CASE \E k \in Keys : DeleteLands(k)
    BY <1>2, <2>5 DEF DeleteLands
  <2>6. CASE \E w \in Writers : ServingStep(w) \/ ServingFault(w)
    <3>1. destroyed' = destroyed /\ deletes' = deletes
      BY <2>6 DEF ServingStep, ServingFault, AcquireServing, SendEffect,
           EffectLands, RecordRow, FinishServing, AbandonServing,
           DropServing, ServingExpires, EffectVanishes, stores
    <3> QED
      BY <1>2, <3>1 DEF RemovalInv
  <2> QED
    BY <2>1, <2>2, <2>3, <2>4, <2>5, <2>6, StoreMoves
<1> QED
  BY <1>1, <1>2

\* Behind the fence the stores only shrink, but for late effects, and a
\* delete that is no longer under way has removed its key.
LEMMA StoresShrink ==
    ASSUME DShape, PcInv, WriteInv, DNext,
           community.state \in {"fenced", "tombstone"}
    PROVE  /\ \A k \in objects' : k \in objects \/ k \in orphans'
           /\ cache' \subseteq cache \cup orphans'
           /\ rows' \subseteq rows
           /\ \A k \in deletes : k \in deletes' \/ k \notin objects'
<1>1. CASE UNCHANGED <<serving, stores>>
  BY <1>1 DEF stores
<1>2. CASE \E e \in Executors : SendDelete(e)
  BY <1>2 DEF SendDelete
<1>3. CASE \E e \in Executors : PurgePostgres(e) \/ PurgeCache(e)
  BY <1>3 DEF PurgePostgres, PurgeCache
<1>4. CASE \E k \in Keys : DeleteLands(k)
  BY <1>4 DEF DeleteLands
<1>5. ASSUME NEW w \in Writers, ServingStep(w) \/ ServingFault(w)
      PROVE  /\ \A k \in objects' : k \in objects \/ k \in orphans'
             /\ cache' \subseteq cache \cup orphans'
             /\ rows' \subseteq rows
             /\ \A k \in deletes : k \in deletes' \/ k \notin objects'
  <2>1. deletes' = deletes
    BY <1>5 DEF ServingStep, ServingFault, AcquireServing, SendEffect,
         EffectLands, RecordRow, FinishServing, AbandonServing,
         DropServing, ServingExpires, EffectVanishes, stores
  <2>2. CASE EffectLands(w)
    <3>1. PICK t \in Targets : <<w, t>> \in puts
      BY <2>2 DEF EffectLands, Targets
    <3>2. w \in orphans
      BY <3>1 DEF WriteInv
    <3> QED
      BY <2>1, <2>2, <3>2 DEF EffectLands
  <2>3. CASE RecordRow(w)
    BY <2>3 DEF RecordRow, RowGuard, LeaseCurrent
  <2>4. CASE ~EffectLands(w) /\ ~RecordRow(w)
    BY <1>5, <2>1, <2>4 DEF ServingStep, ServingFault, AcquireServing,
         SendEffect, FinishServing, AbandonServing,
         DropServing, ServingExpires, EffectVanishes, stores
  <2> QED
    BY <2>2, <2>3, <2>4
<1> QED
  BY <1>1, <1>2, <1>3, <1>4, <1>5, StoreMoves

\* Only one executor passes the lease check.
LEMMA OneHolder ==
    ASSUME NEW e \in Executors, NEW f \in Executors, Held(e), Held(f)
    PROVE  e = f
BY DEF Held

\* An executor that passes the lease check after a step has just claimed,
\* or passed it before; and then the step was its own or one that leaves
\* alone its memory, the request and the stored list.
LEMMA HeldMoves ==
    ASSUME DShape, PcInv, LeaseInv, DNext, NEW f \in Executors, Held(f)'
    PROVE  \/ Claim(f)
           \/ /\ Held(f) /\ exec'[f] = exec[f]
              /\ req' = req /\ chunks' = chunks
           \/ /\ Held(f)
              /\ \/ OnlyGoes(f) \/ Completes(f) \/ ListChunk(f)
                 \/ SendDelete(f)
<1>0. /\ exec'[f].id = req'.id /\ req'.stage = exec'[f].stage
      /\ req'.owner = f /\ req'.gen = exec'[f].gen
      /\ req'.live /\ ~req'.blocked
  BY DEF Held
<1>1. ASSUME req' = req, exec'[f] = exec[f] PROVE Held(f)
  BY <1>0, <1>1 DEF Held
<1>2. CASE Submit \/ Abort
  BY <1>0, <1>2, OperatorMoves
<1>3. CASE FreezeInventory \/ Approve
  <2>1. SameLease /\ req.stage \in {"submitted", "inventoried"}
    BY <1>3, OperatorMoves
  <2> QED
    BY <1>0, <2>1 DEF SameLease, LeaseInv, Runnable
<1>4. CASE \/ Unblock \/ BlockPreclaim \/ HeartbeatsMissed \/ LeaseRunsOut
           \/ \E e \in Executors : RecordRetry(e) \/ Block(e)
  BY <1>0, <1>4, LeaseEnds
<1>5. CASE \E k \in Keys : DeleteLands(k)
  BY <1>1, <1>5 DEF DeleteLands
<1>6. CASE \E w \in Writers : ServingStep(w) \/ ServingFault(w)
  <2>1. exec' = exec /\ req' = req /\ chunks' = chunks
    BY <1>6 DEF ServingStep, ServingFault, AcquireServing, SendEffect,
         EffectLands, RecordRow, FinishServing, AbandonServing,
         DropServing, ServingExpires, EffectVanishes
  <2> QED
    BY <1>1, <2>1
<1>7. ASSUME NEW e \in Executors, e # f, ExecutorStep(e) \/ ExecutorFault(e)
      PROVE  \/ /\ Held(f) /\ exec'[f] = exec[f]
                /\ req' = req /\ chunks' = chunks
             \/ \E d \in Executors : RecordRetry(d) \/ Block(d)
  <2>0. exec'[f] = exec[f]
    BY <1>7, ExecutorShape
  <2>1. CASE \/ BeginStage(e) \/ CheckDrained(e) \/ EndListing(e)
             \/ VerifyRows(e) \/ VerifyObjects(e) \/ VerifyCache(e)
             \/ LeaseLost(e) \/ Crash(e)
    <3>1. req' = req /\ chunks' = chunks
      BY <2>1 DEF BeginStage, CheckDrained, EndListing, VerifyRows,
           VerifyObjects, VerifyCache, LeaseLost, Crash
    <3> QED
      BY <1>1, <2>0, <3>1
  <2>2. CASE Claim(e)
    BY <1>0, <1>7, <2>2, ClaimMoves
  <2>3. CASE StopExecutor(e)
    <3>1. req' = req
      BY <1>0, <2>3, StopMoves
    <3> QED
      BY <1>1, <2>0, <2>3, <3>1 DEF StopExecutor
  <2>4. CASE MarkRetentionPending(e)
    BY <1>0, <2>4, RetainMoves
  <2>5. CASE Completes(e)
    <3>1. req.owner = e
      BY <2>5 DEF Completes, FenceUp, MarkDrained, MarkBindingsRemoved,
           PurgePostgres, MarkCachePurged, MarkLogicallyVerified,
           HeldFenced, Held
    <3>2. req'.owner = req.owner
      BY <2>5, StageCompleted DEF Completes, StageMoved
    <3> QED
      BY <1>0, <1>7, <3>1, <3>2
  <2>6. CASE \/ ClearChunks(e) \/ MarkChunkDeleted(e) \/ PurgeCache(e)
             \/ ListChunk(e) \/ SendDelete(e)
    <3>1. req.owner = e /\ req' = req
      BY <2>6 DEF ClearChunks, MarkChunkDeleted, PurgeCache, ListChunk,
           SendDelete, AppendAllowed, HeldFenced, Held
    <3> QED
      BY <1>0, <1>7, <3>1
  <2>7. CASE FreezeManifest(e) \/ BeginQuiescing(e)
    <3>1. req.owner = e
      BY <2>7 DEF FreezeManifest, BeginQuiescing, HeldFenced, Held
    <3>2. req'.owner = req.owner
      BY <2>7, FreezeMoves, QuiesceMoves DEF SameLease
    <3> QED
      BY <1>0, <1>7, <3>1, <3>2
  <2> QED
    BY <1>7, <2>1, <2>2, <2>3, <2>4, <2>5, <2>6, <2>7
    DEF ExecutorStep, ExecutorFault, Completes
<1>8. CASE ExecutorStep(f) \/ ExecutorFault(f)
  <2>1. exec \in [Executors -> Memory]
    BY DEF DShape
  <2>2. CASE GivesUp(f)
    <3>1. exec' = [exec EXCEPT ![f] = Idle]
      BY <2>2 DEF GivesUp, LeaseLost, RecordRetry, Block, StopExecutor,
                  Crash, MarkRetentionPending
    <3>2. exec'[f].id = 0
      BY <2>1, <3>1, IdleAgain, IdleRow
    <3>3. req'.id # 0
      BY LeaseStep DEF LeaseInv
    <3> QED
      BY <1>0, <3>2, <3>3
  <2>3. CASE Completes(f) \/ ListChunk(f) \/ SendDelete(f)
    <3>1. Held(f)
      BY <2>3 DEF Completes, FenceUp, MarkDrained, MarkBindingsRemoved,
           PurgePostgres, MarkCachePurged, MarkLogicallyVerified, ListChunk,
           SendDelete, AppendAllowed, HeldFenced
    <3> QED
      BY <2>3, <3>1
  <2>4. CASE OnlyGoes(f)
    <3>1. /\ exec'[f].id = exec[f].id /\ exec'[f].gen = exec[f].gen
          /\ exec'[f].stage = exec[f].stage
      BY <2>1, <2>4, GoesTo, GotoRow
    <3>2. CASE FreezeManifest(f) \/ BeginQuiescing(f)
      BY <2>4, <3>2 DEF FreezeManifest, BeginQuiescing, HeldFenced
    <3>3. CASE ~FreezeManifest(f) /\ ~BeginQuiescing(f)
      <4>1. req' = req
        BY <2>4, <3>3 DEF OnlyGoes, BeginStage, CheckDrained, ClearChunks,
             EndListing, MarkChunkDeleted, PurgeCache, VerifyRows,
             VerifyObjects, VerifyCache
      <4> QED
        BY <1>0, <2>4, <3>1, <4>1 DEF Held
    <3> QED
      BY <3>2, <3>3
  <2> QED
    BY <1>8, <2>2, <2>3, <2>4, ExecutorKinds
<1> QED
  BY <1>2, <1>3, <1>4, <1>5, <1>6, <1>7, <1>8 DEF DNext, Operator

-----------------------------------------------------------------------------
(***************************************************************************)
(* What the holder of the lease knows.                                     *)
(***************************************************************************)
\* The keys of a list that gets one more chunk.
LEMMA KeysAppend ==
    ASSUME NEW s \in Seq(ChunkRow), NEW c \in ChunkRow
    PROVE  [i \in 1..Len(Append(s, c)) |-> Append(s, c)[i].key]
             = Append([i \in 1..Len(s) |-> s[i].key], c.key)
<1> DEFINE a == [i \in 1..Len(Append(s, c)) |-> Append(s, c)[i].key]
           p == [i \in 1..Len(s) |-> s[i].key]
           b == Append(p, c.key)
<1>1. Len(s) \in Nat /\ \A i \in 1..Len(s) : s[i] \in ChunkRow
  OBVIOUS
<1>2. \A i \in 1..Len(s) : s[i].key \in Keys
  BY <1>1 DEF ChunkRow
<1>3. c.key \in Keys
  BY DEF ChunkRow
<1>4. p \in Seq(Keys) /\ Len(p) = Len(s)
  <2>1. p \in [1..Len(s) -> Keys]
    BY <1>2
  <2> QED
    BY <1>1, <2>1
<1>5. Len(Append(s, c)) = Len(s) + 1
  OBVIOUS
<1>6. \A i \in 1..Len(s) : Append(s, c)[i] = s[i]
  OBVIOUS
<1>7. Append(s, c)[Len(s) + 1] = c
  OBVIOUS
<1>8. /\ DOMAIN b = 1..(Len(s) + 1) /\ \A i \in 1..Len(s) : b[i] = s[i].key
      /\ b[Len(s) + 1] = c.key /\ b \in Seq(Keys)
  <2> HIDE DEF p
  <2>1. \A i \in 1..Len(s) : p[i] = s[i].key
    BY DEF p
  <2> QED
    BY <1>1, <1>3, <1>4, <2>1
<1>9. /\ DOMAIN a = 1..(Len(s) + 1)
      /\ \A i \in 1..(Len(s) + 1) : a[i] = Append(s, c)[i].key
  BY <1>5
<1>10. b = [i \in 1..(Len(s) + 1) |-> b[i]]
  BY <1>8
<1>11. a = [i \in 1..(Len(s) + 1) |-> a[i]]
  BY <1>5
<1> HIDE DEF a, b
<1>12. \A i \in 1..(Len(s) + 1) : a[i] = b[i]
  BY <1>1, <1>6, <1>7, <1>8, <1>9
<1>13. a = b
  BY <1>10, <1>11, <1>12
<1> QED
  BY <1>13 DEF a, b, p

\* A holder past the fence has the community behind the fence.
LEMMA HolderFenced ==
    ASSUME DShape, PcInv, StateInv, NEW e \in Executors, Held(e),
           exec[e].pc \in {"drain", "clear", "list", "freeze",
                           "mark_drained", "next_chunk", "deleting", "purge",
                           "purge_cache", "mark_cache_purged"}
    PROVE  community.state \in {"fenced", "tombstone"}
BY AtStage DEF StateInv, Late

\* Steps of others leave what the holder knows true.
LEMMA KnowsKept ==
    ASSUME DShape, PcInv, StateInv, WriteInv, DNext, NEW f \in Executors,
           Held(f), Knows(f),
           exec'[f] = exec[f], req' = req, chunks' = chunks
    PROVE  Knows(f)'
<1>1. CASE exec[f].pc \notin {"list", "freeze", "deleting",
                              "mark_cache_purged"}
  BY <1>1 DEF Knows
<1>2. CASE exec[f].pc \in {"list", "freeze", "deleting", "mark_cache_purged"}
  <2>1. community.state \in {"fenced", "tombstone"}
    BY <1>2, HolderFenced
  <2>2. /\ \A k \in objects' : k \in objects \/ k \in orphans'
        /\ cache' \subseteq cache \cup orphans'
        /\ \A k \in deletes : k \in deletes' \/ k \notin objects'
        /\ orphans \subseteq orphans'
    BY <2>1, StoresShrink, OrphansGrow
  <2>3. \A k : Due(k)' => Due(k)
    BY <2>2 DEF Due
  <2>4. ChunkKeys' = ChunkKeys
    BY DEF ChunkKeys
  <2>5. CASE exec[f].pc = "list"
    BY <2>3, <2>4, <2>5 DEF Knows
  <2>6. CASE exec[f].pc = "freeze"
    BY <2>3, <2>4, <2>6 DEF Knows
  <2>7. CASE exec[f].pc = "deleting"
    BY <2>2, <2>3, <2>7 DEF Knows, Due
  <2>8. CASE exec[f].pc = "mark_cache_purged"
    BY <2>2, <2>8 DEF Knows
  <2> QED
    BY <1>2, <2>5, <2>6, <2>7, <2>8
<1> QED
  BY <1>1, <1>2

\* Its own steps establish what the holder knows.
LEMMA KnowsAfter ==
    ASSUME DShape, PcInv, StateInv, WriteInv, HolderInv, DNext,
           NEW f \in Executors, Held(f),
           \/ OnlyGoes(f) \/ Completes(f) \/ ListChunk(f) \/ SendDelete(f)
    PROVE  Knows(f)'
<1>0. /\ Knows(f) /\ exec \in [Executors -> Memory] /\ exec[f] \in Memory
      /\ exec[f].listed \in Seq(Keys) /\ chunks \in Seq(ChunkRow)
      /\ Keys \subseteq Nat
  BY DeletionAssumption DEF HolderInv, DShape, Memory, Keys
<1>1. ASSUME NEW p \in ExecPcs, Goto(f, p), req' = req
      PROVE  /\ exec'[f].pc = p /\ exec'[f].listed = exec[f].listed
             /\ exec'[f].frozen = exec[f].frozen
             /\ exec'[f].frozen => req'.frozen
  BY <1>0, <1>1, GotoRow DEF Knows
<1>2. ASSUME NEW p \in ExecPcs, Goto(f, p), req' = req,
             p \notin {"mark_drained", "list", "freeze", "deleting",
                       "mark_cache_purged"}
      PROVE  Knows(f)'
  BY <1>1, <1>2 DEF Knows
<1>3. CASE BeginStage(f)
  <2>1. exec[f].stage \in Runnable
    BY <1>3, AtStage DEF BeginStage
  <2> QED
    BY <1>2, <1>3, <2>1, FirstStepRunnable DEF BeginStage
<1>4. CASE BeginQuiescing(f)
  <2>1. exec'[f].pc = "fence" /\ exec'[f].frozen = exec[f].frozen
    BY <1>0, <1>4, GotoRow DEF BeginQuiescing, ExecPcs
  <2>2. req'.frozen = req.frozen
    BY <1>4, QuiesceMoves
  <2> QED
    BY <1>0, <2>1, <2>2 DEF Knows
<1>5. CASE CheckDrained(f)
  <2>1. CASE exec[f].frozen
    <3>1. Goto(f, "mark_drained") /\ req' = req
      BY <1>5, <2>1 DEF CheckDrained
    <3>2. exec'[f].pc = "mark_drained" /\ req'.frozen
      BY <1>0, <1>1, <2>1, <3>1 DEF ExecPcs, Knows
    <3> QED
      BY <3>2 DEF Knows
  <2>2. CASE ~exec[f].frozen
    <3>1. Goto(f, "clear") /\ req' = req
      BY <1>5, <2>2 DEF CheckDrained
    <3> QED
      BY <1>2, <3>1 DEF ExecPcs
  <2> QED
    BY <2>1, <2>2
<1>6. CASE ClearChunks(f)
  <2>1. /\ Goto(f, "list") /\ req' = req /\ chunks' = <<>>
        /\ exec[f].pc = "clear"
    BY <1>6 DEF ClearChunks
  <2>2. exec[f].listed = <<>>
    BY <2>1 DEF PcInv
  <2>3. /\ exec'[f].pc = "list" /\ exec'[f].listed = <<>>
        /\ exec'[f].frozen => req'.frozen
    BY <1>1, <2>1, <2>2 DEF ExecPcs
  <2>4. ChunkKeys' = <<>>
    BY <2>1 DEF ChunkKeys
  <2> QED
    BY <2>3, <2>4 DEF Knows
<1>7. CASE EndListing(f)
  <2>1. /\ Goto(f, "freeze") /\ req' = req /\ chunks' = chunks
        /\ exec[f].pc = "list" /\ Unlisted(f) = {}
        /\ objects' = objects /\ orphans' = orphans
    BY <1>7 DEF EndListing, stores
  <2>2. /\ exec'[f].pc = "freeze" /\ exec'[f].listed = exec[f].listed
        /\ exec'[f].frozen => req'.frozen
    BY <1>1, <2>1 DEF ExecPcs
  <2>3. ChunkKeys' = ChunkKeys /\ \A k : Due(k)' <=> Due(k)
    BY <2>1 DEF ChunkKeys, Due
  <2>4. ASSUME NEW k \in Keys, Due(k)
        PROVE  \E i \in 1..Len(exec[f].listed) : exec[f].listed[i] = k
    BY <1>0, <2>1, <2>4 DEF Knows, Unlisted, Due
  <2>5. ~req.frozen => ChunkKeys = exec[f].listed
    BY <1>0, <2>1 DEF Knows
  <2> QED
    BY <2>1, <2>2, <2>3, <2>4, <2>5 DEF Knows
<1>8. CASE FreezeManifest(f)
  <2>1. exec'[f].pc = "mark_drained" /\ req'.frozen
    BY <1>0, <1>8, GotoRow, FreezeMoves DEF FreezeManifest, ExecPcs
  <2> QED
    BY <2>1 DEF Knows
<1>9. CASE MarkChunkDeleted(f)
  BY <1>2, <1>9 DEF MarkChunkDeleted, ExecPcs
<1>10. CASE PurgeCache(f)
  <2>1. /\ Goto(f, "mark_cache_purged") /\ req' = req /\ cache' = {}
    BY <1>10 DEF PurgeCache
  <2>2. exec'[f].pc = "mark_cache_purged" /\ (exec'[f].frozen => req'.frozen)
    BY <1>1, <2>1 DEF ExecPcs
  <2> QED
    BY <2>1, <2>2 DEF Knows
<1>11. CASE VerifyRows(f) \/ VerifyObjects(f) \/ VerifyCache(f)
  BY <1>2, <1>11 DEF VerifyRows, VerifyObjects, VerifyCache, ExecPcs
<1>12. CASE Completes(f)
  <2>1. /\ exec'[f].pc = "stage" /\ exec'[f].frozen = req'.frozen
    BY <1>12, StageCompleted DEF Completes, StageMoved
  <2> QED
    BY <2>1 DEF Knows
<1>13. CASE ListChunk(f)
  <2>1. PICK k \in Unlisted(f) :
          /\ k \in Keys /\ \A j \in Unlisted(f) : k <= j
          /\ chunks' = Append(chunks, [key |-> k, deleted |-> FALSE])
          /\ exec'[f].listed = Append(exec[f].listed, k)
          /\ exec'[f].pc = "list"
          /\ exec'[f].frozen = exec[f].frozen
    BY <1>13, ListRow
  <2>2. /\ req' = req /\ objects' = objects /\ orphans' = orphans
        /\ ~req.frozen /\ exec[f].pc = "list"
    BY <1>13 DEF ListChunk, AppendAllowed, stores
  <2>3. PICK l : l = exec[f].listed
    OBVIOUS
  <2>4. l \in Seq(Keys) /\ Len(l) \in Nat /\ exec'[f].listed = Append(l, k)
    BY <1>0, <2>1, <2>3
  <2>5. \A j \in Keys : Due(j)' =>
          \/ \E i \in 1..Len(Append(l, k)) : Append(l, k)[i] = j
          \/ \A i \in 1..Len(Append(l, k)) : Append(l, k)[i] < j
    <3>1. SUFFICES ASSUME NEW j \in Keys, Due(j)
                   PROVE  \/ \E i \in 1..Len(Append(l, k)) :
                               Append(l, k)[i] = j
                          \/ \A i \in 1..Len(Append(l, k)) :
                               Append(l, k)[i] < j
      BY <2>2 DEF Due
    <3>2. /\ Len(Append(l, k)) = Len(l) + 1
          /\ \A i \in 1..Len(l) : Append(l, k)[i] = l[i]
          /\ Append(l, k)[Len(l) + 1] = k
      BY <2>1, <2>4
    <3>3. \/ \E i \in 1..Len(l) : l[i] = j
          \/ \A i \in 1..Len(l) : l[i] < j
      BY <1>0, <2>2, <2>3, <3>1 DEF Knows
    <3>4. CASE \E i \in 1..Len(l) : l[i] = j
      BY <2>4, <3>2, <3>4
    <3>5. CASE \A i \in 1..Len(l) : l[i] < j
      <4>1. j \in Unlisted(f)
        BY <2>3, <3>1, <3>5 DEF Unlisted, Due
      <4>2. k <= j /\ k \in Nat /\ j \in Nat
        BY <1>0, <2>1, <4>1
      <4>3. CASE k = j
        BY <2>4, <3>2, <4>3
      <4>4. CASE k < j
        BY <2>4, <3>2, <3>5, <4>4
      <4> QED
        BY <4>2, <4>3, <4>4
    <3> QED
      BY <3>3, <3>4, <3>5
  <2>6. ChunkKeys' = Append(l, k)
    <3>1. PICK c : c = [key |-> k, deleted |-> FALSE]
      OBVIOUS
    <3>2. c \in ChunkRow /\ c.key = k
      BY <2>1, <3>1 DEF ChunkRow
    <3>3. ChunkKeys' = [i \in 1..Len(Append(chunks, c)) |->
                          Append(chunks, c)[i].key]
      BY <2>1, <3>1 DEF ChunkKeys
    <3>4. ChunkKeys = l
      BY <1>0, <2>2, <2>3 DEF Knows
    <3> QED
      BY <1>0, <3>2, <3>3, <3>4, KeysAppend DEF ChunkKeys
  <2>7. exec'[f].frozen => req'.frozen
    BY <1>0, <2>1, <2>2 DEF Knows
  <2> QED
    BY <2>1, <2>4, <2>5, <2>6, <2>7 DEF Knows
<1>14. CASE SendDelete(f)
  <2>1. PICK i \in 1..Len(chunks) :
          /\ deletes' = deletes \cup {chunks[i].key}
          /\ exec'[f].pc = "deleting" /\ exec'[f].chunk = i
          /\ exec'[f].frozen = exec[f].frozen
    BY <1>14, SendRow
  <2>2. req' = req /\ chunks' = chunks
    BY <1>14 DEF SendDelete
  <2> QED
    BY <1>0, <2>1, <2>2 DEF Knows
<1> QED
  BY <1>3, <1>4, <1>5, <1>6, <1>7, <1>8, <1>9, <1>10, <1>11, <1>12, <1>13,
     <1>14 DEF OnlyGoes

\* The holder's knowledge is inductive.
LEMMA HolderStep ==
    ASSUME DShape, PcInv, LeaseInv, StateInv, WriteInv, HolderInv, DNext
    PROVE  HolderInv'
<1>1. SUFFICES ASSUME NEW f \in Executors, Held(f)' PROVE Knows(f)'
  BY DEF HolderInv
<1>2. CASE Claim(f)
  <2>1. /\ exec'[f].pc = "stage" /\ exec'[f].frozen = req.frozen
        /\ req'.frozen = req.frozen
    BY <1>2, ClaimRow, ClaimMoves DEF KeptContent, DShape
  <2> QED
    BY <2>1 DEF Knows
<1>3. CASE /\ Held(f) /\ exec'[f] = exec[f]
           /\ req' = req /\ chunks' = chunks
  BY <1>3, KnowsKept DEF HolderInv
<1>4. CASE /\ Held(f)
           /\ \/ OnlyGoes(f) \/ Completes(f) \/ ListChunk(f) \/ SendDelete(f)
  BY <1>4, KnowsAfter
<1> QED
  BY <1>1, <1>2, <1>3, <1>4, HeldMoves

-----------------------------------------------------------------------------
(***************************************************************************)
(* The stored list.                                                        *)
(***************************************************************************)
\* An ascending list has no more chunks than there are keys.
LEMMA ListBounded ==
    ASSUME DShape,
           \A i, j \in 1..Len(chunks) : i < j => chunks[i].key < chunks[j].key
    PROVE  Len(chunks) <= Cardinality(Keys)
<1> DEFINE n == Len(chunks)
           f == [i \in 1..n |-> chunks[i].key]
<1>1. n \in Nat
  BY DEF DShape
<1>2. IsFiniteSet(Keys)
  <2>1. IsFiniteSet({0}) /\ IsFiniteSet(Writers)
    BY FS_Singleton, DeletionAssumption
  <2> QED
    BY <2>1, FS_Union DEF Keys
<1>3. f \in [1..n -> Keys]
  BY KeyOfChunk
<1>4. \A i, j \in 1..n : chunks[i].key = chunks[j].key => i = j
  <2>1. SUFFICES ASSUME NEW i \in 1..n, NEW j \in 1..n,
                        chunks[i].key = chunks[j].key, i # j
                 PROVE  FALSE
    OBVIOUS
  <2>2. chunks[i].key \in Nat /\ chunks[j].key \in Nat
    BY KeyOfChunk
  <2>3. i < j \/ j < i
    BY <1>1, <2>1
  <2> QED
    BY <2>1, <2>2, <2>3
<1>5. f \in Injection(1..n, Keys)
  BY <1>3, <1>4 DEF Injection, IsInjective
<1>6. Cardinality(1..n) <= Cardinality(Keys)
  BY <1>2, <1>5, FS_Injection
<1> HIDE DEF n, f
<1>7. Cardinality(1..n) = n
  <2>1. Cardinality(1..n) = IF 1 > n THEN 0 ELSE n - 1 + 1
    BY <1>1, FS_Interval
  <2> QED
    BY <1>1, <2>1
<1> QED
  BY <1>6, <1>7 DEF n

\* An executor's place in the list stays within it.
LEMMA PlaceStep ==
    ASSUME DShape, PcInv, ChunkInv, DNext, NEW f \in Executors
    PROVE  exec'[f].chunk <= Cardinality(Keys)
<1>0. /\ exec \in [Executors -> Memory] /\ req \in RequestRow
      /\ exec[f].chunk <= Cardinality(Keys)
      /\ Len(chunks) <= Cardinality(Keys) /\ Len(chunks) \in Nat
      /\ Cardinality(Keys) \in Nat
  <2>1. IsFiniteSet({0}) /\ IsFiniteSet(Writers)
    BY FS_Singleton, DeletionAssumption
  <2>2. IsFiniteSet(Keys)
    BY <2>1, FS_Union DEF Keys
  <2>3. Cardinality(Keys) \in Nat
    BY <2>2, FS_CardinalityType
  <2> QED
    BY <2>3, ListBounded DEF DShape, ChunkInv
<1>1. CASE exec'[f] = exec[f]
  BY <1>0, <1>1
<1>2. CASE ExecutorStep(f) \/ ExecutorFault(f)
  <2>1. CASE OnlyGoes(f)
    BY <1>0, <2>1, GoesTo, GotoRow
  <2>2. CASE GivesUp(f)
    <3>1. exec' = [exec EXCEPT ![f] = Idle]
      BY <2>2 DEF GivesUp, LeaseLost, RecordRetry, Block, StopExecutor,
                  Crash, MarkRetentionPending
    <3> QED
      BY <1>0, <3>1, IdleAgain, IdleRow
  <2>3. CASE Completes(f)
    BY <1>0, <2>3, StageCompleted DEF Completes, StageMoved
  <2>4. CASE Claim(f)
    BY <1>0, <2>4, ClaimRow
  <2>5. CASE ListChunk(f)
    BY <1>0, <2>5, ListRow
  <2>6. CASE SendDelete(f)
    <3>1. PICK i \in 1..Len(chunks) : exec'[f].chunk = i
      BY <2>6, SendRow
    <3> QED
      BY <1>0, <3>1
  <2> QED
    BY <1>2, <2>1, <2>2, <2>3, <2>4, <2>5, <2>6, ExecutorKinds
<1> QED
  BY <1>1, <1>2, MemoryMoves

\* The stored list stays ascending, and what is stamped stays gone.
LEMMA ChunkStep ==
    ASSUME DShape, PcInv, LeaseInv, StateInv, WriteInv, HolderInv, ChunkInv,
           DNext
    PROVE  ChunkInv'
<1> DEFINE DueNext(k) == k \in objects' /\ k \notin orphans'
<1>0. /\ chunks \in Seq(ChunkRow) /\ Len(chunks) \in Nat
      /\ Keys \subseteq Nat
  BY DeletionAssumption DEF DShape, Keys
<1>1. SUFFICES
        /\ \A i, j \in 1..Len(chunks') :
             i < j => chunks'[i].key < chunks'[j].key
        /\ \A i \in 1..Len(chunks') : chunks'[i].deleted =>
             req'.stage \in Late /\ ~DueNext(chunks'[i].key)
  BY PlaceStep DEF ChunkInv, Due
<1>2. CASE chunks' = chunks
  <2>1. ASSUME NEW i \in 1..Len(chunks), chunks[i].deleted
        PROVE  req'.stage \in Late /\ ~DueNext(chunks[i].key)
    <3>1. req.stage \in Late /\ ~Due(chunks[i].key)
      BY <2>1 DEF ChunkInv
    <3>2. community.state \in {"fenced", "tombstone"}
      BY <3>1 DEF StateInv, Late
    <3>3. /\ \A k \in objects' : k \in objects \/ k \in orphans'
          /\ orphans \subseteq orphans'
      BY <3>2, StoresShrink, OrphansGrow
    <3> QED
      BY <3>1, <3>3, LateStays DEF Due
  <2> QED
    BY <1>2, <2>1 DEF ChunkInv
<1>3. CASE chunks' = <<>>
  BY <1>3
<1>4. ASSUME NEW e \in Executors, ListChunk(e)
      PROVE  /\ \A i, j \in 1..Len(chunks') :
                  i < j => chunks'[i].key < chunks'[j].key
             /\ \A i \in 1..Len(chunks') : chunks'[i].deleted =>
                  req'.stage \in Late /\ ~DueNext(chunks'[i].key)
  <2>1. PICK k \in Unlisted(e) :
          /\ k \in Keys
          /\ chunks' = Append(chunks, [key |-> k, deleted |-> FALSE])
    BY <1>4, ListRow
  <2>2. /\ Held(e) /\ exec[e].pc = "list" /\ ~req.frozen
    BY <1>4 DEF ListChunk, AppendAllowed, HeldFenced
  <2>3. req.stage = "fenced"
    BY <2>2, AtStage
  <2>4. ChunkKeys = exec[e].listed
    BY <2>2 DEF HolderInv, Knows
  <2>5. \A i \in 1..Len(chunks) : chunks[i].key < k
    <3>1. \A i \in 1..Len(exec[e].listed) : exec[e].listed[i] < k
      BY <2>1 DEF Unlisted
    <3>2. /\ DOMAIN ChunkKeys = 1..Len(chunks)
          /\ \A i \in 1..Len(chunks) : ChunkKeys[i] = chunks[i].key
      BY DEF ChunkKeys
    <3>3. DOMAIN exec[e].listed = 1..Len(exec[e].listed)
      BY DEF DShape, Memory
    <3> QED
      BY <2>4, <3>1, <3>2, <3>3
  <2>6. \A i \in 1..Len(chunks) : ~chunks[i].deleted
    BY <2>3 DEF ChunkInv, Late
  <2>7. PICK c : c = [key |-> k, deleted |-> FALSE]
    OBVIOUS
  <2>8. c \in ChunkRow /\ c.key = k /\ ~c.deleted
    BY <2>1, <2>7 DEF ChunkRow
  <2>9. /\ chunks' = Append(chunks, c) /\ Len(chunks') = Len(chunks) + 1
        /\ \A i \in 1..Len(chunks) : chunks'[i] = chunks[i]
        /\ chunks'[Len(chunks) + 1] = c
    BY <1>0, <2>1, <2>7, <2>8
  <2>10. \A i \in 1..Len(chunks') : ~chunks'[i].deleted
    BY <1>0, <2>6, <2>8, <2>9
  <2>11. ASSUME NEW i \in 1..Len(chunks'), NEW j \in 1..Len(chunks'), i < j
         PROVE  chunks'[i].key < chunks'[j].key
    <3>1. i \in 1..Len(chunks)
      BY <1>0, <2>9, <2>11
    <3>2. CASE j \in 1..Len(chunks)
      BY <2>9, <2>11, <3>1, <3>2 DEF ChunkInv
    <3>3. CASE j = Len(chunks) + 1
      BY <2>5, <2>8, <2>9, <3>1, <3>3
    <3> QED
      BY <1>0, <2>9, <3>2, <3>3
  <2> QED
    BY <2>10, <2>11
<1>5. ASSUME NEW e \in Executors, MarkChunkDeleted(e)
      PROVE  /\ \A i, j \in 1..Len(chunks') :
                  i < j => chunks'[i].key < chunks'[j].key
             /\ \A i \in 1..Len(chunks') : chunks'[i].deleted =>
                  req'.stage \in Late /\ ~DueNext(chunks'[i].key)
  <2>1. /\ Held(e) /\ exec[e].pc = "deleting" /\ Acknowledged(e)
        /\ chunks' = [chunks EXCEPT ![exec[e].chunk].deleted = TRUE]
        /\ req' = req /\ objects' = objects /\ orphans' = orphans
    BY <1>5 DEF MarkChunkDeleted, HeldFenced, stores
  <2>2. req.stage = "drained"
    BY <2>1, AtStage
  <2>3. PICK n : n = exec[e].chunk
    OBVIOUS
  <2>4. /\ n \in 1..Len(chunks)
        /\ Due(chunks[n].key) => chunks[n].key \in deletes
    BY <2>1, <2>3 DEF HolderInv, Knows
  <2>5. chunks[n].key \notin deletes
    BY <2>1, <2>3 DEF Acknowledged
  <2>6. /\ Len(chunks') = Len(chunks)
        /\ \A i \in 1..Len(chunks) : chunks'[i].key = chunks[i].key
        /\ \A i \in 1..Len(chunks) : i # n => chunks'[i] = chunks[i]
    BY <1>0, <2>1, <2>3, <2>4, StampKeeps
  <2>7. \A k : DueNext(k) <=> Due(k)
    BY <2>1 DEF Due
  <2>8. ASSUME NEW i \in 1..Len(chunks), chunks'[i].deleted
        PROVE  ~Due(chunks[i].key)
    <3>1. CASE i = n
      BY <2>4, <2>5, <3>1
    <3>2. CASE i # n
      BY <2>6, <2>8, <3>2 DEF ChunkInv
    <3> QED
      BY <3>1, <3>2
  <2> QED
    BY <2>1, <2>2, <2>6, <2>7, <2>8 DEF ChunkInv, Late
<1> QED
  BY <1>1, <1>2, <1>3, <1>4, <1>5, ChunkMoves
  DEF Submit, ClearChunks, MarkLogicallyVerified

-----------------------------------------------------------------------------
(***************************************************************************)
(* What the stages promise.                                                *)
(***************************************************************************)
\* From stage drained on the list is frozen, behind the tombstone there is
\* no row, and from the cache purge on no cache entry but late effects.
LEMMA AbsenceStep ==
    ASSUME DShape, PcInv, LeaseInv, StateInv, WriteInv, HolderInv,
           AbsenceInv, DNext
    PROVE  AbsenceInv'
<1>1. ASSUME req'.stage \in Late PROVE req'.frozen
  <2>1. CASE \E e \in Executors : FreezeManifest(e)
    BY <2>1, FreezeMoves
  <2>2. ASSUME NEW e \in Executors, MarkDrained(e), req'.frozen = req.frozen
        PROVE  req'.frozen
    BY <2>2 DEF MarkDrained, HeldFenced, HolderInv, Knows
  <2>3. CASE req.stage \in Late /\ req'.frozen = req.frozen
    BY <2>3 DEF AbsenceInv
  <2>4. CASE Submit \/ Abort
    <3>1. req'.stage \in {"submitted", "aborted"}
      BY <2>4, OperatorMoves
    <3> QED
      BY <1>1, <3>1 DEF Late
  <2> QED
    BY <1>1, <2>1, <2>2, <2>3, <2>4, StageMoves DEF Late
<1>2. ASSUME community'.state = "tombstone" PROVE rows' = {}
  <2>1. CASE community.state = "tombstone"
    BY <2>1, StoresShrink DEF AbsenceInv
  <2>2. CASE community.state # "tombstone"
    <3>1. CASE \E e \in Executors : PurgePostgres(e)
      BY <3>1 DEF PurgePostgres
    <3>2. CASE \E e \in Executors : BeginQuiescing(e) \/ FenceUp(e)
      <4>1. community'.state \in {"quiescing", "fenced"}
        BY <3>2, QuiesceMoves DEF FenceUp
      <4> QED
        BY <1>2, <4>1
    <3>3. CASE Submit \/ FreezeInventory \/ Approve \/ Abort
      BY <1>2, <2>2, <3>3 DEF Submit, FreezeInventory, Approve, Abort
    <3> QED
      BY <1>2, <2>2, <3>1, <3>2, <3>3, RequestMoves DEF RowsKept
  <2> QED
    BY <2>1, <2>2
<1>3. ASSUME req'.stage \in {"cache_purged", "logically_verified",
                             "retention_pending"}
      PROVE  cache' \subseteq orphans'
  <2>1. CASE req.stage \in {"cache_purged", "logically_verified",
                            "retention_pending"}
    <3>1. community.state = "tombstone" /\ cache \subseteq orphans
      BY <2>1 DEF StateInv, Late, AbsenceInv
    <3> QED
      BY <3>1, StoresShrink, OrphansGrow
  <2>2. CASE \E e \in Executors : MarkCachePurged(e)
    BY <2>2 DEF MarkCachePurged, HeldFenced, HolderInv, Knows, stores
  <2>3. CASE \E e \in Executors : FreezeManifest(e)
    <3>1. req'.stage = "fenced"
      BY <2>3, FreezeMoves
    <3> QED
      BY <1>3, <3>1
  <2>4. CASE Submit \/ Abort
    <3>1. req'.stage \in {"submitted", "aborted"}
      BY <2>4, OperatorMoves
    <3> QED
      BY <1>3, <3>1
  <2> QED
    BY <1>3, <2>1, <2>2, <2>3, <2>4, StageMoves
<1> QED
  BY <1>1, <1>2, <1>3 DEF AbsenceInv

\* The stored chunks stay the frozen manifest.
LEMMA ManifestStep ==
    ASSUME DShape, PcInv, LeaseInv, HolderInv, ChunksAreManifest, DNext
    PROVE  ChunksAreManifest'
<1>1. SUFFICES ASSUME req'.frozen,
                      req'.stage \notin {"logically_verified"} \cup Terminal
               PROVE  ChunkKeys' = req'.manifest
  BY DEF ChunksAreManifest
<1>2. CASE \E e \in Executors : FreezeManifest(e)
  <2>1. PICK e \in Executors : FreezeManifest(e)
    BY <1>2
  <2>2. ChunkKeys = exec[e].listed /\ chunks' = chunks
    BY <2>1 DEF FreezeManifest
  <2>3. req'.manifest = exec[e].listed
    BY <2>1, FreezeMoves
  <2> QED
    BY <2>2, <2>3 DEF ChunkKeys
<1>3. CASE Submit \/ Abort
  <2>1. ~req'.frozen \/ req'.stage = "aborted"
    BY <1>3, OperatorMoves
  <2> QED
    BY <1>1, <2>1 DEF Terminal
<1>4. CASE /\ ~\E e \in Executors : FreezeManifest(e)
           /\ ~Submit /\ ~Abort
  <2>1. /\ req'.frozen = req.frozen /\ req'.manifest = req.manifest
        /\ req.stage \notin {"logically_verified"} \cup Terminal
    BY <1>1, <1>4, StageMoves DEF Terminal
  <2>2. ChunkKeys = req.manifest /\ req.frozen
    BY <1>1, <2>1 DEF ChunksAreManifest
  <2>3. CASE chunks' = chunks
    BY <2>1, <2>2, <2>3 DEF ChunkKeys
  <2>4. ASSUME NEW e \in Executors, MarkChunkDeleted(e)
        PROVE  ChunkKeys' = ChunkKeys
    <3>1. /\ Held(e) /\ exec[e].pc = "deleting"
          /\ chunks' = [chunks EXCEPT ![exec[e].chunk].deleted = TRUE]
      BY <2>4 DEF MarkChunkDeleted, HeldFenced
    <3>2. exec[e].chunk \in 1..Len(chunks) /\ chunks \in Seq(ChunkRow)
      BY <3>1 DEF HolderInv, Knows, DShape
    <3>3. /\ Len(chunks') = Len(chunks)
          /\ \A i \in 1..Len(chunks) : chunks'[i].key = chunks[i].key
      BY <3>1, <3>2, StampKeeps
    <3> QED
      BY <3>3 DEF ChunkKeys
  <2>5. ASSUME NEW e \in Executors, ClearChunks(e) \/ ListChunk(e)
        PROVE  FALSE
    BY <2>2, <2>5 DEF ClearChunks, ListChunk, AppendAllowed
  <2>6. ASSUME NEW e \in Executors, MarkLogicallyVerified(e)
        PROVE  FALSE
    <3>1. req'.stage = "logically_verified"
      BY <2>6, StageCompleted DEF StageMoved
    <3> QED
      BY <1>1, <3>1
  <2> QED
    BY <1>4, <2>1, <2>2, <2>3, <2>4, <2>5, <2>6, ChunkMoves
<1> QED
  BY <1>2, <1>3, <1>4

\* The frozen list stays complete: behind the fence only orphans arrive.
LEMMA FinalStep ==
    ASSUME DShape, PcInv, LeaseInv, StateInv, WriteInv, HolderInv,
           FrozenListIsFinal, DNext
    PROVE  FrozenListIsFinal'
<1>1. SUFFICES ASSUME req'.frozen, req'.stage # "aborted",
                      NEW k \in objects', k \notin orphans'
               PROVE  \E i \in 1..Len(req'.manifest) : req'.manifest[i] = k
  BY DEF FrozenListIsFinal
<1>2. CASE \E e \in Executors : FreezeManifest(e)
  <2>1. PICK e \in Executors : FreezeManifest(e)
    BY <1>2
  <2>2. /\ Held(e) /\ exec[e].pc = "freeze"
        /\ objects' = objects /\ orphans' = orphans
    BY <2>1 DEF FreezeManifest, HeldFenced, stores
  <2>3. req'.manifest = exec[e].listed
    BY <2>1, FreezeMoves
  <2>4. k \in Keys /\ Due(k)
    BY <1>1, <2>2 DEF DShape, Due
  <2>5. \E i \in 1..Len(exec[e].listed) : exec[e].listed[i] = k
    BY <2>2, <2>4 DEF HolderInv, Knows
  <2> QED
    BY <2>3, <2>5
<1>3. CASE Submit \/ Abort
  <2>1. ~req'.frozen \/ req'.stage = "aborted"
    BY <1>3, OperatorMoves
  <2> QED
    BY <1>1, <2>1
<1>4. CASE /\ ~\E e \in Executors : FreezeManifest(e)
           /\ ~Submit /\ ~Abort
  <2>1. /\ req'.frozen = req.frozen /\ req'.manifest = req.manifest
        /\ req.stage # "aborted"
    BY <1>1, <1>4, StageMoves
  <2>2. community.state \in {"fenced", "tombstone"}
    <3>1. req.frozen /\ req.stage \in Stages
      BY <1>1, <2>1 DEF DShape, RequestRow
    <3> QED
      BY <2>1, <3>1 DEF StateInv, Stages, Runnable, Terminal, Late
  <2>3. k \in objects /\ k \notin orphans
    BY <1>1, <2>2, StoresShrink, OrphansGrow
  <2>4. \E i \in 1..Len(req.manifest) : req.manifest[i] = k
    BY <1>1, <2>1, <2>3 DEF FrozenListIsFinal
  <2> QED
    BY <2>1, <2>4
<1> QED
  BY <1>2, <1>3, <1>4

\* When every chunk is stamped, every object but late effects is gone.
LEMMA GoneStep ==
    ASSUME DShape, PcInv, LeaseInv, StateInv, WriteInv, ChunkInv,
           AbsenceInv, ChunksAreManifest, FrozenListIsFinal,
           RemovedBindingsAreGone, DNext
    PROVE  RemovedBindingsAreGone'
<1> DEFINE Removed == {"bindings_removed", "postgres_purged", "cache_purged",
                       "logically_verified", "retention_pending"}
<1>1. SUFFICES ASSUME req'.stage \in Removed PROVE objects' \subseteq orphans'
  BY DEF RemovedBindingsAreGone
<1>2. CASE req.stage \in Removed
  <2>1. community.state \in {"fenced", "tombstone"}
    BY <1>2 DEF StateInv, Late
  <2>2. objects \subseteq orphans
    BY <1>2 DEF RemovedBindingsAreGone
  <2> QED
    BY <2>1, <2>2, StoresShrink, OrphansGrow
<1>3. CASE \E e \in Executors : MarkBindingsRemoved(e) /\ req.stage = "drained"
  <2>1. /\ Pending = {} /\ objects' = objects /\ orphans' = orphans
        /\ req.stage = "drained"
    BY <1>3 DEF MarkBindingsRemoved, stores
  <2>2. SUFFICES ASSUME NEW k \in objects, k \notin orphans PROVE FALSE
    BY <2>1
  <2>3. req.frozen
    BY <2>1 DEF AbsenceInv, Late
  <2>4. ChunkKeys = req.manifest
    BY <2>1, <2>3 DEF ChunksAreManifest, Terminal
  <2>5. PICK i \in 1..Len(req.manifest) : req.manifest[i] = k
    BY <2>1, <2>2, <2>3 DEF FrozenListIsFinal
  <2>6. i \in 1..Len(chunks) /\ chunks[i].key = k
    <3>1. /\ DOMAIN ChunkKeys = 1..Len(chunks)
          /\ \A j \in 1..Len(chunks) : ChunkKeys[j] = chunks[j].key
      BY DEF ChunkKeys
    <3>2. DOMAIN req.manifest = 1..Len(req.manifest)
      BY DEF DShape, RequestRow
    <3> QED
      BY <2>4, <2>5, <3>1, <3>2
  <2>7. chunks[i].deleted
    BY <2>1, <2>6 DEF Pending
  <2> QED
    BY <2>2, <2>6, <2>7 DEF ChunkInv, Due
<1>4. CASE \E e \in Executors : FreezeManifest(e)
  <2>1. req'.stage = "fenced"
    BY <1>4, FreezeMoves
  <2> QED
    BY <1>1, <2>1
<1>5. CASE Submit \/ Abort
  <2>1. req'.stage \in {"submitted", "aborted"}
    BY <1>5, OperatorMoves
  <2> QED
    BY <1>1, <2>1
<1> QED
  BY <1>1, <1>2, <1>3, <1>4, <1>5, StageMoves

-----------------------------------------------------------------------------
(***************************************************************************)
(* The theorems.                                                           *)
(***************************************************************************)
\* The first request, and nothing under way.
LEMMA DeletionStarts == DInit => DeletionInv
<1> SUFFICES ASSUME DInit PROVE DeletionInv
  OBVIOUS
<1>0. /\ MaxRequests \in Nat \ {0} /\ RetryLimit \in Nat \ {0}
      /\ MaxFaults \in Nat /\ Writers \subseteq Nat \ {0}
  BY DeletionAssumption
<1>1. /\ req \in RequestRow /\ req.id = 1 /\ req.stage = "submitted"
      /\ req.live = FALSE /\ req.fence = 0 /\ req.retries = 0
      /\ req.quiesced = FALSE /\ req.frozen = FALSE
  BY NewRow DEF DInit
<1>2. /\ community \in CommunityRow /\ community.state = "active"
      /\ community.fence = 0 /\ community.archived = FALSE
  BY DEF DInit, CommunityRow
<1>3. /\ exec \in [Executors -> Memory]
      /\ \A e \in Executors : exec[e] = Idle
  BY IdleRow DEF DInit
<1>4. /\ serving \in [Writers -> Lease]
      /\ \A w \in Writers : serving[w].live = FALSE /\ serving[w].fence = 0
  BY DEF DInit, Lease
<1>5. DShape
  <2>1. chunks \in Seq(ChunkRow)
    BY DEF DInit
  <2>2. /\ objects \subseteq Keys /\ deletes \subseteq Keys
        /\ cache \subseteq Writers /\ rows \subseteq Keys
        /\ puts \subseteq Writers \X Targets /\ orphans \subseteq Writers
        /\ destroyed \in BOOLEAN
    BY DEF DInit, Keys
  <2>3. faults \in 0..MaxFaults
    BY <1>0 DEF DInit
  <2> QED
    BY <1>1, <1>2, <1>3, <1>4, <2>1, <2>2, <2>3 DEF DShape
<1>6. PcInv
  <2>1. "submitted" \in StagesAt["idle"]
    BY DEF StagesAt, ExecPcs
  <2> QED
    BY <1>1, <1>3, <2>1, IdleRow DEF PcInv
<1>7. LeaseInv /\ StateInv
  BY <1>0, <1>1, <1>2 DEF LeaseInv, StateInv, Late
<1>8. FenceInv
  BY <1>0, <1>1, <1>3, <1>4, IdleRow DEF FenceInv
<1>9. WriteInv /\ RemovalInv
  BY <1>2 DEF DInit, WriteInv, RemovalInv
<1>10. ChunkInv
  <2>1. chunks = <<>>
    BY DEF DInit
  <2>2. IsFiniteSet(Keys)
    <3>1. IsFiniteSet({0}) /\ IsFiniteSet(Writers)
      BY FS_Singleton, DeletionAssumption
    <3> QED
      BY <3>1, FS_Union DEF Keys
  <2>3. Cardinality(Keys) \in Nat
    BY <2>2, FS_CardinalityType
  <2> QED
    BY <1>3, <2>1, <2>3, IdleRow DEF ChunkInv
<1>11. HolderInv
  BY <1>1, <1>3, IdleRow DEF HolderInv, Held
<1>12. AbsenceInv
  BY <1>1, <1>2 DEF AbsenceInv, Late
<1>13. ChunksAreManifest /\ FrozenListIsFinal /\ RemovedBindingsAreGone
  BY <1>1 DEF ChunksAreManifest, FrozenListIsFinal, RemovedBindingsAreGone
<1> QED
  BY <1>5, <1>6, <1>7, <1>8, <1>9, <1>10, <1>11, <1>12, <1>13
  DEF DeletionInv

\* Every step keeps the invariant.
LEMMA DeletionStep == DeletionInv /\ [DNext]_dvars => DeletionInv'
<1> SUFFICES ASSUME DeletionInv, [DNext]_dvars PROVE DeletionInv'
  OBVIOUS
<1> USE DEF DeletionInv
<1>1. CASE DNext
  BY <1>1, ShapeStep, PcStep, LeaseStep, StateStep, FenceStep, WriteStep,
     RemovalStep, ChunkStep, HolderStep, AbsenceStep, ManifestStep,
     FinalStep, GoneStep
<1>2. CASE UNCHANGED dvars
  <2> USE <1>2 DEF dvars
  <2>1. DShape' /\ LeaseInv' /\ StateInv' /\ FenceInv' /\ PcInv'
    BY DEF DShape, LeaseInv, StateInv, FenceInv, PcInv
  <2>2. WriteInv' /\ RemovalInv' /\ ChunkInv' /\ AbsenceInv'
    BY DEF WriteInv, RemovalInv, ChunkInv, AbsenceInv, Due
  <2>3. HolderInv'
    BY DEF HolderInv, Held, Knows, Due, ChunkKeys
  <2>4. ChunksAreManifest' /\ FrozenListIsFinal' /\ RemovedBindingsAreGone'
    BY DEF ChunksAreManifest, FrozenListIsFinal, RemovedBindingsAreGone,
           ChunkKeys
  <2> QED
    BY <2>1, <2>2, <2>3, <2>4
<1> QED
  BY <1>1, <1>2

\* The invariant holds in every reachable state.
LEMMA DeletionInvariant == DSpec => []DeletionInv
BY DeletionStarts, DeletionStep, PTL DEF DSpec

\* A community that serves, or is being quiesced, has lost nothing and has
\* no delete under way: abort is refused from stage drained on, and only an
\* executor at that stage sends a delete (abort, delete_manifest_chunk_with).
THEOREM AbortedIsWhole == DSpec => []ActiveIsWhole
<1>1. DeletionInv => ActiveIsWhole
  BY DEF DeletionInv, ActiveIsWhole, RemovalInv, StateInv, Late
<1> QED
  BY <1>1, DeletionInvariant, PTL

\* A community that serves is not archived, however often quiescing was
\* begun again (begin_quiescing, abort).
THEOREM ArchivedRestored == DSpec => []AbortRestores
<1>1. DeletionInv => AbortRestores
  BY DEF DeletionInv, AbortRestores, StateInv
<1> QED
  BY <1>1, DeletionInvariant, PTL

\* The stored chunks are the frozen manifest, whichever executors listed
\* (append_manifest_key_chunk, freeze_destructive_storage_manifest).
THEOREM ChunksStayManifest == DSpec => []ChunksAreManifest
<1>1. DeletionInv => ChunksAreManifest
  BY DEF DeletionInv
<1> QED
  BY <1>1, DeletionInvariant, PTL

\* The frozen list is complete but for late effects (execute_stage).
THEOREM FrozenListComplete == DSpec => []FrozenListIsFinal
<1>1. DeletionInv => FrozenListIsFinal
  BY DEF DeletionInv
<1> QED
  BY <1>1, DeletionInvariant, PTL

\* After stage bindings_removed only late effects are in the object store
\* (mark_manifest_chunk_deleted, mark_bindings_removed).
THEOREM BindingsStayGone == DSpec => []RemovedBindingsAreGone
<1>1. DeletionInv => RemovedBindingsAreGone
  BY DEF DeletionInv
<1> QED
  BY <1>1, DeletionInvariant, PTL

\* A verified request left no row, and no object or cache entry but late
\* effects (verify_postgres_logically_deleted, mark_logically_verified).
THEOREM VerifiedStaysAbsent == DSpec => []VerifiedIsAbsent
<1>1. DeletionInv => VerifiedIsAbsent
  BY DEF DeletionInv, VerifiedIsAbsent, RemovedBindingsAreGone, AbsenceInv,
         StateInv, Late
<1> QED
  BY <1>1, DeletionInvariant, PTL

\* The type invariant, with the bounds on the retry streak, on the fence
\* generation and on the place in the list (record_retry, fence, abort).
THEOREM DeletionTypeCorrect == DSpec => []DeletionTypeOK
<1>1. DeletionInv => DeletionTypeOK
  <2> SUFFICES ASSUME DeletionInv PROVE DeletionTypeOK
    OBVIOUS
  <2> USE DEF DeletionInv
  <2>0. MaxRequests \in Nat /\ RetryLimit \in Nat
    BY DeletionAssumption
  <2>1. community.fence <= 2 * MaxRequests
    BY FenceBound
  <2>2. /\ community.state \in {"active", "quiescing", "fenced", "tombstone"}
        /\ community.fence \in Fences /\ community.archived \in BOOLEAN
    BY <2>0, <2>1 DEF DShape, CommunityRow, Fences
  <2>3. /\ req.id \in 1..MaxRequests /\ req.stage \in Stages
        /\ req.gen \in Nat /\ req.fence \in Fences
        /\ req.owner \in Executors \cup {NoOwner}
        /\ req.retries \in 0..RetryLimit
        /\ req.retryStage \in Runnable \cup {"none"}
        /\ {req.live, req.blocked, req.quiesced, req.before, req.frozen}
             \subseteq BOOLEAN
    BY <2>0 DEF DShape, RequestRow, LeaseInv, FenceInv, Fences
  <2>4. \A i \in 1..Len(chunks) :
          chunks[i].key \in Keys /\ chunks[i].deleted \in BOOLEAN
    BY KeyOfChunk DEF ChunkRow
  <2>5. ASSUME NEW e \in Executors
        PROVE  /\ exec[e].pc \in ExecPcs /\ exec[e].id \in 0..MaxRequests
               /\ exec[e].stage \in Stages /\ exec[e].fence \in Fences
               /\ exec[e].chunk \in 0..Cardinality(Keys)
    <3>1. exec[e] \in Memory
      BY DEF DShape
    <3>2. IsFiniteSet(Keys)
      <4>1. IsFiniteSet({0}) /\ IsFiniteSet(Writers)
        BY FS_Singleton, DeletionAssumption
      <4> QED
        BY <4>1, FS_Union DEF Keys
    <3>3. Cardinality(Keys) \in Nat
      BY <3>2, FS_CardinalityType
    <3>4. /\ exec[e].id <= req.id /\ exec[e].fence <= 2 * MaxRequests
          /\ exec[e].chunk <= Cardinality(Keys)
      BY DEF PcInv, FenceInv, ChunkInv
    <3> QED
      BY <2>0, <2>3, <3>1, <3>3, <3>4 DEF Memory, Fences
  <2>6. ASSUME NEW w \in Writers
        PROVE  /\ serving[w].pc \in {"idle", "admitted", "sent", "recorded",
                                     "done"}
               /\ serving[w].live \in BOOLEAN /\ serving[w].fence \in Fences
    <3>1. serving[w] \in Lease /\ serving[w].fence <= 2 * MaxRequests
      BY DEF DShape, FenceInv
    <3> QED
      BY <2>0, <3>1 DEF Lease, Fences
  <2>7. /\ objects \subseteq Keys /\ deletes \subseteq Keys
        /\ cache \subseteq Writers /\ rows \subseteq Writers \cup {0}
        /\ puts \subseteq Writers \X Targets /\ orphans \subseteq Writers
        /\ destroyed \in BOOLEAN /\ faults \in 0..MaxFaults
    BY DEF DShape, Keys
  <2> QED
    BY <2>2, <2>3, <2>4, <2>5, <2>6, <2>7 DEF DeletionTypeOK
<1> QED
  BY <1>1, DeletionInvariant, PTL


-----------------------------------------------------------------------------
(***************************************************************************)
(* The holder is not refused.                                              *)
(***************************************************************************)
\* Behind the fence the request has the community's fence generation.
RequestFenced == req.stage \in {"fenced"} \cup Late => req.fence = community.fence

\* The holder's token has the request's, and its chunk is not stamped.
TokenGood(e) ==
    /\ exec[e].fence = req.fence
    /\ exec[e].pc = "deleting" =>
         exec[e].chunk \in 1..Len(chunks) /\ ~chunks[exec[e].chunk].deleted

TokenInv == RequestFenced /\ \A e \in Executors : Held(e) => TokenGood(e)

\* The request keeps the community's fence generation.
LEMMA RequestFencedStep ==
    ASSUME DShape, PcInv, LeaseInv, RequestFenced, DNext
    PROVE  RequestFenced'
<1>1. CASE RowsKept
  BY <1>1 DEF RowsKept, RequestFenced
<1>2. CASE Submit \/ FreezeInventory \/ Approve \/ Abort
  BY <1>2, OperatorMoves DEF RequestFenced, Late
<1>3. CASE /\ community' = community
           /\ \/ Unblock \/ BlockPreclaim \/ HeartbeatsMissed \/ LeaseRunsOut
              \/ \E e \in Executors : RecordRetry(e) \/ Block(e)
  BY <1>3, LeaseEnds DEF KeptContent, RequestFenced
<1>4. ASSUME NEW e \in Executors, community' = community,
             Claim(e) \/ StopExecutor(e) \/ FreezeManifest(e)
      PROVE  RequestFenced'
  <2>1. req'.stage = req.stage /\ req'.fence = req.fence
    BY <1>4, ClaimMoves, StopMoves, FreezeMoves DEF KeptContent
  <2> QED
    BY <1>4, <2>1 DEF RequestFenced
<1>5. ASSUME NEW e \in Executors, community' = community,
             \/ MarkDrained(e) \/ MarkBindingsRemoved(e)
             \/ MarkCachePurged(e) \/ MarkLogicallyVerified(e)
             \/ MarkRetentionPending(e)
      PROVE  RequestFenced'
  <2>1. req'.fence = exec[e].fence
    BY <1>5, StageCompleted, RetainMoves
  <2>2. community.fence = exec[e].fence
    BY <1>5 DEF MarkDrained, MarkBindingsRemoved, MarkCachePurged,
                MarkLogicallyVerified, MarkRetentionPending, HeldFenced
  <2> QED
    BY <1>5, <2>1, <2>2 DEF RequestFenced
<1>6. ASSUME NEW e \in Executors, BeginQuiescing(e) PROVE RequestFenced'
  BY <1>6, QuiesceMoves DEF RequestFenced, Late
<1>7. ASSUME NEW e \in Executors, FenceUp(e) PROVE RequestFenced'
  BY <1>7, StageCompleted DEF FenceUp, RequestFenced
<1>8. ASSUME NEW e \in Executors, PurgePostgres(e) PROVE RequestFenced'
  <2>1. req'.fence = exec[e].fence /\ community.fence = exec[e].fence
    BY <1>8, StageCompleted DEF PurgePostgres, HeldFenced
  <2>2. community' = [community EXCEPT !.state = "tombstone",
                                       !.archived = TRUE]
    BY <1>8 DEF PurgePostgres
  <2>3. community'.fence = community.fence
    BY <2>2 DEF DShape, CommunityRow
  <2> QED
    BY <2>1, <2>3 DEF RequestFenced
<1> QED
  BY <1>1, <1>2, <1>3, <1>4, <1>5, <1>6, <1>7, <1>8, RequestMoves

\* The holder's own steps keep its token good.
LEMMA TokenAfter ==
    ASSUME DShape, PcInv, NEW f \in Executors, Held(f), TokenGood(f),
           \/ OnlyGoes(f) \/ Completes(f) \/ ListChunk(f) \/ SendDelete(f)
    PROVE  TokenGood(f)'
<1>0. exec \in [Executors -> Memory] /\ exec[f] \in Memory
  BY DEF DShape
<1>1. CASE OnlyGoes(f)
  <2>1. PICK p \in ExecPcs \ {"idle", "stage"} :
          Goto(f, p) /\ exec[f].stage \in StagesAt[p]
    BY <1>1, GoesTo
  <2>2. exec'[f].pc = p /\ exec'[f].fence = exec[f].fence
    BY <1>0, <2>1, GotoRow
  <2>3. req'.fence = req.fence
    BY <1>1, QuiesceMoves, FreezeMoves
    DEF OnlyGoes, BeginStage, CheckDrained, ClearChunks, EndListing,
        MarkChunkDeleted, PurgeCache, VerifyRows, VerifyObjects, VerifyCache
  <2>4. p # "deleting"
    <3>1. ASSUME BeginStage(f) PROVE exec'[f].pc # "deleting"
      <4>1. exec[f].stage \in Runnable
        BY <3>1, AtStage DEF BeginStage
      <4>2. Goto(f, FirstStep[exec[f].stage])
            /\ FirstStep[exec[f].stage] \in ExecPcs
            /\ FirstStep[exec[f].stage] # "deleting"
        BY <3>1, <4>1 DEF BeginStage, FirstStep, Runnable, ExecPcs
      <4> QED
        BY <1>0, <4>2, GotoRow
    <3>2. ASSUME CheckDrained(f) PROVE exec'[f].pc # "deleting"
      <4>1. Goto(f, "mark_drained") \/ Goto(f, "clear")
        BY <3>2 DEF CheckDrained
      <4> QED
        BY <1>0, <4>1, GotoRow DEF ExecPcs
    <3>3. ASSUME NEW r \in {"fence", "list", "freeze", "mark_drained",
                            "next_chunk", "mark_cache_purged",
                            "verify_objects", "verify_cache",
                            "mark_verified"},
                 Goto(f, r)
          PROVE  exec'[f].pc # "deleting"
      BY <1>0, <3>3, GotoRow DEF ExecPcs
    <3> QED
      BY <1>1, <2>2, <3>1, <3>2, <3>3
      DEF OnlyGoes, BeginQuiescing, ClearChunks, EndListing, FreezeManifest,
          MarkChunkDeleted, PurgeCache, VerifyRows, VerifyObjects, VerifyCache
  <2> QED
    BY <2>2, <2>3, <2>4 DEF TokenGood
<1>2. CASE Completes(f)
  <2>1. exec'[f].pc = "stage" /\ exec'[f].fence = req'.fence
    BY <1>2, StageCompleted DEF Completes, StageMoved
  <2> QED
    BY <2>1 DEF TokenGood
<1>3. CASE ListChunk(f)
  <2>1. /\ exec'[f].pc = "list" /\ exec'[f].fence = exec[f].fence
        /\ req' = req
    BY <1>3, ListRow DEF ListChunk
  <2> QED
    BY <2>1 DEF TokenGood
<1>4. CASE SendDelete(f)
  <2>1. PICK i \in Pending :
          exec' = [exec EXCEPT ![f].pc = "deleting", ![f].chunk = i]
    BY <1>4 DEF SendDelete
  <2>2. exec'[f].chunk = i /\ exec'[f].fence = exec[f].fence
    BY <1>0, <2>1 DEF Memory
  <2>3. i \in 1..Len(chunks) /\ ~chunks[i].deleted
    BY DEF Pending
  <2>4. req' = req /\ chunks' = chunks
    BY <1>4 DEF SendDelete
  <2> QED
    BY <2>2, <2>3, <2>4 DEF TokenGood
<1> QED
  BY <1>1, <1>2, <1>3, <1>4

\* Every step keeps the token of the holder good.
LEMMA TokenStep ==
    ASSUME DShape, PcInv, LeaseInv, TokenInv, DNext
    PROVE  TokenInv'
<1>1. RequestFenced'
  BY RequestFencedStep DEF TokenInv
<1>2. ASSUME NEW f \in Executors, Held(f)' PROVE TokenGood(f)'
  <2>1. CASE Claim(f)
    <3>1. /\ exec'[f].pc = "stage" /\ exec'[f].fence = req.fence
          /\ req'.fence = req.fence
      BY <2>1, ClaimRow, ClaimMoves DEF KeptContent, DShape
    <3> QED
      BY <3>1 DEF TokenGood
  <2>2. CASE /\ Held(f) /\ exec'[f] = exec[f]
             /\ req' = req /\ chunks' = chunks
    BY <2>2 DEF TokenInv, TokenGood
  <2>3. CASE /\ Held(f)
             /\ \/ OnlyGoes(f) \/ Completes(f) \/ ListChunk(f) \/ SendDelete(f)
    BY <2>3, TokenAfter DEF TokenInv
  <2> QED
    BY <1>2, <2>1, <2>2, <2>3, HeldMoves
<1> QED
  BY <1>1, <1>2 DEF TokenInv

\* The executor that holds the lease passes the fence check too, and finds
\* its chunk unstamped (verify_lease_and_fence, mark_manifest_chunk_deleted,
\* the token that execute_claim reads back after every stage).
THEOREM HolderStaysGood == DSpec => []HolderNotRefused
<1>1. DInit => TokenInv
  <2> SUFFICES ASSUME DInit PROVE TokenInv
    OBVIOUS
  <2>1. req.stage = "submitted" /\ ~req.live
    BY NewRow DEF DInit, NewRequest
  <2> QED
    BY <2>1 DEF TokenInv, RequestFenced, Late, Held
<1>2. DeletionInv /\ TokenInv /\ [DNext]_dvars => TokenInv'
  <2> SUFFICES ASSUME DeletionInv, TokenInv, [DNext]_dvars PROVE TokenInv'
    OBVIOUS
  <2>1. CASE DNext
    BY <2>1, TokenStep DEF DeletionInv
  <2>2. CASE UNCHANGED dvars
    BY <2>2 DEF dvars, TokenInv, RequestFenced, TokenGood, Held
  <2> QED
    BY <2>1, <2>2
<1>3. DeletionInv /\ TokenInv => HolderNotRefused
  <2> SUFFICES ASSUME DeletionInv, TokenInv, NEW e \in Executors, Held(e)
               PROVE  /\ req.stage # "approved" => HeldFenced(e)
                      /\ exec[e].pc = "deleting" => ~chunks[exec[e].chunk].deleted
    BY DEF HolderNotRefused
  <2>1. req.stage \in Runnable /\ TokenGood(e)
    BY DEF DeletionInv, LeaseInv, Held, TokenInv
  <2>2. ASSUME req.stage # "approved" PROVE HeldFenced(e)
    <3>1. /\ req.fence = community.fence
          /\ community.state \in {"fenced", "tombstone"}
      BY <2>1, <2>2 DEF TokenInv, RequestFenced, DeletionInv, StateInv, Late, Runnable
    <3> QED
      BY <2>1, <3>1 DEF TokenGood, HeldFenced
  <2> QED
    BY <2>1, <2>2 DEF TokenGood
<1> QED
  BY <1>1, <1>2, <1>3, DeletionInvariant, PTL DEF DSpec
=============================================================================
