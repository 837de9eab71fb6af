------------------------------ MODULE Deletion ------------------------------
(***************************************************************************)
(* Community deletion: the durable request and its leases                  *)
(* (crates/buzz-db/src/store/deletion.rs), the executors that drive it     *)
(* (crates/buzz-deletion/src/lib.rs), and the serving writers whose        *)
(* effects in the object store and the cache it must drain.                *)
(*                                                                         *)
(* One community, the sequence of requests for it, several executor        *)
(* processes and several serving writes.  A database transaction is one    *)
(* action.  Calls of the object store are split: a PUT (puts) or a bulk    *)
(* delete (deletes) that was sent lands later, whether or not its sender   *)
(* is still there.  Time is abstract: a lease that is not renewed expires  *)
(* at any moment, at the price of one fault if its holder still runs.      *)
(***************************************************************************)
EXTENDS Integers, Sequences, FiniteSets

CONSTANTS
    Executors,    \* deletion executor processes
    Writers,      \* serving writes, by number
    RetryLimit,   \* failures at one stage that block the request (8)
    MaxRequests,  \* bound: requests submitted for the community
    MaxFaults     \* bound: crashes, lost leases, failing calls, and the
                  \* operator's blocks and unblocks

ASSUME DeletionAssumption ==
    /\ Writers \subseteq Nat \ {0} /\ IsFiniteSet(Writers)
    /\ RetryLimit \in Nat \ {0}
    /\ MaxRequests \in Nat \ {0}
    /\ MaxFaults \in Nat

\* The object that was there before any write, and one object per writer.
Keys == {0} \cup Writers

\* Where the effect of a leased serving write goes: media and git write objects,
\* tunnels write the cache.  Presence, rate limits and replay keys are written to
\* the cache without a lease and are not modelled.
Targets == {"object", "cache"}

NoOwner == "none"

VARIABLES
    community,  \* communities row: state, fence generation, archived
    req,        \* the newest community_deletion_requests row
    chunks,     \* community_deletion_manifest_keys of req, in chunk order
    exec,       \* what each executor holds in memory
    serving,    \* what each serving write holds, with its lease row
    objects,    \* keys under the tenant's prefixes
    cache,      \* entries of the tenant's Redis namespace
    rows,       \* tenant rows in PostgreSQL
    puts,       \* effects that were sent and have not landed
    deletes,    \* bulk deletes that were sent and have not landed
    orphans,    \* writes whose lease ended while their effect was under way
    destroyed,  \* whether any tenant data was removed
    faults      \* faults so far

stores == <<objects, cache, rows, puts, deletes, orphans, destroyed>>

dvars == <<community, req, chunks, exec, serving, objects, cache, rows, puts,
           deletes, orphans, destroyed, faults>>

-----------------------------------------------------------------------------
(***************************************************************************)
(* Stages and tokens.                                                      *)
(***************************************************************************)
Runnable == {"approved", "fenced", "drained", "bindings_removed",
             "postgres_purged", "cache_purged", "logically_verified"}

Terminal == {"retention_pending", "aborted"}

Stages == {"submitted", "inventoried"} \cup Runnable \cup Terminal

StageAfter ==
    [ submitted          |-> "inventoried",
      inventoried        |-> "approved",
      approved           |-> "fenced",
      fenced             |-> "drained",
      drained            |-> "bindings_removed",
      bindings_removed   |-> "postgres_purged",
      postgres_purged    |-> "cache_purged",
      cache_purged       |-> "logically_verified",
      logically_verified |-> "retention_pending" ]

NewRequest(id) ==
    [ id |-> id, stage |-> "submitted", gen |-> 0, owner |-> NoOwner,
      live |-> FALSE, fence |-> 0, blocked |-> FALSE, retries |-> 0,
      retryStage |-> "none", quiesced |-> FALSE, before |-> FALSE,
      frozen |-> FALSE, manifest |-> <<>> ]

Idle == [ pc |-> "idle", id |-> 0, gen |-> 0, stage |-> "submitted",
          fence |-> 0, frozen |-> FALSE, listed |-> <<>>, chunk |-> 0 ]

\* verify_lease: the token still owns the request, at the stage it works on.
Held(e) ==
    /\ exec[e].id = req.id
    /\ req.stage = exec[e].stage
    /\ req.owner = e
    /\ req.gen = exec[e].gen
    /\ req.live
    /\ ~req.blocked

\* verify_lease_and_fence
HeldFenced(e) ==
    /\ Held(e)
    /\ req.fence = exec[e].fence
    /\ community.state \in {"fenced", "tombstone"}
    /\ community.fence = exec[e].fence

ChunkKeys == [i \in 1..Len(chunks) |-> chunks[i].key]

\* Mutant: nobody waits for the serving leases.
LiveServingIgnored == {}

\* The serving leases that hold off the fence and the drain.
LiveServing == {w \in Writers : serving[w].live}

\* advance_request_tx: one stage on, and the retry streak is over.
Advanced(r, fence) ==
    [r EXCEPT !.stage = StageAfter[r.stage], !.fence = fence,
              !.retries = 0, !.retryStage = "none"]

Released(r) == [r EXCEPT !.owner = NoOwner, !.live = FALSE]

Goto(e, pc) == exec' = [exec EXCEPT ![e].pc = pc]

\* Mutant: the token keeps the fence generation of its claim.
RereadOldFence(e, r) ==
    exec' = [exec EXCEPT ![e].pc = "stage", ![e].stage = r.stage,
                         ![e].frozen = r.frozen,
                         ![e].listed = <<>>, ![e].chunk = 0]

\* The request as the executor reads it back after a stage (get).
Reread(e, r) ==
    exec' = [exec EXCEPT ![e].pc = "stage", ![e].stage = r.stage,
                         ![e].fence = r.fence, ![e].frozen = r.frozen,
                         ![e].listed = <<>>, ![e].chunk = 0]

Fault == faults < MaxFaults /\ faults' = faults + 1

-----------------------------------------------------------------------------
(***************************************************************************)
(* The operator.                                                           *)
(***************************************************************************)
\* submit: an active community without a request that is not aborted.
Submit ==
    /\ community.state = "active"
    /\ req.stage = "aborted"
    /\ req.id < MaxRequests
    /\ req' = NewRequest(req.id + 1)
    /\ chunks' = <<>>
    /\ UNCHANGED <<community, exec, serving, stores, faults>>

\* freeze_inventory, approve
FreezeInventory ==
    /\ req.stage = "submitted" /\ ~req.blocked
    /\ req' = [req EXCEPT !.stage = "inventoried"]
    /\ UNCHANGED <<community, chunks, exec, serving, stores, faults>>

Approve ==
    /\ req.stage = "inventoried" /\ ~req.blocked
    /\ req' = [req EXCEPT !.stage = "approved"]
    /\ UNCHANGED <<community, chunks, exec, serving, stores, faults>>

\* Mutant: an abort is accepted while objects are being deleted.
AbortableLate == {"approved", "fenced", "drained"}

\* abort is open until object deletion may begin.
Abortable == {"approved", "fenced"}

\* Mutant: an abort restores what quiescing set, not what it found.
ArchivedBeforeAlways == community.archived

ArchivedBefore == IF req.quiesced THEN req.before ELSE community.archived

Abort ==
    /\ req.stage \in Abortable
    /\ LiveServing = {}
    /\ community.state \in {"active", "quiescing", "fenced"}
    /\ community' = [ state |-> "active", fence |-> community.fence + 1,
                      archived |-> ArchivedBefore ]
    /\ req' = [Released(req) EXCEPT !.stage = "aborted", !.gen = @ + 1,
                                    !.fence = community.fence + 1,
                                    !.blocked = FALSE, !.retries = 0,
                                    !.retryStage = "none"]
    /\ UNCHANGED <<chunks, exec, serving, stores, faults>>

Unblock ==
    /\ req.blocked /\ ~req.live
    /\ req.stage \notin Terminal
    /\ Fault
    /\ req' = [Released(req) EXCEPT !.blocked = FALSE, !.retries = 0,
                                    !.retryStage = "none"]
    /\ UNCHANGED <<community, chunks, exec, serving, stores>>

\* block_preclaim_setup, and a claim that finds the catalog has drifted.
BlockPreclaim ==
    /\ req.stage \notin Terminal
    /\ ~req.live /\ ~req.blocked
    /\ Fault
    /\ req' = [req EXCEPT !.blocked = TRUE]
    /\ UNCHANGED <<community, chunks, exec, serving, stores>>

-----------------------------------------------------------------------------
(***************************************************************************)
(* An executor between stages.                                             *)
(***************************************************************************)
\* claim: an approved, runnable, unblocked request without a live lease.
Claim(e) ==
    /\ exec[e].pc = "idle"
    /\ req.stage \in Runnable
    /\ ~req.blocked /\ ~req.live
    /\ req' = [req EXCEPT !.owner = e, !.gen = @ + 1, !.live = TRUE]
    /\ exec' = [exec EXCEPT ![e] =
                  [Idle EXCEPT !.pc = "stage", !.id = req.id,
                               !.gen = req.gen + 1, !.stage = req.stage,
                               !.fence = req.fence, !.frozen = req.frozen]]
    /\ UNCHANGED <<community, chunks, serving, stores, faults>>

FirstStep ==
    [ approved |-> "quiesce", fenced |-> "drain", drained |-> "next_chunk",
      bindings_removed |-> "purge", postgres_purged |-> "purge_cache",
      cache_purged |-> "verify_rows", logically_verified |-> "retain" ]

\* The heartbeat at the top of execute_claim's loop; then the stage starts.
BeginStage(e) ==
    /\ exec[e].pc = "stage"
    /\ Held(e)
    /\ Goto(e, FirstStep[exec[e].stage])
    /\ UNCHANGED <<community, req, chunks, serving, stores, faults>>

\* A heartbeat or a verification fails: the claim is a successor's business.
LeaseLost(e) ==
    /\ exec[e].pc # "idle"
    /\ ~Held(e)
    /\ exec' = [exec EXCEPT ![e] = Idle]
    /\ UNCHANGED <<community, req, chunks, serving, stores, faults>>

\* The heartbeat of the claim runs as long as its executor does.
HolderRuns == \E e \in Executors : exec[e].pc # "idle" /\ Held(e)

\* No heartbeat reaches the database for the lease's duration.
HeartbeatsMissed ==
    /\ req.live
    /\ HolderRuns
    /\ Fault
    /\ req' = [req EXCEPT !.live = FALSE]
    /\ UNCHANGED <<community, chunks, exec, serving, stores>>

\* The lease of a process that is gone runs out.
LeaseRunsOut ==
    /\ req.live
    /\ ~HolderRuns
    /\ req' = [req EXCEPT !.live = FALSE]
    /\ UNCHANGED <<community, chunks, exec, serving, stores, faults>>

\* stop_executor on shutdown: a release checked against the generation.
StopExecutor(e) ==
    /\ exec[e].pc # "idle"
    /\ Fault
    /\ req' = IF /\ req.id = exec[e].id /\ req.owner = e
                 /\ req.gen = exec[e].gen
              THEN Released(req) ELSE req
    /\ exec' = [exec EXCEPT ![e] = Idle]
    /\ UNCHANGED <<community, chunks, serving, stores>>

\* The process is killed: nothing is released.
Crash(e) ==
    /\ exec[e].pc # "idle"
    /\ Fault
    /\ exec' = [exec EXCEPT ![e] = Idle]
    /\ UNCHANGED <<community, req, chunks, serving, stores>>

\* Mutant: the limit is compared one failure late.
RetriedPastLimit(r) ==
    LET streak == IF r.retryStage = r.stage THEN r.retries + 1 ELSE 1
    IN  [Released(r) EXCEPT !.retries = streak, !.retryStage = r.stage,
                            !.blocked = (streak > RetryLimit)]

\* record_retry: the streak counts failures at one stage.
Retried(r) ==
    LET streak == IF r.retryStage = r.stage THEN r.retries + 1 ELSE 1
    IN  [Released(r) EXCEPT !.retries = streak, !.retryStage = r.stage,
                            !.blocked = (streak >= RetryLimit)]

\* Mutant: a stage that finds its work not done waits instead of failing.
MustRetryEarly(e) ==
    exec[e].pc \in {"fence", "drain"} /\ LiveServing # {}

\* The conditions under which a stage must fail with a transient error.
MustRetry(e) ==
    \/ exec[e].pc \in {"fence", "drain"} /\ LiveServing # {}
    \/ exec[e].pc \in {"clear", "list"} /\ req.frozen
    \/ exec[e].pc = "verify_objects" /\ objects # {}
    \/ exec[e].pc = "verify_cache" /\ cache # {}

RecordRetry(e) ==
    /\ exec[e].pc \notin {"idle", "stage"}
    /\ Held(e)
    /\ \/ MustRetry(e) /\ faults' = faults
       \/ ~MustRetry(e) /\ Fault
    /\ req' = Retried(req)
    /\ exec' = [exec EXCEPT ![e] = Idle]
    /\ UNCHANGED <<community, chunks, serving, stores>>

\* The refusals (DbError::DeletionSafety) that are permanent errors.
MustBlock(e) ==
    \/ exec[e].pc = "quiesce" /\ community.state \notin {"active", "quiescing"}
    \/ exec[e].pc = "fence" /\ community.state # "quiescing"
    \/ exec[e].pc = "freeze"
         /\ \/ ChunkKeys # exec[e].listed
            \/ req.frozen /\ req.manifest # exec[e].listed
    \/ exec[e].pc = "mark_drained" /\ LiveServing # {}
    \/ exec[e].pc = "verify_rows"
         /\ (rows # {} \/ community.state # "tombstone")

\* block: a refusal, or another permanent error (drifted catalog, foreign
\* key in the prefix ...).
Block(e) ==
    /\ exec[e].pc \notin {"idle", "stage"}
    /\ Held(e)
    /\ MustBlock(e) \/ faults < MaxFaults
    /\ faults' = IF MustBlock(e) THEN faults ELSE faults + 1
    /\ req' = [Released(req) EXCEPT !.blocked = TRUE]
    /\ exec' = [exec EXCEPT ![e] = Idle]
    /\ UNCHANGED <<community, chunks, serving, stores>>

-----------------------------------------------------------------------------
(***************************************************************************)
(* Stage approved: quiesce, then fence.                                    *)
(***************************************************************************)
\* begin_quiescing keeps what it must restore, once.
BeginQuiescing(e) ==
    /\ exec[e].pc = "quiesce"
    /\ Held(e)
    /\ community.state \in {"active", "quiescing"}
    /\ req' = IF req.quiesced THEN req
              ELSE [req EXCEPT !.quiesced = TRUE,
                               !.before = community.archived]
    /\ community' = [community EXCEPT !.state = "quiescing",
                                      !.archived = TRUE]
    /\ Goto(e, "fence")
    /\ UNCHANGED <<chunks, serving, stores, faults>>

FenceUp(e) ==
    /\ exec[e].pc = "fence"
    /\ Held(e)
    /\ LiveServing = {}
    /\ community.state = "quiescing"
    /\ community' = [state |-> "fenced", fence |-> community.fence + 1,
                     archived |-> TRUE]
    /\ req' = Advanced(req, community.fence + 1)
    /\ Reread(e, req')
    /\ UNCHANGED <<chunks, serving, stores, faults>>

(***************************************************************************)
(* Stage fenced: drain, list the tenant's objects, freeze the list.        *)
(***************************************************************************)
\* A request whose list is frozen goes straight on.
CheckDrained(e) ==
    /\ exec[e].pc = "drain"
    /\ HeldFenced(e)
    /\ LiveServing = {}
    /\ Goto(e, IF exec[e].frozen THEN "mark_drained" ELSE "clear")
    /\ UNCHANGED <<community, req, chunks, serving, stores, faults>>

ClearChunks(e) ==
    /\ exec[e].pc = "clear"
    /\ HeldFenced(e)
    /\ ~req.frozen
    /\ chunks' = <<>>
    /\ Goto(e, "list")
    /\ UNCHANGED <<community, req, serving, stores, faults>>

\* The keys a listing that has come this far still returns.
Unlisted(e) ==
    {k \in objects : \A i \in 1..Len(exec[e].listed) : exec[e].listed[i] < k}

\* Mutant: a chunk is appended without checking lease and fence.
AppendUnverified(e) == exec[e].id = req.id

\* append_manifest_key_chunk checks lease and fence.
AppendAllowed(e) == HeldFenced(e) /\ ~req.frozen

\* One page of the listing, and the chunk that records it.
ListChunk(e) ==
    /\ exec[e].pc = "list"
    /\ AppendAllowed(e)
    /\ \E k \in Unlisted(e) :
         /\ \A j \in Unlisted(e) : k <= j
         /\ chunks' = Append(chunks, [key |-> k, deleted |-> FALSE])
         /\ exec' = [exec EXCEPT ![e].listed = Append(@, k)]
    /\ UNCHANGED <<community, req, serving, stores, faults>>

EndListing(e) ==
    /\ exec[e].pc = "list"
    /\ Unlisted(e) = {}
    /\ Goto(e, "freeze")
    /\ UNCHANGED <<community, req, chunks, serving, stores, faults>>

\* freeze_destructive_storage_manifest: the stored chunks are the listing.
FreezeManifest(e) ==
    /\ exec[e].pc = "freeze"
    /\ HeldFenced(e)
    /\ ChunkKeys = exec[e].listed
    /\ req.frozen => req.manifest = exec[e].listed
    /\ req' = [req EXCEPT !.frozen = TRUE, !.manifest = exec[e].listed]
    /\ Goto(e, "mark_drained")
    /\ UNCHANGED <<community, chunks, serving, stores, faults>>

MarkDrained(e) ==
    /\ exec[e].pc = "mark_drained"
    /\ HeldFenced(e)
    /\ LiveServing = {}
    /\ req' = Advanced(req, exec[e].fence)
    /\ Reread(e, req')
    /\ UNCHANGED <<community, chunks, serving, stores, faults>>

(***************************************************************************)
(* Stage drained: delete the frozen list, chunk by chunk.                  *)
(***************************************************************************)
Pending == {i \in 1..Len(chunks) : ~chunks[i].deleted}

\* next_pending_manifest_chunk, and the verification before the delete.
SendDelete(e) ==
    /\ exec[e].pc = "next_chunk"
    /\ Pending # {}
    /\ HeldFenced(e)
    /\ \E i \in Pending :
         /\ \A j \in Pending : i <= j
         /\ exec' = [exec EXCEPT ![e].pc = "deleting", ![e].chunk = i]
         /\ deletes' = deletes \cup {chunks[i].key}
    /\ UNCHANGED <<community, req, chunks, serving, objects, cache, rows,
                   puts, orphans, destroyed, faults>>

\* The bulk delete lands, whoever still waits for it.
DeleteLands(k) ==
    /\ k \in deletes
    /\ deletes' = deletes \ {k}
    /\ objects' = objects \ {k}
    /\ destroyed' = TRUE
    /\ UNCHANGED <<community, req, chunks, exec, serving, cache, rows, puts,
                   orphans, faults>>

\* Mutant: a chunk is stamped before its delete is answered.
AcknowledgedUnread(e) == TRUE

\* The delete was answered for every key of the chunk.
Acknowledged(e) == chunks[exec[e].chunk].key \notin deletes

MarkChunkDeleted(e) ==
    /\ exec[e].pc = "deleting"
    /\ HeldFenced(e)
    /\ Acknowledged(e)
    /\ ~chunks[exec[e].chunk].deleted
    /\ chunks' = [chunks EXCEPT ![exec[e].chunk].deleted = TRUE]
    /\ Goto(e, "next_chunk")
    /\ UNCHANGED <<community, req, serving, stores, faults>>

MarkBindingsRemoved(e) ==
    /\ exec[e].pc = "next_chunk"
    /\ Pending = {}
    /\ HeldFenced(e)
    /\ req' = Advanced(req, exec[e].fence)
    /\ Reread(e, req')
    /\ UNCHANGED <<community, chunks, serving, stores, faults>>

(***************************************************************************)
(* The rows, the cache, the verification of all three, and the end.        *)
(***************************************************************************)
PurgePostgres(e) ==
    /\ exec[e].pc = "purge"
    /\ HeldFenced(e)
    /\ community.state = "fenced"
    /\ rows' = {}
    /\ destroyed' = TRUE
    /\ community' = [community EXCEPT !.state = "tombstone",
                                      !.archived = TRUE]
    /\ req' = Advanced(req, exec[e].fence)
    /\ Reread(e, req')
    /\ UNCHANGED <<chunks, serving, objects, cache, puts, deletes, orphans,
                   faults>>

PurgeCache(e) ==
    /\ exec[e].pc = "purge_cache"
    /\ HeldFenced(e)
    /\ cache' = {}
    /\ Goto(e, "mark_cache_purged")
    /\ UNCHANGED <<community, req, chunks, serving, objects, rows, puts,
                   deletes, orphans, destroyed, faults>>

MarkCachePurged(e) ==
    /\ exec[e].pc = "mark_cache_purged"
    /\ HeldFenced(e)
    /\ req' = Advanced(req, exec[e].fence)
    /\ Reread(e, req')
    /\ UNCHANGED <<community, chunks, serving, stores, faults>>

\* verify_postgres_logically_deleted holds lease, tombstone and absence.
VerifyRows(e) ==
    /\ exec[e].pc = "verify_rows"
    /\ HeldFenced(e)
    /\ community.state = "tombstone"
    /\ rows = {}
    /\ Goto(e, "verify_objects")
    /\ UNCHANGED <<community, req, chunks, serving, stores, faults>>

\* verify_storage_absence, verify_redis_absence: no token is checked.
VerifyObjects(e) ==
    /\ exec[e].pc = "verify_objects"
    /\ objects = {}
    /\ Goto(e, "verify_cache")
    /\ UNCHANGED <<community, req, chunks, serving, stores, faults>>

VerifyCache(e) ==
    /\ exec[e].pc = "verify_cache"
    /\ cache = {}
    /\ Goto(e, "mark_verified")
    /\ UNCHANGED <<community, req, chunks, serving, stores, faults>>

\* mark_logically_verified drops the key list with the same commit.
MarkLogicallyVerified(e) ==
    /\ exec[e].pc = "mark_verified"
    /\ HeldFenced(e)
    /\ req' = Advanced(req, exec[e].fence)
    /\ chunks' = <<>>
    /\ Reread(e, req')
    /\ UNCHANGED <<community, serving, stores, faults>>

MarkRetentionPending(e) ==
    /\ exec[e].pc = "retain"
    /\ HeldFenced(e)
    /\ req' = Released(Advanced(req, exec[e].fence))
    /\ exec' = [exec EXCEPT ![e] = Idle]
    /\ UNCHANGED <<community, chunks, serving, stores, faults>>

-----------------------------------------------------------------------------
(***************************************************************************)
(* A serving write: lease, effect, final row, release.                     *)
(***************************************************************************)
\* assert_community_write_allowed and the INSERT ... SELECT of the lease.
Admits == community.state = "active"

\* acquire_serving_write_lease
AcquireServing(w) ==
    /\ serving[w].pc = "idle"
    /\ Admits
    /\ serving' = [serving EXCEPT ![w] =
                     [pc |-> "admitted", live |-> TRUE,
                      fence |-> community.fence]]
    /\ UNCHANGED <<community, req, chunks, exec, stores, faults>>

\* verify_serving_write_lease and guard_transaction_with_serving_lease
LeaseCurrent(w) ==
    /\ serving[w].live
    /\ community.state \in {"active", "quiescing"}
    /\ community.fence = serving[w].fence

\* protect: the lease is verified, then the effect is sent.
SendEffect(w) ==
    /\ serving[w].pc = "admitted"
    /\ LeaseCurrent(w)
    /\ \E t \in Targets : puts' = puts \cup {<<w, t>>}
    /\ serving' = [serving EXCEPT ![w].pc = "sent"]
    /\ UNCHANGED <<community, req, chunks, exec, objects, cache, rows,
                   deletes, orphans, destroyed, faults>>

\* The effect of w that is under way, if any.
Sent(w) == puts \cap ({w} \X Targets)

\* The store applies the effect, whoever still waits for it.
EffectLands(w) ==
    /\ \/ /\ <<w, "object">> \in puts
          /\ objects' = objects \cup {w} /\ cache' = cache
       \/ /\ <<w, "cache">> \in puts
          /\ cache' = cache \cup {w} /\ objects' = objects
    /\ puts' = puts \ Sent(w)
    /\ UNCHANGED <<community, req, chunks, exec, serving, rows, deletes,
                   orphans, destroyed, faults>>

\* An effect whose sender gave up may also never arrive.
EffectVanishes(w) ==
    /\ w \in orphans /\ Sent(w) # {}
    /\ puts' = puts \ Sent(w)
    /\ UNCHANGED <<community, req, chunks, exec, serving, objects, cache,
                   rows, deletes, orphans, destroyed, faults>>

\* Mutant: the final transaction does not check the lease.
RowGuardNone(w) == TRUE

RowGuard(w) == LeaseCurrent(w)

\* The final mutation, in a transaction guarded by the lease.
RecordRow(w) ==
    /\ serving[w].pc = "sent"
    /\ Sent(w) = {}
    /\ RowGuard(w)
    /\ rows' = rows \cup {w}
    /\ serving' = [serving EXCEPT ![w].pc = "recorded"]
    /\ UNCHANGED <<community, req, chunks, exec, objects, cache, puts,
                   deletes, orphans, destroyed, faults>>

\* The guard is gone, and its lease row with it.
Done == [pc |-> "done", live |-> FALSE, fence |-> 0]

\* ServingWriteGuard::finish
FinishServing(w) ==
    /\ serving[w].pc = "recorded"
    /\ serving' = [serving EXCEPT ![w] = Done]
    /\ UNCHANGED <<community, req, chunks, exec, stores, faults>>

Orphaned(w) == IF Sent(w) = {} THEN orphans ELSE orphans \cup {w}

\* A check of the lease fails, or its heartbeat reports the loss: the guard
\* is dropped, which releases the lease.
AbandonServing(w) ==
    /\ serving[w].pc \in {"admitted", "sent"}
    /\ ~LeaseCurrent(w)
    /\ serving' = [serving EXCEPT ![w] = Done]
    /\ orphans' = Orphaned(w)
    /\ UNCHANGED <<community, req, chunks, exec, objects, cache, rows, puts,
                   deletes, destroyed, faults>>

\* The caller goes away (a client disconnects, the effect fails): the guard
\* is dropped with the request, and its lease with it.
DropServing(w) ==
    /\ serving[w].pc \in {"admitted", "sent", "recorded"}
    /\ Fault
    /\ serving' = [serving EXCEPT ![w] = Done]
    /\ orphans' = Orphaned(w)
    /\ UNCHANGED <<community, req, chunks, exec, objects, cache, rows, puts,
                   deletes, destroyed>>

\* No renewal reached the database for the lease's duration.
ServingExpires(w) ==
    /\ serving[w].live
    /\ Fault
    /\ serving' = [serving EXCEPT ![w].live = FALSE]
    /\ orphans' = Orphaned(w)
    /\ UNCHANGED <<community, req, chunks, exec, objects, cache, rows, puts,
                   deletes, destroyed>>

-----------------------------------------------------------------------------
DInit ==
    /\ community = [state |-> "active", fence |-> 0, archived |-> FALSE]
    /\ req = NewRequest(1)
    /\ chunks = <<>>
    /\ exec = [e \in Executors |-> Idle]
    /\ serving = [w \in Writers |->
                    [pc |-> "idle", live |-> FALSE, fence |-> 0]]
    /\ objects = {0}
    /\ cache = {}
    /\ rows = {0}
    /\ puts = {} /\ deletes = {} /\ orphans = {}
    /\ destroyed = FALSE
    /\ faults = 0

Operator == \/ Submit \/ FreezeInventory \/ Approve \/ Abort
            \/ Unblock \/ BlockPreclaim

ExecutorStep(e) ==
    \/ Claim(e) \/ BeginStage(e) \/ LeaseLost(e)
    \/ BeginQuiescing(e) \/ FenceUp(e)
    \/ CheckDrained(e) \/ ClearChunks(e) \/ ListChunk(e) \/ EndListing(e)
    \/ FreezeManifest(e) \/ MarkDrained(e)
    \/ SendDelete(e) \/ MarkChunkDeleted(e) \/ MarkBindingsRemoved(e)
    \/ PurgePostgres(e) \/ PurgeCache(e) \/ MarkCachePurged(e)
    \/ VerifyRows(e) \/ VerifyObjects(e) \/ VerifyCache(e)
    \/ MarkLogicallyVerified(e) \/ MarkRetentionPending(e)
    \/ RecordRetry(e) \/ Block(e)

ExecutorFault(e) == StopExecutor(e) \/ Crash(e)

ServingStep(w) ==
    \/ AcquireServing(w) \/ SendEffect(w) \/ EffectLands(w) \/ RecordRow(w)
    \/ FinishServing(w) \/ AbandonServing(w)

ServingFault(w) == DropServing(w) \/ ServingExpires(w) \/ EffectVanishes(w)

DNext ==
    \/ Operator
    \/ \E e \in Executors : ExecutorStep(e) \/ ExecutorFault(e)
    \/ HeartbeatsMissed \/ LeaseRunsOut
    \/ \E k \in Keys : DeleteLands(k)
    \/ \E w \in Writers : ServingStep(w) \/ ServingFault(w)

DSpec == DInit /\ [][DNext]_dvars

-----------------------------------------------------------------------------
(***************************************************************************)
(* Properties.                                                             *)
(***************************************************************************)
ExecPcs ==
    {"idle", "stage", "quiesce", "fence", "drain", "clear", "list", "freeze",
     "mark_drained", "next_chunk", "deleting", "purge", "purge_cache",
     "mark_cache_purged", "verify_rows", "verify_objects", "verify_cache",
     "mark_verified", "retain"}

\* A fence generation moves with the fence and with an abort.
Fences == 0 .. 2 * MaxRequests

\* Type invariant.  It bounds the retry streak by the limit that blocks, and
\* the fence generation by one fence and one abort per request.
DeletionTypeOK ==
    /\ community.state \in {"active", "quiescing", "fenced", "tombstone"}
    /\ community.fence \in Fences /\ community.archived \in BOOLEAN
    /\ req.id \in 1..MaxRequests /\ req.stage \in Stages
    /\ req.gen \in Nat /\ req.fence \in Fences
    /\ req.owner \in Executors \cup {NoOwner}
    /\ req.retries \in 0..RetryLimit
    /\ req.retryStage \in Runnable \cup {"none"}
    /\ {req.live, req.blocked, req.quiesced, req.before, req.frozen}
         \subseteq BOOLEAN
    /\ \A i \in 1..Len(chunks) :
         chunks[i].key \in Keys /\ chunks[i].deleted \in BOOLEAN
    /\ \A e \in Executors :
         /\ exec[e].pc \in ExecPcs /\ exec[e].id \in 0..MaxRequests
         /\ exec[e].stage \in Stages /\ exec[e].fence \in Fences
         /\ exec[e].chunk \in 0..Cardinality(Keys)
    /\ \A w \in Writers :
         /\ serving[w].pc \in {"idle", "admitted", "sent", "recorded", "done"}
         /\ serving[w].live \in BOOLEAN /\ serving[w].fence \in Fences
    /\ objects \subseteq Keys /\ deletes \subseteq Keys
    /\ cache \subseteq Writers /\ rows \subseteq Writers \cup {0}
    /\ puts \subseteq Writers \X Targets /\ orphans \subseteq Writers
    /\ destroyed \in BOOLEAN /\ faults \in 0..MaxFaults

\* A community that serves again is whole: an abort, with executors that
\* still believe in their token and with deletes still under way, never
\* returns a community of which anything was or will be removed (abort's
\* stage check against the delete loop of stage drained).
ActiveIsWhole ==
    community.state \in {"active", "quiescing"} => ~destroyed /\ deletes = {}

\* An abort puts the community back where it was: one that serves and was
\* not archived before is not archived, however often executors restarted
\* the quiescing (begin_quiescing records the earlier state once).
AbortRestores == community.state = "active" => ~community.archived

\* Once the delete list is frozen, and unless the request is aborted, every
\* object of the tenant is on it, but for an effect that was under way when
\* its own lease ended (the comment above freeze_destructive_manifest in
\* execute_stage).
FrozenListIsFinal ==
    req.frozen /\ req.stage # "aborted" => \A k \in objects :
        k \in orphans \/ \E i \in 1..Len(req.manifest) : req.manifest[i] = k

\* Until the list is dropped, the stored chunks are the frozen manifest: an
\* executor whose claim was taken over cannot mix its chunks into the
\* successor's (append and clear check lease and fence).
ChunksAreManifest ==
    req.frozen /\ req.stage \notin {"logically_verified"} \cup Terminal
        => ChunkKeys = req.manifest

\* When the request says the bindings are removed, no object is left but
\* late effects, whichever executors stamped the chunks and wherever they
\* crashed between a delete and its stamp.
RemovedBindingsAreGone ==
    req.stage \in {"bindings_removed", "postgres_purged", "cache_purged",
                   "logically_verified", "retention_pending"}
        => objects \subseteq orphans

\* A request that was verified has no row, and neither object nor cache
\* entry but late effects: no leased serving write slips a row or an entry
\* in behind the purge.
VerifiedIsAbsent ==
    req.stage \in {"logically_verified", "retention_pending"}
        => rows = {} /\ objects \cup cache \subseteq orphans

\* The executor that holds the lease is never refused for anything else: the
\* fence generation in its token, read back once per stage, is the one of the
\* request and of the community (verify_lease_and_fence), and the chunk whose
\* delete it waits for is not stamped (mark_manifest_chunk_deleted), however
\* often the claim changed hands, the request was aborted or resubmitted.
\* Otherwise good executors would fail until the streak blocks the request.
HolderNotRefused ==
    \A e \in Executors : Held(e) =>
        /\ req.stage # "approved" => HeldFenced(e)
        /\ exec[e].pc = "deleting" => ~chunks[exec[e].chunk].deleted

\* What goes on without the operator, a fault or a serving write: executors
\* are restarted in a loop, a store applies the delete it took, and a lease
\* nobody renews runs out.
Progress ==
    \/ \E e \in Executors : ExecutorStep(e)
    \/ \E k \in Keys : DeleteLands(k)
    \/ LeaseRunsOut

\* Nobody waits on everybody: until an approved request completes, is
\* aborted or stops at a block for the operator, one of these steps is
\* possible, whichever leases are live and whichever executors are gone (and
\* each of them uses up something: a lease generation, a stage, a chunk).
NeverStuck == req.stage \in Runnable /\ ~req.blocked => ENABLED Progress
=============================================================================
