----------------------------- MODULE GitPublish -----------------------------
(***************************************************************************)
(* Git repositories kept in an object store                                *)
(* (crates/buzz-relay/src/api/git and handlers/side_effects.rs).  The only *)
(* mutable object of a repository is its pointer, which holds the digest   *)
(* of a manifest; manifests and packs are content-addressed and never      *)
(* deleted.  A push hydrates a workspace from the pointer, lets git run    *)
(* receive-pack in it, stores what is new and swaps the pointer under the  *)
(* ETag it read; there is no lock, so pushes of one repository, pushes and *)
(* announcements, interleave at every store request.                       *)
(*                                                                         *)
(* A commit stands for its object closure (History), a pack for the set of *)
(* commits it holds, a manifest for its fields and a digest for the place  *)
(* of the manifest in the sequence of all manifests ever stored: equal     *)
(* contents have equal digests.  The ETag of the pointer is a function of  *)
(* its body, so comparing ETags is comparing digests.                      *)
(***************************************************************************)
EXTENDS Integers, Sequences, FiniteSets

CONSTANTS
  Owners,           \* owners that use the repository name
  Pushers,          \* requests to git-receive-pack
  Announcers,       \* handlers of kind:30617 events
  OwnerOf,          \* the owner a push or an announcement is for
  Refs,             \* reference names
  Branches,         \* the references under refs/heads/
  PreferredHeads,   \* <<refs/heads/main, refs/heads/master>>
  Commits,          \* object ids
  NoCommit,         \* the value of a reference that does not exist
  History,          \* History[c]: c and the commits it reaches
  Commands,         \* the updates a push may ask for
  MaxPacks,         \* MAX_MANIFEST_PACKS
  CompactAt,        \* PACK_COMPACTION_THRESHOLD
  MaxPushes,        \* bound on the pushes that are started
  MaxAnnouncements  \* bound on the announcements that are started

ASSUME GitAssumption ==
  /\ OwnerOf \in [Pushers \cup Announcers -> Owners]
  /\ Branches \subseteq Refs
  /\ PreferredHeads \in Seq(Branches) /\ Len(PreferredHeads) > 0
  /\ NoCommit \notin Commits
  /\ History \in [Commits -> SUBSET Commits]
  /\ \A c \in Commits : c \in History[c]
  /\ \A c \in Commits : \A d \in History[c] : History[d] \subseteq History[c]
  /\ \A u \in Commands : DOMAIN u \subseteq Refs /\ u \in [DOMAIN u -> Commits \cup {NoCommit}]
  /\ MaxPacks \in Nat \ {0} /\ CompactAt \in Nat
  /\ MaxPushes \in Nat /\ MaxAnnouncements \in Nat

VARIABLES
  pointer,     \* pointer[o]: digest in owner o's pointer object, 0 when absent
  manifests,   \* manifests[d]: the manifest object whose digest is d
  packs,       \* the pack objects in the store
  published,   \* published[o]: every digest pointer[o] has held, in order
  nameRow,     \* owner in the row of git_repo_names, {} when there is none
  refState,    \* digest the newest kind:30618 event describes, 0 when there is none
  push,        \* push[p]: the request p and its place in the handler
  pushes,      \* pushes started
  ann,         \* ann[a]: the announcement a and its place in the handler
  announced    \* announcements started

gitVars == <<pointer, manifests, packs, published, nameRow, refState,
             push, pushes, ann, announced>>
storeVars == <<pointer, manifests, packs, published>>

---------------------------------------------------------------------------
(* References, manifests and packs.                                        *)

RefMaps == [Refs -> Commits \cup {NoCommit}]

NoRefs == [r \in Refs |-> NoCommit]

\* The objects reachable from the references.
Closure(refs) == UNION {History[c] : c \in {refs[r] : r \in Refs} \ {NoCommit}}

Manifest ==
  [refs : RefMaps, head : Refs, packs : SUBSET SUBSET Commits, parent : Nat]

\* What an announcement publishes, and what a push of a repository without a
\* pointer starts from (ParentState::fresh over a workspace whose HEAD is main).
EmptyManifest ==
  [refs |-> NoRefs, head |-> PreferredHeads[1], packs |-> {}, parent |-> 0]

ManifestAt(d) == IF d = 0 THEN EmptyManifest ELSE manifests[d]

\* put_manifest: the key is the digest of the bytes, so a manifest that is
\* already stored keeps its digest and the second write is a success.
DigestOf(m) ==
  IF \E d \in DOMAIN manifests : manifests[d] = m
  THEN CHOOSE d \in DOMAIN manifests : manifests[d] = m
  ELSE Len(manifests) + 1

\* Mutant: the manifest object is never written.
WithManifestUnwritten(m) == manifests

WithManifest(m) == IF DigestOf(m) \in DOMAIN manifests THEN manifests ELSE Append(manifests, m)

\* The branch HEAD is published at: the one the workspace has, the parent's, a
\* conventional one, any, and the workspace's again when no branch is left.
ResolveHead(refs, observed, parentHead) ==
  LET IsPublished(b) == b \in Branches /\ refs[b] # NoCommit
      preferred == {i \in DOMAIN PreferredHeads : IsPublished(PreferredHeads[i])}
  IN IF IsPublished(observed) THEN observed
     ELSE IF IsPublished(parentHead) THEN parentHead
     ELSE IF preferred # {}
          THEN PreferredHeads[CHOOSE i \in preferred : \A j \in preferred : i <= j]
     ELSE IF \E b \in Branches : IsPublished(b) THEN CHOOSE b \in Branches : IsPublished(b)
     ELSE observed

ShouldCompact(n) == n >= CompactAt

CompactedSetIsUsable(before, after) ==
  after < before \/ (before >= MaxPacks /\ after <= MaxPacks)

\* Manifest::validate, for the fields the model keeps.
Valid(m) == Cardinality(m.packs) <= MaxPacks

---------------------------------------------------------------------------
(* A push: info_refs, receive_pack and finalize_push.                      *)

Repo(x) == OwnerOf[x]

Parent(p) == ManifestAt(push[p].parent)

Finished == {"idle", "acked", "rejected", "conflict", "failed"}

At(p, pc) == push[p].pc = pc

\* A request record before it starts and after it is answered: what the handler
\* knew is gone, what its client was told "ok" about remains.
Ended(pc, reported) ==
  [pc |-> pc, seen |-> NoRefs, cmds |-> <<>>, parent |-> 0, work |-> NoRefs,
   packs |-> {}, digest |-> 0, reported |-> reported]

Starts(p, seen, u) ==
  /\ push[p].pc \in Finished
  /\ pushes < MaxPushes
  /\ push' = [push EXCEPT ![p] = [Ended("advertised", {}) EXCEPT !.seen = seen, !.cmds = u]]
  /\ pushes' = pushes + 1

Ends(p, pc, reported) == push' = [push EXCEPT ![p] = Ended(pc, reported)]

\* What the client asked for the references rs.
Asked(p, rs) == {<<r, push[p].cmds[r]>> : r \in rs}

\* info_refs: the client reads the references (an absent pointer is a 404), and
\* asks for updates that change something.
InfoRefs(p) ==
  /\ pointer[Repo(p)] # 0
  /\ LET seen == manifests[pointer[Repo(p)]].refs
     IN \E u \in Commands : (\A r \in DOMAIN u : u[r] # seen[r]) /\ Starts(p, seen, u)
  /\ UNCHANGED <<storeVars, nameRow, refState, ann, announced>>

\* git-receive-pack does not ask for a discovery first: a client may post updates
\* before the repository has a pointer.  (With a pointer, such a client is no
\* different from one whose discovery is old.)
PostUndiscovered(p) ==
  /\ pointer[Repo(p)] = 0
  /\ \E u \in Commands : (\A r \in DOMAIN u : u[r] # NoCommit) /\ Starts(p, NoRefs, u)
  /\ UNCHANGED <<storeVars, nameRow, refState, ann, announced>>

\* receive_pack: one GET of the pointer gives the parent state and the
\* workspace, then git runs in the workspace.  git checks each update by itself
\* against the value the client saw and reports "ok" or "ng" for each.  One "ng"
\* makes the push a rejected one: finalize_push publishes nothing and streams the
\* report back.  The hook accepts only a repository that has been announced.
ReceivePack(p) ==
  LET o == Repo(p)
      base == ManifestAt(pointer[o]).refs
      u == push[p].cmds
      ok == {r \in DOMAIN u : base[r] = push[p].seen[r]}
  IN /\ At(p, "advertised")
     /\ announced > 0
     /\ IF ok = DOMAIN u
        THEN push' = [push EXCEPT ![p] =
               [@ EXCEPT !.pc = "received", !.parent = pointer[o],
                         !.work = [r \in Refs |-> IF r \in ok THEN u[r] ELSE base[r]]]]
        ELSE Ends(p, "rejected", Asked(p, ok))
     /\ UNCHANGED <<storeVars, nameRow, refState, pushes, ann, announced>>

\* The pre-receive hook declines the whole push: "ng" for every update.
HookDeclines(p) ==
  /\ At(p, "advertised")
  /\ Ends(p, "rejected", {})
  /\ UNCHANGED <<storeVars, nameRow, refState, pushes, ann, announced>>

\* prepare_compaction: the closure of the new references, cut into packs by git,
\* is uploaded and replaces the packs of the parent.
Compact(p) ==
  LET before == Cardinality(Parent(p).packs)
  IN /\ At(p, "received")
     /\ ShouldCompact(before)
     /\ \E cut \in SUBSET SUBSET Closure(push[p].work) :
          /\ UNION cut = Closure(push[p].work)
          /\ {} \notin cut
          /\ \A a, b \in cut : a # b => a \cap b = {}
          /\ CompactedSetIsUsable(before, Cardinality(cut))
          /\ packs' = packs \cup cut
          /\ push' = [push EXCEPT ![p].pc = "packed", ![p].packs = cut]
     /\ UNCHANGED <<pointer, manifests, published, nameRow, refState, pushes, ann, announced>>

\* Compaction gives up (no permit, a limit, git or the store fails, the timeout),
\* perhaps after some uploads; the push goes on with a delta pack.
CompactionFails(p) ==
  /\ At(p, "received")
  /\ ShouldCompact(Cardinality(Parent(p).packs))
  /\ \E cut \in SUBSET {Closure(push[p].work)} : packs' = packs \cup cut
  /\ push' = [push EXCEPT ![p].pc = "delta"]
  /\ UNCHANGED <<pointer, manifests, published, nameRow, refState, pushes, ann, announced>>

\* capture_pack: what the new references reach and the parent's do not.  With no
\* reference left there is no pack; with nothing new git may still write one.
DeltaPacks(work, base) ==
  IF work = NoRefs THEN {{}}
  ELSE IF Closure(work) \subseteq Closure(base) THEN {{}, {{}}}
  ELSE {{Closure(work) \ Closure(base)}}

\* Mutant: a delta manifest names only its own pack.
PacksAfterOnlyNew(parent, new) == new

\* compose_after: the packs of the parent and the new one.
PacksAfter(parent, new) == parent.packs \cup new

\* The delta path.  A pack that would exceed the cap makes the push fail.
PutPack(p) ==
  LET m == Parent(p)
      n == Cardinality(m.packs)
  IN /\ At(p, "delta") \/ (At(p, "received") /\ ~ShouldCompact(n))
     /\ \E new \in DeltaPacks(push[p].work, m.refs) :
          IF new # {} /\ n >= MaxPacks
          THEN /\ Ends(p, "failed", {})
               /\ UNCHANGED packs
          ELSE /\ push' = [push EXCEPT ![p].pc = "packed", ![p].packs = PacksAfter(m, new)]
               /\ packs' = packs \cup new
     /\ UNCHANGED <<pointer, manifests, published, nameRow, refState, pushes, ann, announced>>

\* The manifest the push wants to publish: its parent is the one the workspace
\* was hydrated from.
Composed(p) ==
  [refs   |-> push[p].work,
   head   |-> ResolveHead(push[p].work, Parent(p).head, Parent(p).head),
   packs  |-> push[p].packs,
   parent |-> push[p].parent]

PutManifest(p) ==
  /\ At(p, "packed")
  /\ Valid(Composed(p))
  /\ manifests' = WithManifest(Composed(p))
  /\ push' = [push EXCEPT ![p].pc = "staged", ![p].digest = DigestOf(Composed(p))]
  /\ UNCHANGED <<pointer, packs, published, nameRow, refState, pushes, ann, announced>>

\* Mutant: the pointer is read again before the CAS, and its current ETag used.
PreconditionFresh(p) == pointer[Repo(p)] # 0

\* If-Match with the ETag read at hydration, or If-None-Match: * for a push that
\* found no pointer.
PreconditionHolds(p) == pointer[Repo(p)] = push[p].parent

SetPointer(o, d) ==
  /\ pointer' = [pointer EXCEPT ![o] = d]
  /\ published' = [published EXCEPT ![o] = Append(@, d)]

\* put_pointer is performed.  The answer may be lost, or carry no ETag: then the
\* push is answered with an error although the pointer has moved.
CasWon(p) ==
  /\ At(p, "staged")
  /\ PreconditionHolds(p)
  /\ SetPointer(Repo(p), push[p].digest)
  /\ push' = [push EXCEPT ![p].pc = "won"] \/ Ends(p, "failed", {})
  /\ UNCHANGED <<manifests, packs, nameRow, refState, pushes, ann, announced>>

\* Mutant: 412 is taken for "already written", as it is for packs and manifests.
CasLostIsSuccess(p) ==
  /\ At(p, "staged")
  /\ ~PreconditionHolds(p)
  /\ push' = [push EXCEPT ![p].pc = "won"]
  /\ UNCHANGED <<storeVars, nameRow, refState, pushes, ann, announced>>

\* 412: the winner is read again only to be named in the log.
CasLost(p) ==
  /\ At(p, "staged")
  /\ ~PreconditionHolds(p)
  /\ Ends(p, "conflict", {})
  /\ UNCHANGED <<storeVars, nameRow, refState, pushes, ann, announced>>

\* After the CAS: the kind:30618 event of the committed manifest is inserted and
\* the serving lease released, which may fail; only then is the push answered.
PublishRefState(p) ==
  /\ At(p, "won")
  /\ refState' = push[p].digest
  /\ \/ Ends(p, "acked", Asked(p, DOMAIN push[p].cmds))
     \/ Ends(p, "failed", {})
  /\ UNCHANGED <<storeVars, nameRow, pushes, ann, announced>>

\* A store, database or lease error, or the end of the relay process, at any
\* point of the handler.
PushFails(p) ==
  /\ push[p].pc \notin Finished
  /\ Ends(p, "failed", {})
  /\ UNCHANGED <<storeVars, nameRow, refState, pushes, ann, announced>>

---------------------------------------------------------------------------
(* An announcement: handle_git_repo_announcement_inner.                     *)

AnnAt(a, pc) == ann[a].pc = pc

AnnGoes(a, pc, reserved) == ann' = [ann EXCEPT ![a] = [pc |-> pc, reserved |-> reserved]]

\* repo_name_owner: another owner's name is refused, an own one is a re-announce.
PeekName(a) ==
  /\ AnnAt(a, "idle")
  /\ announced < MaxAnnouncements
  /\ AnnGoes(a, CASE nameRow = {} -> "unowned"
                  [] nameRow = {Repo(a)} -> "ensure"
                  [] OTHER -> "idle", FALSE)
  /\ announced' = announced + 1
  /\ UNCHANGED <<storeVars, nameRow, refState, push, pushes>>

\* reserve_repo_name: INSERT ... ON CONFLICT DO NOTHING.
ReserveName(a) ==
  /\ AnnAt(a, "unowned")
  /\ IF nameRow = {}
     THEN nameRow' = {Repo(a)} /\ AnnGoes(a, "seed", TRUE)
     ELSE /\ UNCHANGED nameRow
          /\ AnnGoes(a, IF nameRow = {Repo(a)} THEN "ensure" ELSE "idle", FALSE)
  /\ UNCHANGED <<storeVars, refState, push, pushes, announced>>

\* ensure_manifest_pointer: any pointer will do, a missing one is seeded.
EnsurePointer(a) ==
  /\ AnnAt(a, "ensure")
  /\ AnnGoes(a, IF pointer[Repo(a)] # 0 THEN "ensured" ELSE "seed", FALSE)
  /\ UNCHANGED <<storeVars, nameRow, refState, push, pushes, announced>>

\* seed_manifest_pointer: the empty manifest, then a create-only write of the
\* pointer, whose answer may be lost.
SeedPointer(a) ==
  /\ AnnAt(a, "seed")
  /\ manifests' = WithManifest(EmptyManifest)
  /\ IF pointer[Repo(a)] = 0
     THEN /\ SetPointer(Repo(a), DigestOf(EmptyManifest))
          /\ \E pc \in {"ensured", "seed_failed"} : AnnGoes(a, pc, ann[a].reserved)
     ELSE /\ AnnGoes(a, "seed_lost", ann[a].reserved)
          /\ UNCHANGED <<pointer, published>>
  /\ UNCHANGED <<packs, nameRow, refState, push, pushes, announced>>

\* The pointer existed: only the empty manifest is accepted in it.
RereadPointer(a) ==
  /\ AnnAt(a, "seed_lost")
  /\ AnnGoes(a, IF pointer[Repo(a)] = DigestOf(EmptyManifest) THEN "ensured" ELSE "seed_failed",
             ann[a].reserved)
  /\ UNCHANGED <<storeVars, nameRow, refState, push, pushes, announced>>

\* The row is released by the attempt that inserted it (DELETE ... WHERE owner).
ReleaseName(a) ==
  /\ AnnAt(a, "seed_failed")
  /\ nameRow' = IF ann[a].reserved THEN nameRow \ {Repo(a)} ELSE nameRow
  /\ AnnGoes(a, "idle", FALSE)
  /\ UNCHANGED <<storeVars, refState, push, pushes, announced>>

\* The initial kind:30618 of a fresh repository; its failure is not fatal.
EmitInitialRefState(a) ==
  /\ AnnAt(a, "ensured")
  /\ refState' \in IF ann[a].reserved THEN {refState, DigestOf(EmptyManifest)} ELSE {refState}
  /\ AnnGoes(a, "idle", FALSE)
  /\ UNCHANGED <<storeVars, nameRow, push, pushes, announced>>

\* Quota, lease or database errors and the end of the process: nothing is undone.
\* While the pointer is being established an error is a failed seed instead.
AnnouncementFails(a) ==
  /\ ~AnnAt(a, "idle")
  /\ AnnGoes(a, "idle", FALSE)
  /\ UNCHANGED <<storeVars, nameRow, refState, push, pushes, announced>>

SeedFails(a) ==
  /\ ann[a].pc \in {"ensure", "seed", "seed_lost"}
  /\ AnnGoes(a, "seed_failed", ann[a].reserved)
  /\ UNCHANGED <<storeVars, nameRow, refState, push, pushes, announced>>

---------------------------------------------------------------------------

GitInit ==
  /\ pointer = [o \in Owners |-> 0]
  /\ manifests = <<>>
  /\ packs = {}
  /\ published = [o \in Owners |-> <<>>]
  /\ nameRow = {}
  /\ refState = 0
  /\ push = [p \in Pushers |-> Ended("idle", {})]
  /\ pushes = 0
  /\ ann = [a \in Announcers |-> [pc |-> "idle", reserved |-> FALSE]]
  /\ announced = 0

PushStep(p) ==
  \/ InfoRefs(p) \/ PostUndiscovered(p) \/ ReceivePack(p) \/ HookDeclines(p)
  \/ Compact(p) \/ CompactionFails(p) \/ PutPack(p) \/ PutManifest(p)
  \/ CasWon(p) \/ CasLost(p) \/ PublishRefState(p) \/ PushFails(p)

AnnounceStep(a) ==
  \/ PeekName(a) \/ ReserveName(a) \/ EnsurePointer(a) \/ SeedPointer(a)
  \/ RereadPointer(a) \/ ReleaseName(a) \/ EmitInitialRefState(a)
  \/ AnnouncementFails(a) \/ SeedFails(a)

GitNext ==
  \/ \E p \in Pushers : PushStep(p)
  \/ \E a \in Announcers : AnnounceStep(a)

GitSpec == GitInit /\ [][GitNext]_gitVars

---------------------------------------------------------------------------
(* Properties.                                                             *)

Push ==
  [pc : Finished \cup {"advertised", "received", "delta", "packed", "staged", "won"},
   seen : RefMaps, cmds : Commands \cup {<<>>}, parent : Nat, work : RefMaps,
   packs : SUBSET SUBSET Commits, digest : Nat,
   reported : SUBSET (Refs \X (Commits \cup {NoCommit}))]

\* Every variable has its type, and no digest in the store, in the pointers or in
\* a request names a manifest that is not stored.
GitTypeOK ==
  /\ pointer \in [Owners -> 0 .. Len(manifests)]
  /\ manifests \in Seq(Manifest)
  /\ packs \subseteq SUBSET Commits
  /\ published \in [Owners -> Seq(DOMAIN manifests)]
  /\ nameRow \in SUBSET Owners
  /\ refState \in 0 .. Len(manifests)
  /\ push \in [Pushers -> Push]
  /\ \A p \in Pushers : push[p].parent <= Len(manifests) /\ push[p].digest <= Len(manifests)
  /\ ann \in [Announcers -> [pc : {"idle", "unowned", "ensure", "seed", "seed_lost",
                                             "seed_failed", "ensured"},
                            reserved : BOOLEAN]]
  /\ pushes \in 0 .. MaxPushes /\ announced \in 0 .. MaxAnnouncements

\* The manifest m can be cloned: all its packs are in the store, they hold
\* everything its references reach, and HEAD names a branch if there is one.
CanBeCloned(m) ==
  /\ m.packs \subseteq packs
  /\ Closure(m.refs) \subseteq UNION m.packs
  /\ (\E b \in Branches : m.refs[b] # NoCommit) =>
       m.head \in Branches /\ m.refs[m.head] # NoCommit

\* Every manifest a pointer has ever held can be cloned, now and by a reader that
\* resolved it earlier (cas_publish: packs before the manifest before the pointer,
\* compaction included; resolve_published_head).
Cloneable ==
  \A o \in Owners : \A i \in DOMAIN published[o] : CanBeCloned(manifests[published[o][i]])

\* The manifests a pointer has held form one chain: each was made from the one
\* before it, none comes back, and the pointer is at the end.  Two pushes of one
\* parent, or a push that overtakes another, would break the chain (cas_publish).
LinearHistory ==
  \A o \in Owners :
    LET h == published[o]
    IN /\ \A i \in DOMAIN h : manifests[h[i]].parent = IF i = 1 THEN 0 ELSE h[i - 1]
       /\ \A i, j \in DOMAIN h : h[i] = h[j] => i = j
       /\ pointer[o] = IF h = <<>> THEN 0 ELSE h[Len(h)]

\* The refinement mapping: the references of a repository are those of the
\* manifest in its pointer, and a push is open until the CAS.
AbstractStatus(pc) ==
  CASE pc \in {"advertised", "received", "delta", "packed", "staged"} -> "open"
    [] pc = "won" -> "committed"
    [] pc \in {"rejected", "conflict"} -> "refused"
    [] OTHER -> pc

Abstract == INSTANCE RefStore
  WITH refs <- [o \in Owners |-> ManifestAt(pointer[o]).refs],
       request <- [p \in Pushers |-> [status |-> AbstractStatus(push[p].pc),
                                     seen |-> push[p].seen, cmds |-> push[p].cmds]]

\* The push protocol implements RefStore: a push takes effect at one instant, as a
\* whole and on the references its client saw, a 409 or a rejection means it never
\* did, and only a push that took effect is acknowledged (finalize_push).
ImplementsRefStore == Abstract!Spec

\* Any reference the client was told "ok" about was published with that value,
\* whatever the other updates of the push (finalize_push, transport.rs:1826).
ReportedIsDurable ==
  \A p \in Pushers : \A t \in push[p].reported :
    \E i \in DOMAIN published[Repo(p)] :
      manifests[published[Repo(p)][i]].refs[t[1]] = t[2]
=============================================================================
