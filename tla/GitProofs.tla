----------------------------- MODULE GitProofs -----------------------------
(***************************************************************************)
(* Machine-checked proofs about module GitPublish, for every set of owners,*)
(* pushes, announcements, references and commits and every value of the    *)
(* other constants: the store never names what it does not hold, every     *)
(* manifest a pointer has held can be cloned, the history of a pointer is  *)
(* one chain, and the push protocol implements RefStore.                   *)
(***************************************************************************)
EXTENDS GitPublish, SequenceTheorems, WellFoundedInduction, TLAPS

-----------------------------------------------------------------------------
(* The inductive invariant.                                                *)

\* A stored manifest is younger than its parent, and everything it names is
\* stored: packs are put before the manifest that names them.
StoreInv ==
  \A d \in DOMAIN manifests : manifests[d].parent < d /\ CanBeCloned(manifests[d])

\* A push that git accepted moves the references the client saw, and no other, on
\* top of the manifest its workspace was hydrated from.
Hydrated(p) ==
  LET q == push[p]
      base == ManifestAt(q.parent).refs
  IN /\ \A r \in DOMAIN q.cmds : base[r] = q.seen[r]
     /\ q.work = [r \in Refs |-> IF r \in DOMAIN q.cmds THEN q.cmds[r] ELSE base[r]]

\* The packs of the push are stored and hold what its references reach.
Packed(p) ==
  push[p].packs \subseteq packs /\ Closure(push[p].work) \subseteq UNION push[p].packs

\* The manifest of the push is stored under its digest.
Staged(p) ==
  LET q == push[p]
  IN /\ q.digest \in DOMAIN manifests
     /\ manifests[q.digest].refs = q.work /\ manifests[q.digest].parent = q.parent

PushOK(p) ==
  /\ push[p].pc \in {"received", "delta", "packed", "staged"} => Hydrated(p)
  /\ push[p].pc \in {"packed", "staged"} => Packed(p)
  /\ push[p].pc = "staged" => Staged(p)

PushInv == \A p \in Pushers : PushOK(p)

\* Digests grow along the history of a pointer: what keeps one from coming back.
Ascending == \A o \in Owners : \A i, j \in DOMAIN published[o] :
               i < j => published[o][i] < published[o][j]

\* An announcement that reserved its name and has been through the seed has left
\* the empty manifest in the store, whoever created the pointer.
AnnInv ==
  \A a \in Announcers : ann[a].pc \in {"seed_lost", "ensured"} /\ ann[a].reserved =>
    \E d \in DOMAIN manifests : manifests[d] = EmptyManifest

GitInv ==
  GitTypeOK /\ StoreInv /\ PushInv /\ AnnInv /\ Ascending /\ LinearHistory

-----------------------------------------------------------------------------
(* What the operators of the store do.                                     *)

\* The initial manifest is one, reaches nothing and names no pack.
LEMMA EmptyManifestProperties ==
  /\ EmptyManifest \in Manifest
  /\ EmptyManifest.refs = NoRefs /\ EmptyManifest.parent = 0
  /\ Closure(NoRefs) = {}
  /\ CanBeCloned(EmptyManifest)
<1>1. PreferredHeads[1] \in Branches
  BY GitAssumption
<1>2. EmptyManifest \in Manifest
  BY <1>1, GitAssumption DEF EmptyManifest, Manifest, NoRefs, RefMaps
<1>3. Closure(NoRefs) = {}
  BY DEF Closure, NoRefs
<1>4. CanBeCloned(EmptyManifest)
  BY <1>3, GitAssumption DEF CanBeCloned, EmptyManifest, NoRefs
<1> QED
  BY <1>2, <1>3, <1>4 DEF EmptyManifest

\* put_manifest: the manifest is stored under its digest and nothing that was
\* stored changes.
LEMMA WithManifestProperties ==
  ASSUME manifests \in Seq(Manifest), NEW m \in Manifest
  PROVE  LET ms == WithManifest(m)
             d  == DigestOf(m)
         IN /\ ms \in Seq(Manifest)
            /\ Len(manifests) <= Len(ms)
            /\ \A i \in 1 .. Len(manifests) : ms[i] = manifests[i]
            /\ \A i \in 1 .. Len(ms) : i \in 1 .. Len(manifests) \/ (i = Len(manifests) + 1 /\ ms[i] = m)
            /\ d \in 1 .. Len(ms) /\ ms[d] = m
<1>1. CASE \E d \in DOMAIN manifests : manifests[d] = m
  <2>1. DigestOf(m) \in DOMAIN manifests /\ manifests[DigestOf(m)] = m
    BY <1>1 DEF DigestOf
  <2>2. WithManifest(m) = manifests
    BY <2>1 DEF WithManifest
  <2> QED
    BY <2>1, <2>2
<1>2. CASE ~\E d \in DOMAIN manifests : manifests[d] = m
  <2>1. DigestOf(m) = Len(manifests) + 1
    BY <1>2 DEF DigestOf
  <2>2. WithManifest(m) = Append(manifests, m)
    BY <2>1 DEF WithManifest
  <2> QED
    BY <2>1, <2>2
<1> QED
  BY <1>1, <1>2

\* A digest that is in use names a manifest.
LEMMA ManifestAtType ==
  ASSUME manifests \in Seq(Manifest), NEW d \in 0 .. Len(manifests)
  PROVE  ManifestAt(d) \in Manifest
  BY EmptyManifestProperties DEF ManifestAt

\* resolve_published_head returns a reference, and a branch that exists whenever
\* there is one.
LEMMA ResolveHeadProperties ==
  ASSUME NEW refs \in RefMaps, NEW observed \in Refs, NEW parentHead \in Refs
  PROVE  LET h == ResolveHead(refs, observed, parentHead)
         IN /\ h \in Refs
            /\ (\E b \in Branches : refs[b] # NoCommit) => h \in Branches /\ refs[h] # NoCommit
<1> DEFINE IsPublished(b) == b \in Branches /\ refs[b] # NoCommit
           preferred == {i \in DOMAIN PreferredHeads : IsPublished(PreferredHeads[i])}
           first == CHOOSE i \in preferred : \A j \in preferred : i <= j
           h == ResolveHead(refs, observed, parentHead)
<1>1. ASSUME preferred # {} PROVE IsPublished(PreferredHeads[first])
  <2>1. DOMAIN PreferredHeads \subseteq Nat
    BY GitAssumption
  <2>2. preferred \subseteq Nat
    BY <2>1
  <2> HIDE DEF preferred
  <2>3. \E i \in preferred : \A j \in preferred : ~ (<<j, i>> \in OpToRel(<, Nat))
    BY <1>1, <2>2, WFMin, NatLessThanWellFounded
  <2>4. \A i, j \in Nat : j < i => <<j, i>> \in OpToRel(<, Nat)
    BY Zenon DEF OpToRel
  <2>5. \E i \in preferred : \A j \in preferred : ~ (j < i)
    BY <2>2, <2>3, <2>4, Zenon
  <2>6. \E i \in preferred : \A j \in preferred : i <= j
    BY <2>2, <2>5, SMT
  <2>7. first \in preferred
    BY <2>6
  <2> QED
    BY <2>7 DEF preferred
<1>2. Branches \subseteq Refs
  BY GitAssumption
<1>3. h = IF IsPublished(observed) THEN observed
          ELSE IF IsPublished(parentHead) THEN parentHead
          ELSE IF preferred # {} THEN PreferredHeads[first]
          ELSE IF \E b \in Branches : IsPublished(b) THEN CHOOSE b \in Branches : IsPublished(b)
          ELSE observed
  BY DEF ResolveHead
<1> HIDE DEF h, first, preferred
<1> QED
  BY <1>1, <1>2, <1>3 DEF h

-----------------------------------------------------------------------------
(* What a step keeps.                                                      *)

\* Packs and manifests are only ever added (the store deletes nothing).
Grows ==
  /\ manifests' \in Seq(Manifest)
  /\ Len(manifests) <= Len(manifests')
  /\ \A i \in 1 .. Len(manifests) : manifests'[i] = manifests[i]
  /\ packs \subseteq packs' /\ packs' \subseteq SUBSET Commits

\* A step that leaves the store alone lets it grow.
LEMMA UnchangedGrows ==
  ASSUME GitTypeOK, UNCHANGED <<manifests, packs>>
  PROVE  Grows
  BY DEF GitTypeOK, Grows

\* A manifest that could be cloned still can.
LEMMA CloneableKept ==
  ASSUME GitTypeOK, Grows, NEW d \in 1 .. Len(manifests), CanBeCloned(manifests[d])
  PROVE  CanBeCloned(manifests[d])'
  BY DEF GitTypeOK, Grows, CanBeCloned

\* A request that does not move keeps what it knows of a growing store.
LEMMA PushKept ==
  ASSUME GitTypeOK, Grows, NEW p \in Pushers, push'[p] = push[p], PushOK(p)
  PROVE  PushOK(p)'
<1>1. push[p] \in Push /\ push[p].parent \in 0 .. Len(manifests)
  BY DEF GitTypeOK, Push
<1>2. ManifestAt(push[p].parent)' = ManifestAt(push[p].parent)
  BY <1>1 DEF ManifestAt, Grows
<1>3. Hydrated(p) => Hydrated(p)'
  BY <1>2 DEF Hydrated
<1>4. Packed(p) => Packed(p)'
  BY DEF Packed, Grows
<1>5. Staged(p) => Staged(p)'
  <2>1. DOMAIN manifests = 1 .. Len(manifests) /\ DOMAIN manifests' = 1 .. Len(manifests')
        /\ Len(manifests) \in Nat /\ Len(manifests') \in Nat
    BY DEF GitTypeOK, Grows
  <2> QED
    BY <2>1 DEF Staged, Grows
<1> QED
  BY <1>3, <1>4, <1>5 DEF PushOK

\* Manifests that were stored keep their invariant.
LEMMA StoreKept ==
  ASSUME GitTypeOK, StoreInv, Grows, manifests' = manifests
  PROVE  StoreInv'
<1>1. DOMAIN manifests = 1 .. Len(manifests)
  BY DEF GitTypeOK
<1>2. \A d \in 1 .. Len(manifests) : CanBeCloned(manifests[d])'
  BY <1>1, CloneableKept DEF StoreInv
<1> QED
  BY <1>1, <1>2 DEF StoreInv

\* What a waiting announcement left in the store stays.
LEMMA AnnKept ==
  ASSUME GitTypeOK, AnnInv, Grows, ann' = ann
  PROVE  AnnInv'
<1>1. DOMAIN manifests = 1 .. Len(manifests) /\ DOMAIN manifests' = 1 .. Len(manifests')
      /\ Len(manifests) \in Nat /\ Len(manifests') \in Nat
  BY DEF GitTypeOK, Grows
<1>2. (\E d \in DOMAIN manifests : manifests[d] = EmptyManifest) =>
        (\E d \in DOMAIN manifests' : manifests'[d] = EmptyManifest)
  BY <1>1 DEF Grows
<1> QED
  BY <1>2 DEF AnnInv

\* A pointer that does not move keeps its history.
LEMMA HistoryKept ==
  ASSUME GitTypeOK, Ascending, LinearHistory, Grows, UNCHANGED <<pointer, published>>
  PROVE  Ascending' /\ LinearHistory'
<1>1. Ascending'
  BY DEF Ascending
<1>2. \A o \in Owners : \A i \in DOMAIN published[o] : published[o][i] \in 1 .. Len(manifests)
  BY DEF GitTypeOK
<1>3. LinearHistory'
  BY <1>2 DEF LinearHistory, Grows
<1> QED
  BY <1>1, <1>3

\* A pointer that moves to a younger manifest made from the one it held extends
\* its history.
LEMMA HistoryExtended ==
  ASSUME GitTypeOK, Ascending, LinearHistory, Grows,
         NEW o \in Owners, NEW d \in 1 .. Len(manifests'), SetPointer(o, d),
         manifests'[d].parent = pointer[o], pointer[o] < d
  PROVE  Ascending' /\ LinearHistory'
<1> DEFINE h == published[o]
<1>1. h \in Seq(1 .. Len(manifests)) /\ published'[o] = Append(h, d)
  BY DEF GitTypeOK, SetPointer
<1>2. \A x \in Owners \ {o} : published'[x] = published[x] /\ pointer'[x] = pointer[x]
  BY DEF GitTypeOK, SetPointer
<1>3. pointer'[o] = d /\ pointer[o] = IF h = <<>> THEN 0 ELSE h[Len(h)]
  BY DEF GitTypeOK, SetPointer, LinearHistory
<1>4. \A i \in 1 .. Len(h) : h[i] < d
  <2> SUFFICES ASSUME NEW i \in 1 .. Len(h) PROVE h[i] < d
    OBVIOUS
  <2>1. Len(h) \in 1 .. Len(h) /\ DOMAIN h = 1 .. Len(h) /\ h # <<>>
    BY <1>1
  <2>2. i < Len(h) => h[i] < h[Len(h)]
    BY <2>1 DEF Ascending
  <2>3. h[i] \in Nat /\ h[Len(h)] \in Nat /\ h[Len(h)] < d /\ d \in Nat
    BY <1>1, <1>3, <2>1 DEF Grows
  <2> QED
    BY <2>2, <2>3
<1>5. Len(published'[o]) = Len(h) + 1 /\ DOMAIN published'[o] = 1 .. Len(h) + 1
  BY <1>1
<1>6. published'[o][Len(h) + 1] = d /\ \A i \in 1 .. Len(h) : published'[o][i] = h[i]
  BY <1>1
<1>7. \A i, j \in DOMAIN published'[o] : i < j => published'[o][i] < published'[o][j]
  BY <1>1, <1>4, <1>5, <1>6 DEF Ascending
<1>8. Ascending'
  BY <1>2, <1>7 DEF Ascending
<1>9. \A i \in DOMAIN published'[o] :
        manifests'[published'[o][i]].parent = IF i = 1 THEN 0 ELSE published'[o][i - 1]
  <2> SUFFICES ASSUME NEW i \in 1 .. Len(h) + 1
               PROVE  manifests'[published'[o][i]].parent
                        = IF i = 1 THEN 0 ELSE published'[o][i - 1]
    BY <1>5
  <2>1. Len(h) \in Nat /\ DOMAIN h = 1 .. Len(h)
    BY <1>1
  <2>2. CASE i = Len(h) + 1
    <3>1. h = <<>> <=> Len(h) = 0
      BY <1>1
    <3> QED
      BY <1>3, <1>6, <2>1, <2>2, <3>1
  <2>3. CASE i \in 1 .. Len(h)
    <3>1. h[i] \in 1 .. Len(manifests)
      BY <1>1, <2>3
    <3>2. manifests'[h[i]] = manifests[h[i]]
      BY <3>1 DEF Grows
    <3>3. manifests[h[i]].parent = IF i = 1 THEN 0 ELSE h[i - 1]
      BY <2>1, <2>3 DEF LinearHistory
    <3> QED
      BY <1>6, <2>1, <2>3, <3>2, <3>3
  <2> QED
    BY <2>1, <2>2, <2>3
<1>10. \A i, j \in DOMAIN published'[o] : published'[o][i] = published'[o][j] => i = j
  <2>1. \A i \in DOMAIN published'[o] : published'[o][i] \in Nat
    BY <1>1, <1>5, <1>6 DEF Grows
  <2>2. DOMAIN published'[o] \subseteq Nat
    BY <1>1, <1>5
  <2> QED
    BY <1>7, <2>1, <2>2
<1>11. pointer'[o] = published'[o][Len(published'[o])] /\ published'[o] # <<>>
  BY <1>3, <1>5, <1>6
<1>12. \A x \in Owners \ {o} : \A i \in DOMAIN published[x] : published[x][i] \in 1 .. Len(manifests)
  BY DEF GitTypeOK
<1>13. LinearHistory'
  BY <1>2, <1>9, <1>10, <1>11, <1>12 DEF LinearHistory, Grows
<1> QED
  BY <1>8, <1>13

-----------------------------------------------------------------------------
(* The steps of a push.                                                    *)

\* A step of a push that moves its own record, and adds at most packs, keeps the
\* invariant if the record is in order afterwards.
LEMMA PushMoves ==
  ASSUME GitInv, NEW p \in Pushers, Grows, UNCHANGED <<manifests, pointer, published, nameRow>>,
         UNCHANGED <<ann, announced>>,
         NEW q, push' = [push EXCEPT ![p] = q],
         q \in Push, q.parent <= Len(manifests), q.digest <= Len(manifests),
         pushes' \in 0 .. MaxPushes, refState' \in 0 .. Len(manifests),
         PushOK(p)'
  PROVE  GitInv'
<1>1. GitTypeOK'
  BY DEF GitInv, GitTypeOK, Grows
<1>2. StoreInv' /\ AnnInv' /\ Ascending' /\ LinearHistory'
  BY StoreKept, AnnKept, HistoryKept DEF GitInv
<1>3. PushInv'
  BY PushKept DEF GitInv, GitTypeOK, PushInv
<1> QED
  BY <1>1, <1>2, <1>3 DEF GitInv

\* What a client was told about is among the values that updates may ask for.
LEMMA AskedType ==
  ASSUME GitTypeOK, NEW p \in Pushers, NEW rs \in SUBSET DOMAIN push[p].cmds
  PROVE  Asked(p, rs) \in SUBSET (Refs \X (Commits \cup {NoCommit}))
<1>1. push[p].cmds \in Commands \cup {<<>>}
  BY DEF GitTypeOK, Push
<1>2. \A r \in DOMAIN push[p].cmds : r \in Refs /\ push[p].cmds[r] \in Commits \cup {NoCommit}
  BY <1>1, GitAssumption
<1> QED
  BY <1>2 DEF Asked

\* The record of an answered request.
LEMMA EndedType ==
  ASSUME NEW pc \in Finished \cup {"advertised"},
         NEW reported \in SUBSET (Refs \X (Commits \cup {NoCommit}))
  PROVE  /\ Ended(pc, reported) \in Push
         /\ Ended(pc, reported).parent = 0 /\ Ended(pc, reported).digest = 0
         /\ Ended(pc, reported).pc = pc
  BY DEF Ended, Push, Finished, NoRefs, RefMaps

\* A request that is answered keeps the invariant.
LEMMA PushEnds ==
  ASSUME GitInv, NEW p \in Pushers, Grows, UNCHANGED <<manifests, pointer, published, nameRow>>,
         UNCHANGED <<ann, announced, pushes>>, refState' \in 0 .. Len(manifests),
         NEW pc \in Finished, NEW reported \in SUBSET (Refs \X (Commits \cup {NoCommit})),
         Ends(p, pc, reported)
  PROVE  GitInv'
<1> DEFINE q == Ended(pc, reported)
<1>1. push' = [push EXCEPT ![p] = q]
  BY DEF Ends
<1>2. q \in Push /\ q.parent = 0 /\ q.digest = 0 /\ q.pc = pc
  BY EndedType
<1>3. PushOK(p)'
  BY <1>1, <1>2 DEF PushOK, GitInv, GitTypeOK, Finished
<1>4. 0 <= Len(manifests) /\ pushes \in 0 .. MaxPushes
  BY DEF GitInv, GitTypeOK
<1> HIDE DEF q
<1> QED
  BY <1>1, <1>2, <1>3, <1>4, PushMoves

\* A client that starts a push with the references it saw changes its own request only.
LEMMA StartsInv ==
  ASSUME GitInv, NEW p \in Pushers, UNCHANGED <<storeVars, nameRow, refState, ann, announced>>,
         NEW seen \in RefMaps, NEW u \in Commands, Starts(p, seen, u)
  PROVE  GitInv'
<1> DEFINE q == [Ended("advertised", {}) EXCEPT !.seen = seen, !.cmds = u]
<1>1. push' = [push EXCEPT ![p] = q] /\ pushes' \in 0 .. MaxPushes
  BY GitAssumption DEF Starts, GitInv, GitTypeOK
<1>2. q \in Push /\ q.parent = 0 /\ q.digest = 0 /\ q.pc = "advertised"
  BY DEF Ended, Push, Finished, NoRefs, RefMaps
<1>3. PushOK(p)'
  BY <1>1, <1>2 DEF PushOK, GitInv, GitTypeOK
<1>4. 0 <= Len(manifests) /\ refState' \in 0 .. Len(manifests)
  BY DEF GitInv, GitTypeOK
<1>5. Grows
  BY UnchangedGrows DEF GitInv, storeVars
<1> HIDE DEF q
<1> QED
  BY <1>1, <1>2, <1>3, <1>4, <1>5, PushMoves DEF storeVars

\* Discovery and an undiscovered post start a request.
LEMMA OpenInv ==
  ASSUME GitInv, NEW p \in Pushers, InfoRefs(p) \/ PostUndiscovered(p)
  PROVE  GitInv'
<1>1. CASE InfoRefs(p)
  <2>1. pointer[Repo(p)] \in 1 .. Len(manifests)
    BY <1>1, GitAssumption DEF InfoRefs, GitInv, GitTypeOK, Repo
  <2>2. manifests[pointer[Repo(p)]].refs \in RefMaps
    <3>1. manifests[pointer[Repo(p)]] \in Manifest
      BY <2>1 DEF GitInv, GitTypeOK
    <3> QED
      BY <3>1 DEF Manifest
  <2> QED
    BY <1>1, <2>2, StartsInv DEF InfoRefs
<1>2. CASE PostUndiscovered(p)
  <2>1. NoRefs \in RefMaps
    BY DEF NoRefs, RefMaps
  <2> QED
    BY <1>2, <2>1, StartsInv DEF PostUndiscovered
<1> QED
  BY <1>1, <1>2

\* git runs: an accepted push moves exactly what the client asked for.
LEMMA ReceivePackInv ==
  ASSUME GitInv, NEW p \in Pushers, ReceivePack(p)
  PROVE  GitInv'
<1> DEFINE o == Repo(p)
           base == ManifestAt(pointer[o]).refs
           u == push[p].cmds
           ok == {r \in DOMAIN u : base[r] = push[p].seen[r]}
           q == [push[p] EXCEPT !.pc = "received", !.parent = pointer[o],
                                !.work = [r \in Refs |-> IF r \in ok THEN u[r] ELSE base[r]]]
<1>1. Grows /\ UNCHANGED <<manifests, packs, pointer, published, nameRow, refState>>
  BY UnchangedGrows DEF GitInv, ReceivePack, storeVars
<1>2. refState' \in 0 .. Len(manifests) /\ pushes' \in 0 .. MaxPushes
  BY DEF GitInv, GitTypeOK, ReceivePack
<1>3. CASE ok = DOMAIN u
  <2>1. push' = [push EXCEPT ![p] = q]
    BY <1>3 DEF ReceivePack
  <2>2. push[p] \in Push /\ pointer[o] \in 0 .. Len(manifests)
    BY GitAssumption DEF GitInv, GitTypeOK, Repo
  <2>3. base \in RefMaps
    BY <2>2, ManifestAtType DEF GitInv, GitTypeOK, Manifest
  <2>4. \A r \in DOMAIN u : u[r] \in Commits \cup {NoCommit}
    BY <2>2, GitAssumption DEF Push
  <2>5. [r \in Refs |-> IF r \in ok THEN u[r] ELSE base[r]] \in RefMaps
    BY <2>3, <2>4 DEF RefMaps
  <2>6. q \in Push /\ q.parent <= Len(manifests) /\ q.digest <= Len(manifests)
    <3> DEFINE w == [r \in Refs |-> IF r \in ok THEN u[r] ELSE base[r]]
    <3>1. push[p].digest <= Len(manifests) /\ Len(manifests) \in Nat /\ pointer[o] \in Nat
      BY <2>2 DEF GitInv, GitTypeOK
    <3>2. w \in RefMaps
      BY <2>5
    <3> HIDE DEF base, u, ok, w, o
    <3>3. [push[p] EXCEPT !.pc = "received", !.parent = pointer[o], !.work = w] \in Push
      BY <2>2, <3>1, <3>2 DEF Push
    <3>4. q \in Push
      BY <3>3 DEF w
    <3>5. q.parent = pointer[o] /\ q.digest = push[p].digest
      BY <2>2 DEF Push
    <3> HIDE DEF q
    <3> QED
      BY <2>2, <3>1, <3>4, <3>5
  <2>7. push'[p] = q
    BY <2>1 DEF GitInv, GitTypeOK
  <2>8. Hydrated(p)'
    <3>1. ManifestAt(q.parent)' = ManifestAt(pointer[o])
      BY <1>1, <2>2 DEF ManifestAt, Push
    <3>2. q.cmds = u /\ q.seen = push[p].seen /\ q.parent = pointer[o]
          /\ q.work = [r \in Refs |-> IF r \in ok THEN u[r] ELSE base[r]]
      BY <2>2 DEF Push
    <3> QED
      BY <1>1, <1>3, <2>7, <3>2 DEF Hydrated, ManifestAt
  <2>9. PushOK(p)'
    BY <2>2, <2>7, <2>8 DEF PushOK, Push
  <2> HIDE DEF q
  <2> QED
    BY <1>1, <1>2, <2>1, <2>6, <2>9, PushMoves DEF ReceivePack
<1>4. CASE ok # DOMAIN u
  <2>1. Ends(p, "rejected", Asked(p, ok))
    BY <1>4 DEF ReceivePack
  <2>2. Asked(p, ok) \in SUBSET (Refs \X (Commits \cup {NoCommit}))
    BY AskedType DEF GitInv
  <2>3. "rejected" \in Finished
    BY DEF Finished
  <2> HIDE DEF ok
  <2> QED
    BY <1>1, <1>2, <2>1, <2>2, <2>3, PushEnds DEF ReceivePack
<1> QED
  BY <1>3, <1>4

\* Compaction: the cut packs are stored and hold the closure.
LEMMA CompactInv ==
  ASSUME GitInv, NEW p \in Pushers, Compact(p)
  PROVE  GitInv'
<1>1. PICK cut \in SUBSET SUBSET Closure(push[p].work) :
        /\ UNION cut = Closure(push[p].work)
        /\ packs' = packs \cup cut
        /\ push' = [push EXCEPT ![p].pc = "packed", ![p].packs = cut]
  BY DEF Compact
<1> DEFINE q == [push[p] EXCEPT !.pc = "packed", !.packs = cut]
<1>2. push' = [push EXCEPT ![p] = q] /\ push[p] \in Push /\ push'[p] = q
  BY <1>1 DEF GitInv, GitTypeOK
<1>3. Closure(push[p].work) \subseteq Commits
  BY <1>2, GitAssumption DEF Closure, Push, RefMaps
<1>4. Grows
  BY <1>1, <1>3 DEF Grows, GitInv, GitTypeOK, Compact
<1>5. q \in Push /\ q.parent = push[p].parent /\ q.digest = push[p].digest
      /\ q.cmds = push[p].cmds /\ q.seen = push[p].seen /\ q.work = push[p].work
      /\ q.packs = cut /\ q.pc = "packed"
  BY <1>2, <1>3 DEF Push
<1>6. Hydrated(p)
  BY DEF GitInv, PushInv, PushOK, Compact, At
<1>7. Hydrated(p)'
  <2>1. manifests' = manifests
    BY DEF Compact
  <2> HIDE DEF q
  <2> QED
    BY <1>2, <1>5, <1>6, <2>1 DEF Hydrated, ManifestAt
<1>8. Packed(p)'
  BY <1>1, <1>2, <1>5 DEF Packed
<1>9. PushOK(p)'
  BY <1>2, <1>5, <1>7, <1>8 DEF PushOK
<1>10. q.parent <= Len(manifests) /\ q.digest <= Len(manifests)
       /\ pushes' \in 0 .. MaxPushes /\ refState' \in 0 .. Len(manifests)
  BY <1>5 DEF GitInv, GitTypeOK, Compact
<1> HIDE DEF q
<1> QED
  BY <1>2, <1>4, <1>5, <1>9, <1>10, PushMoves DEF Compact

\* A compaction that gives up leaves packs nobody names.
LEMMA CompactionFailsInv ==
  ASSUME GitInv, NEW p \in Pushers, CompactionFails(p)
  PROVE  GitInv'
<1>1. PICK cut \in SUBSET {Closure(push[p].work)} : packs' = packs \cup cut
  BY DEF CompactionFails
<1> DEFINE q == [push[p] EXCEPT !.pc = "delta"]
<1>2. push' = [push EXCEPT ![p] = q] /\ push[p] \in Push /\ push'[p] = q
  BY DEF GitInv, GitTypeOK, CompactionFails
<1>3. Closure(push[p].work) \subseteq Commits
  BY <1>2, GitAssumption DEF Closure, Push, RefMaps
<1>4. Grows
  BY <1>1, <1>3 DEF Grows, GitInv, GitTypeOK, CompactionFails
<1>5. q \in Push /\ q.parent = push[p].parent /\ q.digest = push[p].digest
      /\ q.cmds = push[p].cmds /\ q.seen = push[p].seen /\ q.work = push[p].work
      /\ q.pc = "delta"
  BY <1>2 DEF Push
<1>6. Hydrated(p)
  BY DEF GitInv, PushInv, PushOK, CompactionFails, At
<1>7. Hydrated(p)'
  BY <1>2, <1>5, <1>6 DEF Hydrated, ManifestAt, CompactionFails
<1>8. PushOK(p)'
  BY <1>2, <1>5, <1>7 DEF PushOK
<1>9. q.parent <= Len(manifests) /\ q.digest <= Len(manifests)
      /\ pushes' \in 0 .. MaxPushes /\ refState' \in 0 .. Len(manifests)
  BY <1>5 DEF GitInv, GitTypeOK, CompactionFails
<1> HIDE DEF q
<1> QED
  BY <1>2, <1>4, <1>5, <1>8, <1>9, PushMoves DEF CompactionFails

\* capture_pack: the packs of the parent and the new one hold the closure.
LEMMA PutPackInv ==
  ASSUME GitInv, NEW p \in Pushers, PutPack(p)
  PROVE  GitInv'
<1> DEFINE m == Parent(p)
           n == Cardinality(m.packs)
<1>1. PICK new \in DeltaPacks(push[p].work, m.refs) :
        IF new # {} /\ n >= MaxPacks
        THEN Ends(p, "failed", {}) /\ UNCHANGED packs
        ELSE /\ push' = [push EXCEPT ![p].pc = "packed", ![p].packs = PacksAfter(m, new)]
             /\ packs' = packs \cup new
  BY DEF PutPack
<1>2. push[p] \in Push /\ push[p].parent \in 0 .. Len(manifests)
      /\ push[p].digest <= Len(manifests)
  BY DEF GitInv, GitTypeOK, Push
<1>3. m \in Manifest
  BY <1>2, ManifestAtType DEF GitInv, GitTypeOK, Parent
<1>4. pushes' \in 0 .. MaxPushes /\ refState' \in 0 .. Len(manifests)
  BY DEF GitInv, GitTypeOK, PutPack
<1>5. CASE new # {} /\ n >= MaxPacks
  <2>1. Ends(p, "failed", {}) /\ Grows
    BY <1>1, <1>5, UnchangedGrows DEF GitInv, PutPack
  <2>2. "failed" \in Finished
    BY DEF Finished
  <2> QED
    BY <1>4, <2>1, <2>2, PushEnds DEF PutPack
<1>6. CASE ~(new # {} /\ n >= MaxPacks)
  <2> DEFINE all == m.packs \cup new
             q == [push[p] EXCEPT !.pc = "packed", !.packs = all]
  <2>1. push' = [push EXCEPT ![p] = q] /\ push'[p] = q /\ packs' = packs \cup new
    BY <1>1, <1>6 DEF PacksAfter, GitInv, GitTypeOK
  <2>2. Closure(push[p].work) \subseteq Commits
    BY <1>2, GitAssumption DEF Closure, Push, RefMaps
  <2>3. new \subseteq SUBSET Commits /\ Closure(push[p].work) \subseteq Closure(m.refs) \cup UNION new
    BY <2>2, EmptyManifestProperties DEF DeltaPacks
  <2>4. CanBeCloned(m)
    BY <1>2, EmptyManifestProperties DEF Parent, ManifestAt, GitInv, GitTypeOK, StoreInv
  <2>5. Grows
    BY <2>1, <2>3 DEF Grows, GitInv, GitTypeOK, PutPack
  <2>6. all \in SUBSET SUBSET Commits
    BY <1>3, <2>3 DEF Manifest
  <2>7. q \in Push /\ q.parent = push[p].parent /\ q.digest = push[p].digest
        /\ q.cmds = push[p].cmds /\ q.seen = push[p].seen /\ q.work = push[p].work
        /\ q.packs = all /\ q.pc = "packed"
    <3> HIDE DEF all
    <3> QED
      BY <1>2, <2>6 DEF Push
  <2>8. Hydrated(p)
    BY DEF GitInv, PushInv, PushOK, PutPack, At
  <2>9. Hydrated(p)'
    BY <2>1, <2>7, <2>8 DEF Hydrated, ManifestAt, PutPack
  <2>10. Packed(p)'
    <3>1. all \subseteq packs'
      BY <2>1, <2>4 DEF CanBeCloned
    <3>2. Closure(push[p].work) \subseteq UNION all
      BY <2>3, <2>4 DEF CanBeCloned
    <3> HIDE DEF all, q
    <3> QED
      BY <2>1, <2>7, <3>1, <3>2 DEF Packed
  <2>11. PushOK(p)'
    BY <2>1, <2>7, <2>9, <2>10 DEF PushOK
  <2>12. q.parent <= Len(manifests) /\ q.digest <= Len(manifests)
    BY <1>2, <2>7 DEF GitInv, GitTypeOK
  <2>13. UNCHANGED <<manifests, pointer, published, nameRow, ann, announced>>
    BY DEF PutPack
  <2> HIDE DEF q
  <2> QED
    BY <1>4, <2>1, <2>5, <2>7, <2>11, <2>12, <2>13, PushMoves
<1> QED
  BY <1>5, <1>6

\* A store that gets the manifest m, whose parent is stored and which can be
\* cloned, keeps its invariant.
LEMMA StoreExtended ==
  ASSUME GitTypeOK, StoreInv, NEW m \in Manifest, manifests' = WithManifest(m),
         packs' = packs, m.parent <= Len(manifests), CanBeCloned(m)
  PROVE  Grows /\ StoreInv'
<1>1. manifests \in Seq(Manifest) /\ packs \subseteq SUBSET Commits
  BY DEF GitTypeOK
<1>2. /\ manifests' \in Seq(Manifest)
      /\ Len(manifests) <= Len(manifests')
      /\ \A i \in 1 .. Len(manifests) : manifests'[i] = manifests[i]
      /\ \A i \in 1 .. Len(manifests') :
           i \in 1 .. Len(manifests) \/ (i = Len(manifests) + 1 /\ manifests'[i] = m)
  BY <1>1, WithManifestProperties
<1>3. Grows
  BY <1>1, <1>2 DEF Grows
<1>4. DOMAIN manifests = 1 .. Len(manifests) /\ DOMAIN manifests' = 1 .. Len(manifests')
      /\ Len(manifests) \in Nat /\ m.parent \in Nat
  BY <1>1, <1>2 DEF Manifest
<1> SUFFICES ASSUME NEW d \in 1 .. Len(manifests')
             PROVE  manifests'[d].parent < d /\ CanBeCloned(manifests[d])'
  BY <1>3, <1>4 DEF StoreInv
<1>5. CASE d \in 1 .. Len(manifests)
  <2>1. manifests[d].parent < d /\ CanBeCloned(manifests[d])
    BY <1>4, <1>5 DEF StoreInv
  <2> QED
    BY <1>2, <1>3, <1>5, <2>1, CloneableKept
<1>6. CASE d = Len(manifests) + 1 /\ manifests'[d] = m
  BY <1>4, <1>6 DEF CanBeCloned
<1> QED
  BY <1>2, <1>5, <1>6

\* The manifest is written: it can be cloned, and its parent is an older one.
LEMMA PutManifestInv ==
  ASSUME GitInv, NEW p \in Pushers, PutManifest(p)
  PROVE  GitInv'
<1> DEFINE m == Composed(p)
           d == DigestOf(m)
           q == [push[p] EXCEPT !.pc = "staged", !.digest = d]
<1>1. push[p] \in Push /\ push[p].parent \in 0 .. Len(manifests)
      /\ manifests \in Seq(Manifest) /\ push[p].pc = "packed"
  BY DEF GitInv, GitTypeOK, Push, PutManifest, At
<1>2. Parent(p) \in Manifest
  BY <1>1, ManifestAtType DEF Parent
<1>3. Parent(p).head \in Refs /\ push[p].work \in RefMaps
  BY <1>1, <1>2 DEF Manifest, Push
<1>4. m \in Manifest /\ m.refs = push[p].work /\ m.packs = push[p].packs
      /\ m.parent = push[p].parent
      /\ m.head = ResolveHead(push[p].work, Parent(p).head, Parent(p).head)
  BY <1>1, <1>3, ResolveHeadProperties DEF Composed, Manifest, Push
<1>5. Hydrated(p) /\ Packed(p)
  BY <1>1 DEF GitInv, PushInv, PushOK
<1>6. CanBeCloned(m)
  <2> HIDE DEF m
  <2> QED
    BY <1>3, <1>4, <1>5, ResolveHeadProperties DEF CanBeCloned, Packed
<1> HIDE DEF m
<1>7. manifests' = WithManifest(m) /\ packs' = packs
  BY DEF PutManifest, m
<1>8. Grows /\ StoreInv'
  BY <1>1, <1>4, <1>6, <1>7, StoreExtended DEF GitInv
<1>9. d \in 1 .. Len(manifests') /\ manifests'[d] = m
  BY <1>1, <1>4, <1>7, WithManifestProperties
<1> HIDE DEF d
<1>10. push' = [push EXCEPT ![p] = q] /\ push'[p] = q
  BY DEF PutManifest, GitInv, GitTypeOK, d, m
<1>11. q \in Push /\ q.parent = push[p].parent /\ q.digest = d
       /\ q.cmds = push[p].cmds /\ q.seen = push[p].seen /\ q.work = push[p].work
       /\ q.packs = push[p].packs /\ q.pc = "staged"
  <2>1. d \in Nat
    BY <1>8, <1>9 DEF Grows
  <2> QED
    BY <1>1, <2>1 DEF Push
<1> HIDE DEF q
<1>12. UNCHANGED <<pointer, published, nameRow, refState, pushes, ann, announced>>
  BY DEF PutManifest
<1>13. GitTypeOK'
  <2>1. Len(manifests) \in Nat /\ Len(manifests') \in Nat /\ Len(manifests) <= Len(manifests')
        /\ DOMAIN manifests = 1 .. Len(manifests) /\ DOMAIN manifests' = 1 .. Len(manifests')
    BY <1>1, <1>8 DEF Grows
  <2>2. \A s \in Seq(DOMAIN manifests) : s \in Seq(DOMAIN manifests')
    <3>1. DOMAIN manifests \subseteq DOMAIN manifests'
      BY <2>1
    <3> QED
      BY <3>1, SeqMonotonic
  <2>3. published' \in [Owners -> Seq(DOMAIN manifests')]
    BY <1>12, <2>2 DEF GitInv, GitTypeOK
  <2>4. pointer' \in [Owners -> 0 .. Len(manifests')] /\ refState' \in 0 .. Len(manifests')
    BY <1>12, <2>1 DEF GitInv, GitTypeOK
  <2>5. push' \in [Pushers -> Push]
    BY <1>10, <1>11 DEF GitInv, GitTypeOK
  <2>6. \A x \in Pushers : push'[x].parent <= Len(manifests') /\ push'[x].digest <= Len(manifests')
    <3> SUFFICES ASSUME NEW x \in Pushers
                 PROVE  push'[x].parent <= Len(manifests') /\ push'[x].digest <= Len(manifests')
      OBVIOUS
    <3>1. push[x].parent \in 0 .. Len(manifests) /\ push[x].digest \in 0 .. Len(manifests)
      BY DEF GitInv, GitTypeOK, Push
    <3>2. CASE x = p
      BY <1>9, <1>10, <1>11, <2>1, <3>1, <3>2
    <3>3. CASE x # p
      BY <1>10, <2>1, <3>1, <3>3 DEF GitInv, GitTypeOK
    <3> QED
      BY <3>2, <3>3
  <2> QED
    BY <1>7, <1>8, <1>12, <2>3, <2>4, <2>5, <2>6 DEF GitInv, GitTypeOK, Grows
<1>14. PushOK(p)'
  <2>1. Hydrated(p)'
    <3>1. manifests'[push[p].parent] = manifests[push[p].parent] \/ push[p].parent = 0
      BY <1>1, <1>8 DEF Grows
    <3> QED
      BY <1>5, <1>10, <1>11, <3>1 DEF Hydrated, ManifestAt
  <2>2. Packed(p)'
    BY <1>5, <1>7, <1>10, <1>11 DEF Packed
  <2>3. Staged(p)'
    <3>1. d \in DOMAIN manifests'
      BY <1>8, <1>9 DEF Grows
    <3> QED
      BY <1>4, <1>9, <1>10, <1>11, <3>1 DEF Staged
  <2> QED
    BY <2>1, <2>2, <2>3 DEF PushOK
<1>15. PushInv'
  BY <1>8, <1>10, <1>14, PushKept DEF GitInv, GitTypeOK, PushInv
<1> QED
  BY <1>8, <1>12, <1>13, <1>15, AnnKept, HistoryKept DEF GitInv

\* The compare-and-swap: the pointer moves to a manifest made from the one it held.
LEMMA CasWonInv ==
  ASSUME GitInv, NEW p \in Pushers, CasWon(p)
  PROVE  GitInv'
<1> DEFINE o == Repo(p)
           d == push[p].digest
<1>1. o \in Owners /\ push[p] \in Push /\ push[p].pc = "staged"
  BY GitAssumption DEF Repo, GitInv, GitTypeOK, CasWon, At
<1>2. Staged(p)
  BY <1>1 DEF GitInv, PushInv, PushOK
<1>3. d \in 1 .. Len(manifests) /\ manifests[d].parent = pointer[o] /\ pointer[o] < d
  BY <1>2 DEF CasWon, PreconditionHolds, Staged, GitInv, GitTypeOK, StoreInv
<1>4. UNCHANGED <<manifests, packs, nameRow, refState, pushes, ann, announced>>
      /\ SetPointer(o, d)
  BY DEF CasWon
<1>5. Grows
  BY <1>4, UnchangedGrows DEF GitInv
<1> HIDE DEF o, d
<1>6. Ascending' /\ LinearHistory'
  BY <1>1, <1>3, <1>4, <1>5, HistoryExtended DEF GitInv
<1>7. PICK q : /\ push' = [push EXCEPT ![p] = q]
               /\ q = [push[p] EXCEPT !.pc = "won"] \/ q = Ended("failed", {})
  <2>1. CASE push' = [push EXCEPT ![p].pc = "won"]
    BY <2>1
  <2>2. CASE Ends(p, "failed", {})
    BY <2>2 DEF Ends
  <2> QED
    BY <2>1, <2>2 DEF CasWon
<1>8. q \in Push /\ q.pc \in {"won", "failed"}
      /\ q.parent \in {push[p].parent, 0} /\ q.digest \in {push[p].digest, 0}
  <2>1. "failed" \in Finished
    BY DEF Finished
  <2>2. CASE q = Ended("failed", {})
    BY <2>1, <2>2, EndedType
  <2>3. CASE q = [push[p] EXCEPT !.pc = "won"]
    BY <1>1, <2>3 DEF Push
  <2> QED
    BY <1>7, <2>2, <2>3
<1>9. GitTypeOK'
  <2>1. published' \in [Owners -> Seq(DOMAIN manifests)]
    BY <1>1, <1>3, <1>4 DEF GitInv, GitTypeOK, SetPointer
  <2>2. pointer' \in [Owners -> 0 .. Len(manifests)]
    BY <1>1, <1>3, <1>4 DEF GitInv, GitTypeOK, SetPointer
  <2>3. push' \in [Pushers -> Push]
    BY <1>7, <1>8 DEF GitInv, GitTypeOK
  <2>4. \A x \in Pushers : push'[x].parent <= Len(manifests) /\ push'[x].digest <= Len(manifests)
    BY <1>7, <1>8 DEF GitInv, GitTypeOK
  <2> QED
    BY <1>4, <2>1, <2>2, <2>3, <2>4 DEF GitInv, GitTypeOK
<1>10. PushOK(p)'
  BY <1>7, <1>8 DEF PushOK, GitInv, GitTypeOK
<1>11. PushInv'
  BY <1>5, <1>7, <1>10, PushKept DEF GitInv, GitTypeOK, PushInv
<1>12. StoreInv' /\ AnnInv'
  BY <1>4, <1>5, StoreKept, AnnKept DEF GitInv
<1> QED
  BY <1>6, <1>9, <1>11, <1>12 DEF GitInv

\* The steps that answer the request.
LEMMA AnswerInv ==
  ASSUME GitInv, NEW p \in Pushers,
         HookDeclines(p) \/ CasLost(p) \/ PublishRefState(p) \/ PushFails(p)
  PROVE  GitInv'
<1>1. Grows /\ UNCHANGED <<manifests, pointer, published, nameRow, ann, announced, pushes>>
  BY UnchangedGrows DEF GitInv, HookDeclines, CasLost, PublishRefState, PushFails, storeVars
<1>2. refState' \in 0 .. Len(manifests)
  BY DEF HookDeclines, CasLost, PublishRefState, PushFails, GitInv, GitTypeOK, Push
<1>3. \E pc \in Finished, reported \in {{}, Asked(p, DOMAIN push[p].cmds)} : Ends(p, pc, reported)
  BY DEF HookDeclines, CasLost, PublishRefState, PushFails, Finished
<1>4. Asked(p, DOMAIN push[p].cmds) \in SUBSET (Refs \X (Commits \cup {NoCommit}))
  BY AskedType DEF GitInv
<1> QED
  BY <1>1, <1>2, <1>3, <1>4, PushEnds

-----------------------------------------------------------------------------
(* The steps of an announcement.                                           *)

\* The records of announcements.
Announcement ==
  [pc : {"idle", "unowned", "ensure", "seed", "seed_lost", "seed_failed", "ensured"},
   reserved : BOOLEAN]

\* A step of an announcement that leaves store and pushes alone.
LEMMA AnnounceMoves ==
  ASSUME GitInv, UNCHANGED <<storeVars, push, pushes>>, ann' \in [Announcers -> Announcement],
         nameRow' \in SUBSET Owners, refState' \in 0 .. Len(manifests),
         announced' \in 0 .. MaxAnnouncements, AnnInv'
  PROVE  GitInv'
<1>1. Grows
  BY UnchangedGrows DEF GitInv, storeVars
<1>2. GitTypeOK'
  BY DEF GitInv, GitTypeOK, storeVars, Announcement
<1>3. StoreInv' /\ Ascending' /\ LinearHistory'
  BY <1>1, StoreKept, HistoryKept DEF GitInv, storeVars
<1>4. PushInv'
  BY <1>1, PushKept DEF GitInv, PushInv
<1> QED
  BY <1>2, <1>3, <1>4 DEF GitInv

\* Where an announcement goes is one of its places, and it is past the seed only
\* if the empty manifest is stored.
LEMMA AnnGoesInv ==
  ASSUME GitInv, NEW a \in Announcers, NEW reserved \in BOOLEAN,
         NEW pc \in {"idle", "unowned", "ensure", "seed", "seed_lost", "seed_failed", "ensured"},
         AnnGoes(a, pc, reserved), Grows,
         pc \in {"seed_lost", "ensured"} /\ reserved =>
           \E d \in DOMAIN manifests' : manifests'[d] = EmptyManifest
  PROVE  ann' \in [Announcers -> Announcement] /\ AnnInv'
<1>1. ann \in [Announcers -> Announcement]
  BY DEF GitInv, GitTypeOK, Announcement
<1>2. ann' \in [Announcers -> Announcement]
  BY <1>1 DEF AnnGoes, Announcement
<1>3. DOMAIN manifests = 1 .. Len(manifests) /\ DOMAIN manifests' = 1 .. Len(manifests')
      /\ Len(manifests) \in Nat /\ Len(manifests') \in Nat
  BY DEF GitInv, GitTypeOK, Grows
<1>4. (\E d \in DOMAIN manifests : manifests[d] = EmptyManifest) =>
        (\E d \in DOMAIN manifests' : manifests'[d] = EmptyManifest)
  BY <1>3 DEF Grows
<1>5. AnnInv'
  BY <1>1, <1>4 DEF AnnGoes, AnnInv, GitInv, Announcement
<1> QED
  BY <1>2, <1>5

\* The steps that touch neither the store nor the newest reference state.
LEMMA AnnounceInv ==
  ASSUME GitInv, NEW a \in Announcers,
         \/ PeekName(a) \/ ReserveName(a) \/ EnsurePointer(a) \/ RereadPointer(a)
         \/ ReleaseName(a) \/ AnnouncementFails(a) \/ SeedFails(a)
  PROVE  GitInv'
<1> DEFINE Places == {"idle", "unowned", "ensure", "seed", "seed_lost", "seed_failed", "ensured"}
<1>1. UNCHANGED <<storeVars, push, pushes, refState>> /\ Grows
  BY UnchangedGrows
     DEF GitInv, storeVars, PeekName, ReserveName, EnsurePointer, RereadPointer, ReleaseName,
         AnnouncementFails, SeedFails
<1>2. announced' \in 0 .. MaxAnnouncements
  <2>1. announced' = announced \/ (announced < MaxAnnouncements /\ announced' = announced + 1)
    BY DEF PeekName, ReserveName, EnsurePointer, RereadPointer, ReleaseName,
           AnnouncementFails, SeedFails
  <2>2. announced \in 0 .. MaxAnnouncements /\ MaxAnnouncements \in Nat
    BY GitAssumption DEF GitInv, GitTypeOK
  <2> QED
    BY <2>1, <2>2
<1>3. nameRow' \in SUBSET Owners
  <2>1. nameRow' = nameRow \/ nameRow' = {Repo(a)} \/ nameRow' = nameRow \ {Repo(a)}
    BY DEF PeekName, ReserveName, EnsurePointer, RereadPointer, ReleaseName,
           AnnouncementFails, SeedFails
  <2>2. nameRow \in SUBSET Owners /\ Repo(a) \in Owners
    BY GitAssumption DEF GitInv, GitTypeOK, Repo
  <2> QED
    BY <2>1, <2>2
<1>4. \E pc \in Places, reserved \in BOOLEAN :
        /\ AnnGoes(a, pc, reserved)
        /\ pc \in {"seed_lost", "ensured"} /\ reserved =>
             ann[a].pc = "seed_lost" /\ ann[a].reserved
  BY DEF GitInv, GitTypeOK, PeekName, ReserveName, EnsurePointer, RereadPointer, ReleaseName,
         AnnouncementFails, SeedFails, AnnAt
<1>5. ann' \in [Announcers -> Announcement] /\ AnnInv'
  BY <1>1, <1>4, AnnGoesInv DEF GitInv, AnnInv, storeVars
<1>6. refState' \in 0 .. Len(manifests)
  BY <1>1 DEF GitInv, GitTypeOK
<1> QED
  BY <1>1, <1>2, <1>3, <1>5, <1>6, AnnounceMoves

\* The initial reference state of a fresh repository names the empty manifest.
LEMMA EmitInitialRefStateInv ==
  ASSUME GitInv, NEW a \in Announcers, EmitInitialRefState(a)
  PROVE  GitInv'
<1>1. Grows
  BY UnchangedGrows DEF GitInv, EmitInitialRefState, storeVars
<1>2. ann' \in [Announcers -> Announcement] /\ AnnInv'
  BY <1>1, AnnGoesInv DEF EmitInitialRefState
<1>3. ann[a].reserved => DigestOf(EmptyManifest) \in DOMAIN manifests
  BY DEF EmitInitialRefState, AnnAt, GitInv, AnnInv, DigestOf
<1>4. refState' \in 0 .. Len(manifests)
  BY <1>3 DEF EmitInitialRefState, GitInv, GitTypeOK
<1>5. announced' \in 0 .. MaxAnnouncements /\ nameRow' \in SUBSET Owners
  BY DEF EmitInitialRefState, GitInv, GitTypeOK
<1> QED
  BY <1>2, <1>4, <1>5, AnnounceMoves DEF EmitInitialRefState

\* The seed: the empty manifest, and a pointer to it where there was none.
LEMMA SeedPointerInv ==
  ASSUME GitInv, NEW a \in Announcers, SeedPointer(a)
  PROVE  GitInv'
<1> DEFINE o == Repo(a)
           d == DigestOf(EmptyManifest)
<1>1. EmptyManifest \in Manifest /\ EmptyManifest.parent = 0 /\ CanBeCloned(EmptyManifest)
      /\ manifests \in Seq(Manifest) /\ o \in Owners /\ ann[a].reserved \in BOOLEAN
  BY EmptyManifestProperties, GitAssumption DEF GitInv, GitTypeOK, Repo
<1>2. UNCHANGED <<packs, nameRow, refState, push, pushes, announced>>
      /\ manifests' = WithManifest(EmptyManifest)
  BY DEF SeedPointer
<1>3. Grows /\ StoreInv'
  BY <1>1, <1>2, StoreExtended DEF GitInv
<1>4. d \in 1 .. Len(manifests') /\ manifests'[d] = EmptyManifest
  BY <1>1, <1>2, WithManifestProperties
<1>5. Len(manifests) \in Nat /\ Len(manifests') \in Nat /\ Len(manifests) <= Len(manifests')
      /\ DOMAIN manifests = 1 .. Len(manifests) /\ DOMAIN manifests' = 1 .. Len(manifests')
  BY <1>1, <1>3 DEF Grows
<1> HIDE DEF d, o
<1>6. ann' \in [Announcers -> Announcement] /\ AnnInv'
  <2>1. \E pc \in {"ensured", "seed_failed", "seed_lost"} : AnnGoes(a, pc, ann[a].reserved)
    BY DEF SeedPointer
  <2>2. \E x \in DOMAIN manifests' : manifests'[x] = EmptyManifest
    BY <1>4, <1>5
  <2> QED
    BY <1>1, <1>3, <2>1, <2>2, AnnGoesInv
<1>7. \/ pointer[o] = 0 /\ SetPointer(o, d)
      \/ UNCHANGED <<pointer, published>>
  BY DEF SeedPointer, o, d
<1>8. Ascending' /\ LinearHistory'
  <2>1. CASE pointer[o] = 0 /\ SetPointer(o, d)
    <3>1. manifests'[d].parent = pointer[o] /\ pointer[o] < d
      BY <1>1, <1>4, <1>5, <2>1
    <3> QED
      BY <1>1, <1>3, <1>4, <2>1, <3>1, HistoryExtended DEF GitInv
  <2>2. CASE UNCHANGED <<pointer, published>>
    BY <1>3, <2>2, HistoryKept DEF GitInv
  <2> QED
    BY <1>7, <2>1, <2>2
<1>9. PushInv'
  BY <1>2, <1>3, PushKept DEF GitInv, PushInv
<1>10. GitTypeOK'
  <2>1. \A s \in Seq(DOMAIN manifests) : s \in Seq(DOMAIN manifests')
    <3>1. DOMAIN manifests \subseteq DOMAIN manifests'
      BY <1>5
    <3> QED
      BY <3>1, SeqMonotonic
  <2>2. published \in [Owners -> Seq(DOMAIN manifests')] /\ pointer \in [Owners -> 0 .. Len(manifests')]
        /\ refState' \in 0 .. Len(manifests')
    BY <1>2, <1>5, <2>1 DEF GitInv, GitTypeOK
  <2>3. d \in DOMAIN manifests' /\ d \in 0 .. Len(manifests')
    BY <1>4, <1>5
  <2>4. published' \in [Owners -> Seq(DOMAIN manifests')] /\ pointer' \in [Owners -> 0 .. Len(manifests')]
    <3>1. CASE UNCHANGED <<pointer, published>>
      BY <2>2, <3>1
    <3>2. CASE SetPointer(o, d)
      <4>1. Append(published[o], d) \in Seq(DOMAIN manifests')
        BY <1>1, <2>2, <2>3, AppendProperties
      <4> QED
        BY <1>1, <2>2, <2>3, <3>2, <4>1 DEF SetPointer
    <3> QED
      BY <1>7, <3>1, <3>2
  <2>5. \A x \in Pushers : push'[x].parent <= Len(manifests') /\ push'[x].digest <= Len(manifests')
    <3> SUFFICES ASSUME NEW x \in Pushers
                 PROVE  push'[x].parent <= Len(manifests') /\ push'[x].digest <= Len(manifests')
      OBVIOUS
    <3>1. push[x].parent \in 0 .. Len(manifests) /\ push[x].digest \in 0 .. Len(manifests)
      BY DEF GitInv, GitTypeOK, Push
    <3> QED
      BY <1>2, <1>5, <3>1
  <2> QED
    BY <1>2, <1>3, <1>6, <2>2, <2>4, <2>5 DEF GitInv, GitTypeOK, Grows, Announcement
<1> QED
  BY <1>3, <1>6, <1>8, <1>9, <1>10 DEF GitInv

-----------------------------------------------------------------------------
(* The theorems.                                                           *)

\* A repository nobody announced: no manifest, no pointer, no push.
LEMMA GitInitInv == GitInit => GitInv
<1> SUFFICES ASSUME GitInit PROVE GitInv
  OBVIOUS
<1>1. "idle" \in Finished
  BY DEF Finished
<1>2. Ended("idle", {}) \in Push /\ Ended("idle", {}).parent = 0
      /\ Ended("idle", {}).digest = 0 /\ Ended("idle", {}).pc = "idle"
  BY <1>1, EndedType
<1>3. Len(manifests) = 0 /\ DOMAIN manifests = {} /\ manifests \in Seq(Manifest)
  BY DEF GitInit
<1>4. GitTypeOK
  BY <1>2, <1>3, GitAssumption DEF GitInit, GitTypeOK
<1>5. PushInv
  BY <1>2 DEF GitInit, PushInv, PushOK
<1>6. StoreInv /\ AnnInv
  BY <1>3 DEF GitInit, StoreInv, AnnInv
<1>7. Ascending /\ LinearHistory
  BY DEF GitInit, Ascending, LinearHistory
<1> QED
  BY <1>4, <1>5, <1>6, <1>7 DEF GitInv

\* Every step of a push or of an announcement keeps the invariant.
LEMMA GitStep == GitInv /\ [GitNext]_gitVars => GitInv'
<1> SUFFICES ASSUME GitInv, [GitNext]_gitVars PROVE GitInv'
  OBVIOUS
<1>1. ASSUME NEW p \in Pushers, PushStep(p) PROVE GitInv'
  BY <1>1, OpenInv, ReceivePackInv, CompactInv, CompactionFailsInv, PutPackInv, PutManifestInv,
     CasWonInv, AnswerInv DEF PushStep
<1>2. ASSUME NEW a \in Announcers, AnnounceStep(a) PROVE GitInv'
  BY <1>2, AnnounceInv, SeedPointerInv, EmitInitialRefStateInv DEF AnnounceStep
<1>3. CASE UNCHANGED gitVars
  <2>1. Grows
    BY <1>3, UnchangedGrows DEF GitInv, gitVars
  <2>2. StoreInv' /\ AnnInv' /\ Ascending' /\ LinearHistory'
    BY <1>3, <2>1, StoreKept, AnnKept, HistoryKept DEF GitInv, gitVars
  <2>3. PushInv'
    BY <1>3, <2>1, PushKept DEF GitInv, PushInv, gitVars
  <2>4. GitTypeOK'
    BY <1>3 DEF GitInv, GitTypeOK, gitVars
  <2> QED
    BY <2>2, <2>3, <2>4 DEF GitInv
<1> QED
  BY <1>1, <1>2, <1>3 DEF GitNext

\* Hence it holds in every state of the protocol.
LEMMA GitInvariant == GitSpec => []GitInv
  BY GitInitInv, GitStep, PTL DEF GitSpec

\* The store is well typed: no pointer, request, history or reference state names
\* a manifest that is not stored, whatever interleaves (cas_publish writes the
\* manifest before the pointer, seed_manifest_pointer too).
THEOREM GitTypeCorrect == GitSpec => []GitTypeOK
<1>1. GitInv => GitTypeOK
  BY DEF GitInv
<1> QED
  BY <1>1, GitInvariant, PTL

\* Every manifest a pointer has ever held can be cloned (cas_publish,
\* capture_pack, prepare_compaction, resolve_published_head).
THEOREM AlwaysCloneable == GitSpec => []Cloneable
<1>1. GitInv => Cloneable
  BY DEF GitInv, GitTypeOK, StoreInv, Cloneable
<1> QED
  BY <1>1, GitInvariant, PTL

\* The manifests a pointer has held form one chain in which none comes back
\* (put_pointer under the ETag of the hydration).
THEOREM OneHistory == GitSpec => []LinearHistory
<1>1. GitInv => LinearHistory
  BY DEF GitInv
<1> QED
  BY <1>1, GitInvariant, PTL

-----------------------------------------------------------------------------
(* The refinement: every step of the protocol is a step of RefStore or none. *)

\* What the mapping makes of the store and of the requests.
refsBar == [o \in Owners |-> ManifestAt(pointer[o]).refs]

requestBar ==
  [p \in Pushers |-> [status |-> AbstractStatus(push[p].pc),
                      seen |-> push[p].seen, cmds |-> push[p].cmds]]

\* Where the protocol is, in the words of RefStore.
LEMMA StatusOf ==
  /\ \A pc \in {"advertised", "received", "delta", "packed", "staged"} : AbstractStatus(pc) = "open"
  /\ AbstractStatus("won") = "committed"
  /\ AbstractStatus("rejected") = "refused" /\ AbstractStatus("conflict") = "refused"
  /\ AbstractStatus("idle") = "idle" /\ AbstractStatus("acked") = "acked"
  /\ AbstractStatus("failed") = "failed"
  BY DEF AbstractStatus

\* While no pointer moves, no reference does.
LEMMA RefsKept ==
  ASSUME GitInv, Grows, pointer' = pointer
  PROVE  refsBar' = refsBar
<1>1. \A o \in Owners : pointer[o] \in 0 .. Len(manifests)
  BY DEF GitInv, GitTypeOK
<1>2. \A o \in Owners : ManifestAt(pointer[o])' = ManifestAt(pointer[o])
  BY <1>1 DEF ManifestAt, Grows
<1> QED
  BY <1>2 DEF refsBar

\* Only the request that moves changes its abstract state.
LEMMA RequestMoves ==
  ASSUME GitInv, NEW p \in Pushers, NEW q, push' = [push EXCEPT ![p] = q]
  PROVE  requestBar' = [requestBar EXCEPT ![p] =
           [status |-> AbstractStatus(q.pc), seen |-> q.seen, cmds |-> q.cmds]]
<1>1. push \in [Pushers -> Push]
  BY DEF GitInv, GitTypeOK
<1>2. push'[p] = q /\ \A x \in Pushers \ {p} : push'[x] = push[x]
  BY <1>1
<1> QED
  BY <1>2 DEF requestBar

\* An answered request asks for nothing.
LEMMA RequestEnds ==
  ASSUME GitInv, NEW p \in Pushers, NEW pc, NEW reported, Ends(p, pc, reported)
  PROVE  requestBar' = [requestBar EXCEPT ![p] = Abstract!Ended(AbstractStatus(pc))]
<1>1. push' = [push EXCEPT ![p] = Ended(pc, reported)]
  BY DEF Ends
<1>2. Ended(pc, reported).pc = pc /\ Ended(pc, reported).seen = NoRefs /\ Ended(pc, reported).cmds = <<>>
  BY DEF Ended
<1>3. NoRefs = Abstract!NoRefs
  BY DEF NoRefs, Abstract!NoRefs
<1> QED
  BY <1>1, <1>2, <1>3, RequestMoves DEF Abstract!Ended

\* The places of a push that has started and has not moved the pointer.
Underway == {"advertised", "received", "delta", "packed", "staged"}

\* A step that neither moves a pointer nor answers or starts a request.
LEMMA RequestWorks ==
  ASSUME GitInv, NEW p \in Pushers,
         push[p].pc \in Underway, NEW q, q.pc \in Underway,
         q.seen = push[p].seen, q.cmds = push[p].cmds,
         push' = [push EXCEPT ![p] = q]
  PROVE  requestBar' = requestBar
<1>1. requestBar[p] = [status |-> AbstractStatus(q.pc), seen |-> q.seen, cmds |-> q.cmds]
  BY StatusOf DEF requestBar, Underway
<1> QED
  BY <1>1, RequestMoves DEF requestBar

\* A request that starts is opened.
LEMMA StartsOpens ==
  ASSUME GitInv, NEW p \in Pushers, NEW seen \in RefMaps, NEW u \in Commands,
         Starts(p, seen, u), refsBar' = refsBar
  PROVE  Abstract!Open(p)
<1> DEFINE q == [Ended("advertised", {}) EXCEPT !.seen = seen, !.cmds = u]
           new == [status |-> "open", seen |-> seen, cmds |-> u]
<1>1. q.pc = "advertised" /\ q.seen = seen /\ q.cmds = u
  BY DEF Ended
<1>2. push' = [push EXCEPT ![p] = q] /\ push[p].pc \in Finished
  BY DEF Starts
<1> HIDE DEF q
<1>3. requestBar' = [requestBar EXCEPT ![p] = new]
  <2>1. AbstractStatus(q.pc) = "open"
    BY <1>1, StatusOf
  <2>2. requestBar' = [requestBar EXCEPT ![p] =
          [status |-> AbstractStatus(q.pc), seen |-> q.seen, cmds |-> q.cmds]]
    BY <1>2, RequestMoves
  <2> QED
    BY <1>1, <2>1, <2>2
<1>4. requestBar'[p] = new
  BY <1>3 DEF requestBar
<1>5. requestBar[p].status \notin {"open", "committed"}
  BY <1>2, StatusOf DEF requestBar, Finished
<1>6. new \in [status : {"open"}, seen : Abstract!RefMaps, cmds : Commands]
  BY DEF RefMaps, Abstract!RefMaps
<1> QED
  BY <1>3, <1>4, <1>5, <1>6 DEF Abstract!Open, refsBar, requestBar

\* A request that ends without an effect is refused, failed or acknowledged.
LEMMA EndsAbstractly ==
  ASSUME GitInv, NEW p \in Pushers, NEW pc, NEW reported, Ends(p, pc, reported), refsBar' = refsBar
  PROVE  /\ push[p].pc \notin Finished \cup {"won"} /\ pc \in {"rejected", "conflict"} => Abstract!Refuse(p)
         /\ push[p].pc \notin Finished /\ pc = "failed" => Abstract!Fail(p)
         /\ push[p].pc = "won" /\ pc = "acked" => Abstract!Acknowledge(p)
<1>1. requestBar' = [requestBar EXCEPT ![p] = Abstract!Ended(AbstractStatus(pc))]
  BY RequestEnds
<1>2. push[p].pc \in Finished \cup {"advertised", "received", "delta", "packed", "staged", "won"}
  BY DEF GitInv, GitTypeOK, Push
<1>3. requestBar[p].status = AbstractStatus(push[p].pc)
  BY DEF requestBar
<1>4. ASSUME push[p].pc \notin Finished \cup {"won"}, pc \in {"rejected", "conflict"}
      PROVE  Abstract!Refuse(p)
  <2>1. requestBar[p].status = "open" /\ AbstractStatus(pc) = "refused"
    BY <1>2, <1>3, <1>4, StatusOf
  <2> QED
    BY <1>1, <2>1 DEF Abstract!Refuse, Abstract!Is, Abstract!Ends, refsBar, requestBar
<1>5. ASSUME push[p].pc \notin Finished, pc = "failed"
      PROVE  Abstract!Fail(p)
  <2>1. requestBar[p].status \in {"open", "committed"} /\ AbstractStatus(pc) = "failed"
    BY <1>2, <1>3, <1>5, StatusOf
  <2> QED
    BY <1>1, <2>1 DEF Abstract!Fail, Abstract!Ends, refsBar, requestBar
<1>6. ASSUME push[p].pc = "won", pc = "acked"
      PROVE  Abstract!Acknowledge(p)
  <2>1. requestBar[p].status = "committed" /\ AbstractStatus(pc) = "acked"
    BY <1>2, <1>3, <1>6, StatusOf
  <2> QED
    BY <1>1, <2>1 DEF Abstract!Acknowledge, Abstract!Is, Abstract!Ends, refsBar, requestBar
<1> QED
  BY <1>4, <1>5, <1>6

\* The compare-and-swap is the instant at which the push takes effect, as a whole
\* and on the references its client saw.
LEMMA CasWonCommits ==
  ASSUME GitInv, NEW p \in Pushers, CasWon(p)
  PROVE  Abstract!Commit(p)
<1> DEFINE o == Repo(p)
           q == push[p]
           d == q.digest
           base == ManifestAt(q.parent).refs
<1>1. o \in Owners /\ q \in Push /\ q.pc = "staged" /\ o = OwnerOf[p]
  BY GitAssumption DEF Repo, GitInv, GitTypeOK, CasWon, At
<1>2. Staged(p) /\ Hydrated(p)
  BY <1>1 DEF GitInv, PushInv, PushOK
<1>3. pointer[o] = q.parent /\ pointer' = [pointer EXCEPT ![o] = d] /\ manifests' = manifests
  BY DEF CasWon, PreconditionHolds, SetPointer
<1>4. refsBar[o] = base
  BY <1>1, <1>3 DEF refsBar
<1>5. d \in 1 .. Len(manifests) /\ manifests[d].refs = q.work
  BY <1>2 DEF Staged, GitInv, GitTypeOK
<1>6. refsBar' = [refsBar EXCEPT ![o] = q.work]
  <2>1. pointer'[o] = d /\ \A x \in Owners \ {o} : pointer'[x] = pointer[x]
    BY <1>1, <1>3 DEF GitInv, GitTypeOK
  <2>2. ManifestAt(pointer[o])' = manifests[d]
    BY <1>3, <1>5, <2>1 DEF ManifestAt
  <2>3. \A x \in Owners \ {o} : ManifestAt(pointer[x])' = ManifestAt(pointer[x])
    BY <1>3, <2>1 DEF ManifestAt
  <2> QED
    BY <1>1, <1>5, <2>2, <2>3 DEF refsBar
<1>7. q.work = Abstract!Updated(refsBar[o], q.cmds) /\ \A r \in DOMAIN q.cmds : refsBar[o][r] = q.seen[r]
  BY <1>2, <1>4 DEF Hydrated, Abstract!Updated
<1>8. requestBar[p] = [status |-> "open", seen |-> q.seen, cmds |-> q.cmds]
  BY <1>1, StatusOf DEF requestBar
<1>9. \/ requestBar' = [requestBar EXCEPT ![p].status = "committed"]
      \/ requestBar' = [requestBar EXCEPT ![p] = Abstract!Ended("failed")]
  <2>1. CASE push' = [push EXCEPT ![p].pc = "won"]
    <3> DEFINE n == [q EXCEPT !.pc = "won"]
    <3>1. n.pc = "won" /\ n.seen = q.seen /\ n.cmds = q.cmds
      BY <1>1 DEF Push
    <3>2. push' = [push EXCEPT ![p] = n]
      BY <2>1
    <3> HIDE DEF n, q
    <3>3. requestBar' = [requestBar EXCEPT ![p] =
            [status |-> AbstractStatus(n.pc), seen |-> n.seen, cmds |-> n.cmds]]
      BY <3>2, RequestMoves
    <3>4. AbstractStatus(n.pc) = "committed"
      BY <3>1, StatusOf
    <3>5. [status |-> AbstractStatus(n.pc), seen |-> n.seen, cmds |-> n.cmds]
            = [requestBar[p] EXCEPT !.status = "committed"]
      BY <1>8, <3>1, <3>4
    <3> QED
      BY <3>3, <3>5
  <2>2. CASE Ends(p, "failed", {})
    BY <2>2, RequestEnds, StatusOf
  <2> QED
    BY <2>1, <2>2 DEF CasWon
<1>10. requestBar[p].status = "open" /\ requestBar[p].cmds = q.cmds /\ requestBar[p].seen = q.seen
  BY <1>8
<1> HIDE DEF o, q, d, base
<1> QED
  BY <1>1, <1>6, <1>7, <1>9, <1>10
     DEF Abstract!Commit, Abstract!Is, Abstract!Ends, refsBar, requestBar

\* The steps of a push between its start and the compare-and-swap are invisible.
LEMMA WorkIsInvisible ==
  ASSUME GitInv, NEW p \in Pushers, Compact(p) \/ CompactionFails(p) \/ PutManifest(p)
  PROVE  requestBar' = requestBar
<1>1. push[p] \in Push /\ push[p].pc \in {"received", "packed"}
  BY DEF GitInv, GitTypeOK, Compact, CompactionFails, PutManifest, At
<1>2. \E cut, d : \E pc \in {"delta", "packed", "staged"} :
        push' = [push EXCEPT ![p] = [push[p] EXCEPT !.pc = pc, !.packs = cut, !.digest = d]]
  <2>1. CASE Compact(p)
    <3>1. PICK cut : push' = [push EXCEPT ![p].pc = "packed", ![p].packs = cut]
      BY <2>1 DEF Compact
    <3>2. push' = [push EXCEPT ![p] = [push[p] EXCEPT !.pc = "packed", !.packs = cut, !.digest = push[p].digest]]
      BY <1>1, <3>1 DEF Push
    <3> QED
      BY <3>2
  <2>2. CASE CompactionFails(p)
    <3>1. push' = [push EXCEPT ![p] = [push[p] EXCEPT !.pc = "delta", !.packs = push[p].packs, !.digest = push[p].digest]]
      BY <1>1, <2>2 DEF CompactionFails, Push
    <3> QED
      BY <3>1
  <2>3. CASE PutManifest(p)
    <3>1. push' = [push EXCEPT ![p] = [push[p] EXCEPT !.pc = "staged", !.packs = push[p].packs, !.digest = DigestOf(Composed(p))]]
      BY <1>1, <2>3 DEF PutManifest, Push
    <3> QED
      BY <3>1
  <2> QED
    BY <2>1, <2>2, <2>3
<1>3. PICK q : /\ push' = [push EXCEPT ![p] = q]
               /\ q.pc \in Underway
               /\ q.seen = push[p].seen /\ q.cmds = push[p].cmds
  BY <1>1, <1>2 DEF Push, Underway
<1>4. push[p].pc \in Underway
  BY <1>1 DEF Underway
<1> QED
  BY <1>3, <1>4, RequestWorks

\* Every step of a push is a step of RefStore or changes nothing it can see.
LEMMA PushRefines ==
  ASSUME GitInv, GitInv', NEW p \in Pushers, PushStep(p)
  PROVE  Abstract!Next \/ UNCHANGED <<refsBar, requestBar>>
<1>1. p \in Pushers
  OBVIOUS
<1>2. CASE InfoRefs(p) \/ PostUndiscovered(p)
  <2>1. refsBar' = refsBar
    <3>1. Grows /\ pointer' = pointer
      BY <1>2, UnchangedGrows DEF GitInv, InfoRefs, PostUndiscovered, storeVars
    <3> QED
      BY <3>1, RefsKept
  <2>2. \E seen \in RefMaps, u \in Commands : Starts(p, seen, u)
    <3>1. CASE InfoRefs(p)
      <4>1. pointer[Repo(p)] \in 1 .. Len(manifests)
        BY <3>1, GitAssumption DEF InfoRefs, GitInv, GitTypeOK, Repo
      <4>2. manifests[pointer[Repo(p)]] \in Manifest
        BY <4>1 DEF GitInv, GitTypeOK
      <4>3. manifests[pointer[Repo(p)]].refs \in RefMaps
        BY <4>2 DEF Manifest
      <4> QED
        BY <3>1, <4>3 DEF InfoRefs
    <3>2. CASE PostUndiscovered(p)
      <4>1. NoRefs \in RefMaps
        BY DEF NoRefs, RefMaps
      <4> QED
        BY <3>2, <4>1 DEF PostUndiscovered
    <3> QED
      BY <1>2, <3>1, <3>2
  <2>3. Abstract!Open(p)
    BY <2>1, <2>2, StartsOpens
  <2> QED
    BY <2>3 DEF Abstract!Next
<1>3. CASE ReceivePack(p)
  <2>1. refsBar' = refsBar
    <3>1. Grows /\ pointer' = pointer
      BY <1>3, UnchangedGrows DEF GitInv, ReceivePack, storeVars
    <3> QED
      BY <3>1, RefsKept
  <2>2. push[p] \in Push /\ push[p].pc = "advertised"
    BY <1>3 DEF GitInv, GitTypeOK, ReceivePack, At
  <2>3. \/ \E w, d : push' = [push EXCEPT ![p] = [@ EXCEPT !.pc = "received", !.parent = d, !.work = w]]
        \/ \E reported : Ends(p, "rejected", reported)
    BY <1>3 DEF ReceivePack
  <2>4. ASSUME NEW w, NEW d, push' = [push EXCEPT ![p] = [@ EXCEPT !.pc = "received", !.parent = d, !.work = w]]
        PROVE  requestBar' = requestBar
    <3> DEFINE q == [push[p] EXCEPT !.pc = "received", !.parent = d, !.work = w]
    <3>1. q.pc \in Underway /\ push[p].pc \in Underway /\ q.seen = push[p].seen /\ q.cmds = push[p].cmds
      BY <2>2 DEF Push, Underway
    <3>2. push' = [push EXCEPT ![p] = q]
      BY <2>4
    <3> HIDE DEF q
    <3> QED
      BY <3>1, <3>2, RequestWorks
  <2>5. ASSUME NEW reported, Ends(p, "rejected", reported) PROVE Abstract!Next
    <3>1. Abstract!Refuse(p)
      BY <2>1, <2>2, <2>5, EndsAbstractly DEF Finished
    <3> QED
      BY <3>1 DEF Abstract!Next
  <2> QED
    BY <2>1, <2>3, <2>4, <2>5
<1>4. CASE Compact(p) \/ CompactionFails(p) \/ PutManifest(p)
  <2>1. Grows /\ pointer' = pointer
    <3>1. UNCHANGED pointer /\ packs \subseteq packs' /\ (manifests' = manifests \/ manifests' = WithManifest(Composed(p)))
      BY <1>4 DEF Compact, CompactionFails, PutManifest
    <3>2. manifests' \in Seq(Manifest) /\ packs' \subseteq SUBSET Commits
      BY DEF GitInv, GitTypeOK
    <3>3. Len(manifests) <= Len(manifests') /\ \A i \in 1 .. Len(manifests) : manifests'[i] = manifests[i]
      BY <3>1 DEF WithManifest, GitInv, GitTypeOK
    <3> QED
      BY <3>1, <3>2, <3>3 DEF Grows
  <2> QED
    BY <1>4, <2>1, RefsKept, WorkIsInvisible
<1>5. CASE PutPack(p)
  <2>1. push[p] \in Push /\ push[p].pc \in {"received", "delta"}
    BY <1>5 DEF GitInv, GitTypeOK, PutPack, At
  <2>2. refsBar' = refsBar
    <3>1. packs \subseteq packs' /\ UNCHANGED <<pointer, manifests>>
      BY <1>5 DEF PutPack
    <3>2. Grows
      BY <3>1 DEF Grows, GitInv, GitTypeOK
    <3> QED
      BY <3>1, <3>2, RefsKept
  <2>3. \/ \E all : push' = [push EXCEPT ![p].pc = "packed", ![p].packs = all]
        \/ Ends(p, "failed", {})
    BY <1>5 DEF PutPack
  <2>4. ASSUME NEW all, push' = [push EXCEPT ![p].pc = "packed", ![p].packs = all]
        PROVE  requestBar' = requestBar
    <3> DEFINE q == [push[p] EXCEPT !.pc = "packed", !.packs = all]
    <3>1. q.pc \in Underway /\ push[p].pc \in Underway /\ q.seen = push[p].seen /\ q.cmds = push[p].cmds
      BY <2>1 DEF Push, Underway
    <3>2. push' = [push EXCEPT ![p] = q]
      BY <2>4
    <3> HIDE DEF q
    <3> QED
      BY <3>1, <3>2, RequestWorks
  <2>5. ASSUME Ends(p, "failed", {}) PROVE Abstract!Next
    <3>1. Abstract!Fail(p)
      BY <2>1, <2>2, <2>5, EndsAbstractly DEF Finished
    <3> QED
      BY <3>1 DEF Abstract!Next
  <2> QED
    BY <2>2, <2>3, <2>4, <2>5
<1>6. CASE CasWon(p)
  BY <1>6, CasWonCommits DEF Abstract!Next
<1>7. CASE HookDeclines(p) \/ CasLost(p) \/ PublishRefState(p) \/ PushFails(p)
  <2>1. refsBar' = refsBar
    <3>1. Grows /\ pointer' = pointer
      BY <1>7, UnchangedGrows
         DEF GitInv, HookDeclines, CasLost, PublishRefState, PushFails, storeVars
    <3> QED
      BY <3>1, RefsKept
  <2>2. CASE HookDeclines(p) \/ CasLost(p)
    <3>1. Abstract!Refuse(p)
      BY <2>1, <2>2, EndsAbstractly DEF HookDeclines, CasLost, At, Finished
    <3> QED
      BY <3>1 DEF Abstract!Next
  <2>3. CASE PublishRefState(p)
    <3>1. push[p].pc = "won" /\ push[p].pc \notin Finished
      BY <2>3 DEF PublishRefState, At, Finished
    <3>2. Abstract!Acknowledge(p) \/ Abstract!Fail(p)
      BY <2>1, <2>3, <3>1, EndsAbstractly DEF PublishRefState
    <3> QED
      BY <3>2 DEF Abstract!Next
  <2>4. CASE PushFails(p)
    <3>1. Abstract!Fail(p)
      BY <2>1, <2>4, EndsAbstractly DEF PushFails
    <3> QED
      BY <3>1 DEF Abstract!Next
  <2> QED
    BY <1>7, <2>2, <2>3, <2>4
<1> QED
  BY <1>2, <1>3, <1>4, <1>5, <1>6, <1>7 DEF PushStep

\* An announcement changes nothing a client of RefStore can see: a seeded pointer
\* has the references of no pointer.
LEMMA AnnounceRefines ==
  ASSUME GitInv, GitInv', NEW a \in Announcers, AnnounceStep(a)
  PROVE  UNCHANGED <<refsBar, requestBar>>
<1>1. push' = push
  BY DEF AnnounceStep, PeekName, ReserveName, EnsurePointer, SeedPointer, RereadPointer,
         ReleaseName, EmitInitialRefState, AnnouncementFails, SeedFails
<1>2. requestBar' = requestBar
  BY <1>1 DEF requestBar
<1>3. CASE SeedPointer(a)
  <2> DEFINE o == Repo(a)
             d == DigestOf(EmptyManifest)
  <2>1. o \in Owners /\ manifests \in Seq(Manifest) /\ EmptyManifest \in Manifest
    BY GitAssumption, EmptyManifestProperties DEF Repo, GitInv, GitTypeOK
  <2>2. manifests' = WithManifest(EmptyManifest)
    BY <1>3 DEF SeedPointer
  <2>3. d \in 1 .. Len(manifests') /\ manifests'[d] = EmptyManifest
        /\ \A i \in 1 .. Len(manifests) : manifests'[i] = manifests[i]
    BY <2>1, <2>2, WithManifestProperties
  <2>4. \/ pointer[o] = 0 /\ pointer' = [pointer EXCEPT ![o] = d]
        \/ pointer' = pointer
    BY <1>3 DEF SeedPointer, SetPointer
  <2>5. \A x \in Owners : pointer[x] \in 0 .. Len(manifests)
    BY DEF GitInv, GitTypeOK
  <2> HIDE DEF o, d
  <2>6. ASSUME NEW x \in Owners PROVE ManifestAt(pointer[x])' = ManifestAt(pointer[x])
    <3>1. CASE pointer'[x] = pointer[x]
      BY <2>3, <2>5, <3>1 DEF ManifestAt
    <3>2. CASE pointer[x] = 0 /\ pointer'[x] = d
      BY <2>3, <3>2 DEF ManifestAt
    <3> QED
      BY <2>1, <2>4, <3>1, <3>2 DEF GitInv, GitTypeOK
  <2>7. refsBar' = refsBar
    BY <2>6 DEF refsBar
  <2> QED
    BY <1>2, <2>7
<1>4. CASE ~SeedPointer(a)
  <2>1. UNCHANGED storeVars
    BY <1>4 DEF AnnounceStep, PeekName, ReserveName, EnsurePointer, RereadPointer,
                ReleaseName, EmitInitialRefState, AnnouncementFails, SeedFails
  <2>2. Grows /\ pointer' = pointer
    BY <2>1, UnchangedGrows DEF GitInv, storeVars
  <2> QED
    BY <1>2, <2>2, RefsKept
<1> QED
  BY <1>3, <1>4

\* The push protocol implements RefStore: a push takes effect at one instant, as a
\* whole and on the references its client saw; a refused push never did, and only
\* one that did is acknowledged (finalize_push, cas_publish).
THEOREM PushesAreAtomic == GitSpec => ImplementsRefStore
<1>1. GitInit => Abstract!Init
  <2> SUFFICES ASSUME GitInit PROVE Abstract!Init
    OBVIOUS
  <2>1. refsBar = [o \in Owners |-> Abstract!NoRefs]
    BY DEF GitInit, refsBar, ManifestAt, EmptyManifest, NoRefs, Abstract!NoRefs
  <2>2. requestBar = [p \in Pushers |-> Abstract!Ended("idle")]
    <3>1. \A p \in Pushers : push[p].pc = "idle" /\ push[p].seen = NoRefs /\ push[p].cmds = <<>>
      BY DEF GitInit, Ended
    <3> QED
      BY <3>1, StatusOf DEF requestBar, Abstract!Ended, NoRefs, Abstract!NoRefs
  <2> QED
    BY <2>1, <2>2 DEF Abstract!Init, refsBar, requestBar
<1>2. GitInv /\ GitInv' /\ [GitNext]_gitVars => [Abstract!Next]_(Abstract!vars)
  <2> SUFFICES ASSUME GitInv, GitInv', [GitNext]_gitVars
               PROVE  Abstract!Next \/ UNCHANGED <<refsBar, requestBar>>
    BY DEF Abstract!vars, refsBar, requestBar
  <2>1. CASE UNCHANGED gitVars
    BY <2>1 DEF gitVars, refsBar, requestBar, ManifestAt
  <2>2. CASE GitNext
    BY <2>2, PushRefines, AnnounceRefines DEF GitNext
  <2> QED
    BY <2>1, <2>2
<1> QED
  BY <1>1, <1>2, GitInvariant, PTL DEF GitSpec, ImplementsRefStore, Abstract!Spec
============================================================================
