------------------------------- MODULE MCGit -------------------------------
(* Instances of GitPublish for TLC. *)
EXTENDS GitPublish, TLC

CONSTANTS p1, p2, n1, o1, main, dev, c1, c2, c3

OneOwner == [x \in Pushers \cup Announcers |-> o1]

\* c2 and c3 are children of c1.
Fork == c1 :> {c1} @@ c2 :> {c1, c2} @@ c3 :> {c1, c3}

Heads == <<main>>

\* A branch is created, a second one at a commit that may already be stored, and
\* the second one moves while the first goes.
Updates ==
  {main :> c2, dev :> c1, main :> NoCommit @@ dev :> c3}

TwoRefs == {main :> c2, main :> c2 @@ dev :> c3}

PushSymmetry == Permutations({p1, p2})
=============================================================================
