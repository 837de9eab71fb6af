------------------------------ MODULE RefStore ------------------------------
(***************************************************************************)
(* What the git side of the relay promises a client, with nothing about    *)
(* packs, manifests or object storage: each repository has a map of        *)
(* references, a push asks for some references to move from the values the *)
(* client saw to new ones, and the relay applies the whole push at once,   *)
(* only if every reference still has the value that was seen, and says     *)
(* "ok" only to a push it has applied.  GitPublish implements this module  *)
(* (theorem 3 of docs/git-on-object-storage.md, stated as a refinement).   *)
(***************************************************************************)
EXTENDS Integers

CONSTANTS
  Owners,      \* repositories are named after their owner
  Pushers,     \* clients that push
  OwnerOf,     \* the repository a client pushes to
  Refs,        \* reference names
  Commits,     \* object ids a reference may hold
  NoCommit,    \* the value of a reference that does not exist
  Commands     \* the sets of updates a push may ask for: functions from some
               \* references to their new values

VARIABLES
  refs,        \* refs[o]: the references of owner o's repository
  request      \* request[p]: the last push of client p and what became of it

vars == <<refs, request>>

RefMaps == [Refs -> Commits \cup {NoCommit}]

NoRefs == [r \in Refs |-> NoCommit]

\* The references after the updates cmds.
Updated(before, cmds) ==
  [r \in Refs |-> IF r \in DOMAIN cmds THEN cmds[r] ELSE before[r]]

\* A request that is not under way asks for nothing.
Ended(status) == [status |-> status, seen |-> NoRefs, cmds |-> <<>>]

Init ==
  /\ refs = [o \in Owners |-> NoRefs]
  /\ request = [p \in Pushers |-> Ended("idle")]

Is(p, status) == request[p].status = status

Ends(p, status) == request' = [request EXCEPT ![p] = Ended(status)]

\* A client asks for cmds on top of the references it saw.
Open(p) ==
  /\ request[p].status \notin {"open", "committed"}
  /\ request'[p] \in [status : {"open"}, seen : RefMaps, cmds : Commands]
  /\ request' = [request EXCEPT ![p] = request'[p]]
  /\ UNCHANGED refs

\* The push takes effect, all of it and on what the client saw.  The answer may
\* be lost afterwards, so the request may end as failed.
Commit(p) ==
  LET o == OwnerOf[p]
      q == request[p]
  IN /\ Is(p, "open")
     /\ \A r \in DOMAIN q.cmds : refs[o][r] = q.seen[r]
     /\ refs' = [refs EXCEPT ![o] = Updated(refs[o], q.cmds)]
     /\ request' = [request EXCEPT ![p].status = "committed"] \/ Ends(p, "failed")

\* The client is told "ok".
Acknowledge(p) ==
  Is(p, "committed") /\ Ends(p, "acked") /\ UNCHANGED refs

\* The client is told that nothing happened, and nothing did.
Refuse(p) ==
  Is(p, "open") /\ Ends(p, "refused") /\ UNCHANGED refs

\* The client gets an error that says nothing about the outcome.
Fail(p) ==
  request[p].status \in {"open", "committed"} /\ Ends(p, "failed") /\ UNCHANGED refs

Next ==
  \E p \in Pushers : Open(p) \/ Commit(p) \/ Acknowledge(p) \/ Refuse(p) \/ Fail(p)

Spec == Init /\ [][Next]_vars
=============================================================================
