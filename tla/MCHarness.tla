----------------------------- MODULE MCHarness -----------------------------
(***************************************************************************)
(* Small instances of Harness for TLC.  The conversations t1 and t2 are    *)
(* threads of channel ch1, u is a conversation of channel ch2; e1, e2 and  *)
(* e5 are events of t1, e3 is one of t2 and e4 one of u.  The authors'     *)
(* clocks do not agree with the order of arrival.                          *)
(***************************************************************************)
EXTENDS Harness, QueueLoops

OneThread == {"t1"}
SecondThread == {"t2"}
TwoThreads == {"t1", "t2"}
TwoChannels == {"t1", "u"}

Ch1 == {"ch1"}
Ch12 == {"ch1", "ch2"}

TwoOfOne   == {"e1", "e2"}
ThreeOfOne == {"e1", "e2", "e5"}
TwoAndOne  == {"e1", "e2", "e3"}
TwoAndUser == {"e1", "e2", "e4"}

MCRouting   == [c \in Conversations |-> IF c = "u" THEN "ch2" ELSE "ch1"]
MCConvOf    == [e \in Events |-> CASE e = "e3" -> "t2" [] e = "e4" -> "u" [] OTHER -> "t1"]
MCCreatedAt == [e \in Events |-> IF e = "e1" THEN 2 ELSE 1]

AgentSymmetry == Permutations(Agents)
=============================================================================
