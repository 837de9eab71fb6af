---------------------------- MODULE MCAccounting ----------------------------
(***************************************************************************)
(* Small instances of HarnessAccounting: the instances of MCHarness, with  *)
(* the history variables.                                                  *)
(***************************************************************************)
EXTENDS MCHarness, HarnessAccounting
=============================================================================
