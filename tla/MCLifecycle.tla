---------------------------- MODULE MCLifecycle ----------------------------
(* A small instance of PoolLifecycle. *)
EXTENDS PoolLifecycle

TwoSlots == 0..1
=============================================================================
