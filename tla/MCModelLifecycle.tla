-------------------------- MODULE MCModelLifecycle --------------------------
(* Instances of ModelLifecycle for TLC. *)
EXTENDS ModelLifecycle, TLC
=============================================================================
