----------------------------- MODULE MCUserFreq -----------------------------
(* Instances of UserFreq for TLC. *)
EXTENDS UserFreq, TLC
=============================================================================
