-------------------------- MODULE MCContextSource --------------------------
(* Instances of ContextSource for TLC. *)
EXTENDS ContextSource, TLC

CONSTANTS a, b, wps, other

WordSymmetry == Permutations({a, b})
=============================================================================
