------------------------- MODULE MCContextDebounce -------------------------
(* Instances of ContextDebounce for TLC. *)
EXTENDS ContextDebounce, TLC

CONSTANTS a, b, f1, f2

\* Flush threads are alike, and so are the texts that are not empty; only for runs
\* that check invariants.
ThreadAndTextSymmetry == Permutations({a, b}) \cup Permutations({f1, f2})
============================================================================
