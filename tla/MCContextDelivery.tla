------------------------- MODULE MCContextDelivery -------------------------
(* Instances of ContextDelivery for TLC. *)
EXTENDS ContextDelivery, TLC

CONSTANTS a, b, f1, f2

\* For the runs that check the order of deliveries: flush threads are alike, and so
\* are the texts that are not empty.
ThreadAndTextSymmetry == Permutations({a, b}) \cup Permutations({f1, f2})
============================================================================
