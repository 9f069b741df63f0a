--------------------------- MODULE MCWeaselSession ---------------------------
(* The allocator gives the smallest address free, so that addresses are    *)
(* used again as soon as they can be.                                      *)
EXTENDS WeaselSession, TLC

CONSTANTS c1, c2
MCTwo == {c1, c2}
MCAlloc(used) == CHOOSE s \in Sessions \ used : \A r \in Sessions \ used : s <= r
=============================================================================
