---------------------------- MODULE ContextChannel ----------------------------
(***************************************************************************)
(* What the debouncer of WeaselTSF promises about the texts it accepts,    *)
(* without its threads, clocks and flags: texts are numbered as they are   *)
(* accepted, the server is handed some of them, and it is never handed an  *)
(* older text after a newer one or the same acceptance twice.              *)
(***************************************************************************)
EXTENDS Naturals

VARIABLES accepted,   \* number of texts accepted so far
          delivered   \* number of the text the server was handed last; 0: none

Init == accepted = 0 /\ delivered = 0

\* the debouncer takes in a new text
Accept == accepted' = accepted + 1 /\ UNCHANGED delivered

\* a text newer than the last one delivered, not necessarily the newest, arrives
Deliver ==
  /\ \E n \in (delivered + 1)..accepted : delivered' = n
  /\ UNCHANGED accepted

Spec == Init /\ [][Accept \/ Deliver]_<<accepted, delivered>>
==============================================================================
