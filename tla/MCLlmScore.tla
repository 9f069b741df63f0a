----------------------------- MODULE MCLlmScore -----------------------------
(* Instances of LlmScore for TLC: contexts of one and of two tokens. *)
EXTENDS LlmScore, TLC

CONSTANTS a, b

MCCtxLen == (a :> 1) @@ (b :> 2)
=============================================================================
