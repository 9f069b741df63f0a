---------------------------- MODULE MCEngineCore ----------------------------
(* Two letters and a digit; a and aa are words.  A text has a candidate    *)
(* for each word it begins with, the longest first, but none if it ends    *)
(* in bb or aab, or holds the digit: so aa is converted whole or in part,  *)
(* ab in part only, and a letter may leave a text without candidates that  *)
(* had some.                                                               *)
EXTENDS EngineCore

CONSTANTS a, b, d

MCAlphabet == {a, b}
MCKeys == {a, b, d}
MCWords == {<<a>>, <<a, a>>}
MCLengths(text) ==
    IF \/ text \notin Seq(MCAlphabet)
       \/ IsSuffix(<<b, b>>, text) \/ IsSuffix(<<a, a, b>>, text)
    THEN <<>>
    ELSE SetToSortSeq({n \in 1..Len(text) : SubSeq(text, 1, n) \in MCWords}, >)
MCEditors == [auto_commit : BOOLEAN, auto_select : BOOLEAN]
=============================================================================
