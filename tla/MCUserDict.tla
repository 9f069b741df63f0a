----------------------------- MODULE MCUserDict -----------------------------
(* One phrase updates a word twice: chosen first, then a part of a longer  *)
(* word, which updates its parts with nothing (script_translator.cc:324).  *)
EXTENDS UserDict, TLC

CONSTANTS t1, t2, w1, w2
MCTypists == {t1, t2}
MCWords == {w1, w2}
MCPhrases ==
    {<<>>, <<[word |-> w1, add |-> 1]>>,
     <<[word |-> w1, add |-> 1], [word |-> w1, add |-> 0], [word |-> w2, add |-> 1]>>}
(* Older than what the dictionary may hold by then: a word counts less, one *)
(* that was deleted is back, one that is there is deleted.                  *)
MCSnapshots ==
    {[store |-> [w \in MCWords |-> IF w = w1 THEN 1 ELSE -1], clock |-> 1]}
MCSymmetry == Permutations(MCTypists)
=============================================================================
