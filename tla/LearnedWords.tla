---------------------------- MODULE LearnedWords ----------------------------
(***************************************************************************)
(* What a user dictionary promises, whoever types: one count per word,     *)
(* and at most one commit whose counting is still tentative.  The next     *)
(* commit, query or key keeps it; a BackSpace, the end of the process or a *)
(* disk that takes nothing forgets it, all of it and nothing else          *)
(* (user_dictionary.cc:486-510, memory.cc:99-160, level_db.cc:319-325).    *)
(***************************************************************************)
EXTENDS Integers

CONSTANT Words

VARIABLES
    kept,       \* commits of a word that will stay; negative when it was deleted
    open,       \* a commit is tentative
    tentative,  \* the counts it would give
    refusing    \* the disk takes nothing

Nothing == [w \in {} |-> 0]
Magnitude(n) == IF n < 0 THEN -n ELSE n
Settled ==
    [w \in Words |-> IF ~refusing /\ w \in DOMAIN tentative THEN tentative[w] ELSE kept[w]]

Init ==
    /\ kept = [w \in Words |-> 0] /\ open = FALSE /\ tentative = Nothing
    /\ refusing \in BOOLEAN

(* A word of the commit counts once more or as often as it did, whatever   *)
(* the number of its updates, and comes back to life if it was deleted.    *)
Learn ==
    /\ kept' = Settled /\ open' = TRUE /\ UNCHANGED refusing
    /\ \E W \in SUBSET Words :
         /\ DOMAIN tentative' = W
         /\ \A w \in W : tentative'[w] \in {kept'[w], Magnitude(kept'[w]) + 1}

Keep ==
    open /\ open' = FALSE /\ kept' = Settled /\ tentative' = Nothing /\ UNCHANGED refusing
Forget ==
    open /\ open' = FALSE /\ tentative' = Nothing /\ UNCHANGED <<kept, refusing>>

(* A deletion is never tentative, and keeps the commit that was.           *)
Delete ==
    /\ ~refusing /\ open' = FALSE /\ tentative' = Nothing /\ UNCHANGED refusing
    /\ \E w \in Words : \E n \in {1, Magnitude(kept[w])} \ {0} :
         kept' = [Settled EXCEPT ![w] = -n]

(* A damaged file is repaired or replaced.                                 *)
Replace == ~open /\ kept' \in [Words -> Int] /\ UNCHANGED <<open, tentative, refusing>>
Turn == refusing' = ~refusing /\ UNCHANGED <<kept, open, tentative>>

Next == Learn \/ Keep \/ Forget \/ Delete \/ Replace \/ Turn
Spec == Init /\ [][Next]_<<kept, open, tentative, refusing>>
=============================================================================
