--------------------------- MODULE UserDictProofs ---------------------------
(***************************************************************************)
(* Any number of typists, words and phrases: the types, the transaction    *)
(* that never outlives its typist, the recency of what a BackSpace takes   *)
(* back, the clock, and the refinement of LearnedWords.                    *)
(***************************************************************************)
EXTENDS UserDict, TLAPS, FiniteSetTheorems

(* Whoever began the transaction did so last.                              *)
OwnerIsLatest == inTx => \A u \in Typists : age[owner] <= age[u]

(* Who is not behind has a tick as late as the clock, and so has what they *)
(* wrote into the batch.                                                   *)
Fresh ==
    /\ \A u \in here \ behind : tick[u] >= clock
    /\ inTx => batchClock <= tick[owner]
    /\ inTx /\ owner \notin behind /\ batchClock # NoClock => batchClock >= clock

IInv == TypeOK /\ NothingLeftWaiting /\ OwnerIsLatest /\ Fresh

-----------------------------------------------------------------------------
(* A commit moves the tick by a number, since a phrase is finite.          *)
LEMMA TicksAreNat == ASSUME NEW p \in Phrases PROVE Ticks(p) \in Nat
<1>1. p \in Seq(Update)
  BY DictAssumption
<1>2. PICK n \in Nat : DOMAIN p = 1..n
  BY <1>1
<1>3. IsFiniteSet(1..n)
  BY <1>2, FS_Interval
<1>4. IsFiniteSet({i \in DOMAIN p : p[i].add = 1})
  BY <1>2, <1>3, FS_Subset
<1> QED
  BY <1>4, FS_CardinalityType DEF Ticks

LEMMA PhraseWords ==
    ASSUME NEW p \in Phrases PROVE {p[i].word : i \in DOMAIN p} \subseteq Words
<1>1. p \in Seq(Update)
  BY DictAssumption
<1>2. \A i \in DOMAIN p : p[i] \in Update
  BY <1>1
<1> QED
  BY <1>2 DEF Update

(* The store and the clock with the transaction written keep their types.  *)
LEMMA AfterType ==
    ASSUME TypeOK
    PROVE  /\ StoreAfter \in [Words -> Int]
           /\ ClockAfter \in Nat \cup {NoClock}
           /\ BehindAfter \subseteq Typists
BY DEF TypeOK, StoreAfter, ClockAfter, BehindAfter, Written, NoClock

LEMMA CountedType ==
    ASSUME TypeOK, NEW p, NEW w \in Words
    PROVE  /\ Counted(StoreAfter[w], Adds(p, w)) \in Int
           /\ Counted(StoreAfter[w], Adds(p, w)) \in {StoreAfter[w], Magnitude(StoreAfter[w]) + 1}
<1>1. StoreAfter[w] \in Int
  BY AfterType
<1>2. Adds(p, w) \in {0, 1}
  BY DEF Adds
<1> QED
  BY <1>1, <1>2 DEF Counted, Magnitude

(* Without a transaction nothing is written.                               *)
LEMMA AfterNone ==
    ASSUME TypeOK, ~inTx
    PROVE  StoreAfter = store /\ ClockAfter = clock /\ BehindAfter = behind
BY DEF TypeOK, StoreAfter, ClockAfter, BehindAfter, Written

LEMMA NothingType == Nothing = [w \in {} |-> 0] /\ DOMAIN Nothing = {} /\ Nothing \in [DOMAIN Nothing -> Int]
BY DEF Nothing

-----------------------------------------------------------------------------
LEMMA TypeStep == TypeOK /\ [Next]_vars => TypeOK'
<1> SUFFICES ASSUME TypeOK, [Next]_vars PROVE TypeOK'
  OBVIOUS
<1> USE DictAssumption, AfterType, NothingType
<1>1. ASSUME NEW u \in Typists, NEW script \in BOOLEAN, Type(u, script) PROVE TypeOK'
  BY <1>1 DEF TypeOK, Type, Query, CommitPendingTransaction, Emptied, Fetched, Fetches, NoClock
<1>2. ASSUME NEW u \in Typists, NEW script \in BOOLEAN, NEW w \in Words,
             OnDeleteEntry(u, w, script)
      PROVE  TypeOK'
  <2>1. DeletedStore(w) \in [Words -> Int]
    BY DEF DeletedStore, Deleted, TypeOK
  <2> QED
    BY <1>2, <2>1 DEF TypeOK, OnDeleteEntry, Emptied, Fetched, Fetches, NoClock
<1>3. ASSUME NEW u \in Typists, NEW p \in Phrases, OnCommit(u, p) PROVE TypeOK'
  <2>1. Ticks(p) \in Nat
    BY TicksAreNat
  <2>2. tick' \in [Typists -> Nat] /\ age' \in [Typists -> 0..Window + 1]
    BY <1>3, <2>1 DEF TypeOK, OnCommit
  <2>3. CASE loaded
    <3>1. DOMAIN batch' \subseteq Words /\ batch' \in [DOMAIN batch' -> Int]
      <4> DEFINE W == {p[i].word : i \in DOMAIN p}
      <4>1. batch' = [w \in W |-> Counted(StoreAfter[w], Adds(p, w))]
        BY <1>3, <2>3 DEF OnCommit
      <4>2. W \subseteq Words
        BY PhraseWords
      <4> HIDE DEF W
      <4>3. \A w \in W : Counted(StoreAfter[w], Adds(p, w)) \in Int
        BY <4>2, CountedType
      <4> QED
        BY <4>1, <4>2, <4>3
    <3> QED
      BY <1>3, <2>2, <2>3, <3>1 DEF TypeOK, OnCommit, NoClock
  <2>4. CASE ~loaded
    BY <1>3, <2>2, <2>4 DEF TypeOK, OnCommit
  <2> QED
    BY <2>3, <2>4
<1>4. ASSUME NEW u \in Typists, Escape(u) PROVE TypeOK'
  BY <1>4 DEF TypeOK, Escape, database
<1>5. ASSUME NEW u \in Typists, UnhandledKey(u) PROVE TypeOK'
  BY <1>5 DEF TypeOK, UnhandledKey, FinishSession, CommitPendingTransaction, Emptied
<1>6. ASSUME NEW u \in Typists, BackSpace(u) PROVE TypeOK'
  BY <1>6 DEF TypeOK, BackSpace, FinishSession, CommitPendingTransaction, Emptied
<1>7. ASSUME NEW u \in Typists, Load(u) PROVE TypeOK'
  <2>1. inTx' \in BOOLEAN /\ loaded' \in BOOLEAN /\ disabled' \in BOOLEAN /\ refusing' \in BOOLEAN
    BY <1>7, Zenon DEF TypeOK, Load, Arrives
  <2>2. /\ clock' \in Nat \cup {NoClock} /\ batchClock' \in Nat \cup {NoClock}
        /\ tick' \in [Typists -> Nat]
    BY <1>7 DEF TypeOK, Load, Arrives
  <2>3. age' \in [Typists -> 0..Window + 1]
    BY <1>7 DEF TypeOK, Load, Arrives
  <2> QED
    BY <1>7, <2>1, <2>2, <2>3 DEF TypeOK, Load, Arrives
<1>8. ASSUME NEW u \in Typists, LoadFails(u) PROVE TypeOK'
  <2>1. inTx' \in BOOLEAN /\ loaded' \in BOOLEAN /\ disabled' \in BOOLEAN /\ refusing' \in BOOLEAN
    BY <1>8, Zenon DEF TypeOK, LoadFails, Arrives
  <2>2. tick' \in [Typists -> Nat] /\ age' \in [Typists -> 0..Window + 1]
    BY <1>8 DEF TypeOK, LoadFails, Arrives
  <2> QED
    BY <1>8, <2>1, <2>2 DEF TypeOK, LoadFails, Arrives
<1>9. ASSUME NEW u \in Typists, Leave(u) PROVE TypeOK'
  BY <1>9 DEF TypeOK, Leave, CommitPendingTransaction, Emptied
<1>10. CASE Elapse
  <2>1. UNCHANGED <<database, here, composing, tick, owner, behind>>
    BY <1>10 DEF Elapse
  <2>2. age' \in [Typists -> 0..Window + 1]
    BY <1>10 DEF TypeOK, Elapse
  <2> QED
    BY <2>1, <2>2 DEF TypeOK, database
<1>11. CASE Recover
  <2>1. inTx' \in BOOLEAN /\ loaded' \in BOOLEAN /\ disabled' \in BOOLEAN /\ refusing' \in BOOLEAN
    BY <1>11, Zenon DEF TypeOK, Recover
  <2>2. store' \in [Words -> Int] /\ clock' \in Nat \cup {NoClock}
    BY <1>11 DEF TypeOK, Recover, Salvaged, Repaired
  <2> QED
    BY <1>11, <2>1, <2>2 DEF TypeOK, Recover
<1>12. CASE Crash
  BY <1>12 DEF TypeOK, Crash, Emptied
<1>13. CASE DiskTurns
  BY <1>13 DEF TypeOK, DiskTurns
<1>14. CASE UNCHANGED vars
  BY <1>14 DEF TypeOK, vars, database
<1> QED
  BY <1>1, <1>2, <1>3, <1>4, <1>5, <1>6, <1>7, <1>8, <1>9, <1>10, <1>11, <1>12, <1>13, <1>14
     DEF Next

(* One step of every action: what waits, who is latest, who is fresh.      *)
LEMMA WaitingStep == TypeOK /\ NothingLeftWaiting /\ [Next]_vars => NothingLeftWaiting'
<1> SUFFICES ASSUME TypeOK, NothingLeftWaiting, [Next]_vars PROVE NothingLeftWaiting'
  OBVIOUS
<1> USE DEF NothingLeftWaiting
<1>1. ASSUME NEW u \in Typists, NEW script \in BOOLEAN, Type(u, script)
      PROVE  NothingLeftWaiting'
  BY <1>1 DEF Type, Query, CommitPendingTransaction, Emptied
<1>2. ASSUME NEW u \in Typists, NEW script \in BOOLEAN, NEW w \in Words,
             OnDeleteEntry(u, w, script)
      PROVE  NothingLeftWaiting'
  BY <1>2 DEF OnDeleteEntry, Emptied
<1>3. ASSUME NEW u \in Typists, NEW p \in Phrases, OnCommit(u, p)
      PROVE  NothingLeftWaiting'
  <2>1. CASE loaded
    BY <1>3, <2>1 DEF OnCommit, TypeOK
  <2>2. CASE ~loaded
    BY <1>3, <2>2 DEF OnCommit
  <2> QED
    BY <2>1, <2>2
<1>4. ASSUME NEW u \in Typists, Escape(u) PROVE NothingLeftWaiting'
  BY <1>4 DEF Escape, database
<1>5. ASSUME NEW u \in Typists, UnhandledKey(u) PROVE NothingLeftWaiting'
  BY <1>5 DEF UnhandledKey, FinishSession, CommitPendingTransaction, Emptied
<1>6. ASSUME NEW u \in Typists, BackSpace(u) PROVE NothingLeftWaiting'
  <2>1. Emptied /\ UNCHANGED <<loaded, disabled>>
    BY <1>6, Zenon DEF BackSpace, FinishSession, CommitPendingTransaction
  <2> QED
    BY <2>1 DEF Emptied
<1>7. ASSUME NEW u \in Typists, Load(u) PROVE NothingLeftWaiting'
  <2>1. loaded' => ~disabled'
    BY <1>7, Zenon DEF Load
  <2>2. inTx' => loaded' /\ owner' \in here'
    BY <1>7, Zenon DEF Load, Arrives
  <2>3. ~inTx' => batch' = Nothing /\ batchClock' = NoClock
    BY <1>7 DEF Load, Arrives
  <2> QED
    BY <2>1, <2>2, <2>3
<1>8. ASSUME NEW u \in Typists, LoadFails(u) PROVE NothingLeftWaiting'
  BY <1>8 DEF LoadFails, Arrives
<1>9. ASSUME NEW u \in Typists, Leave(u) PROVE NothingLeftWaiting'
  BY <1>9 DEF Leave, CommitPendingTransaction, Emptied, Usable
<1>10. CASE Elapse
  BY <1>10 DEF Elapse, database
<1>11. CASE Recover
  BY <1>11 DEF Recover
<1>12. CASE Crash
  BY <1>12 DEF Crash, Emptied
<1>13. CASE DiskTurns
  BY <1>13 DEF DiskTurns
<1>14. CASE UNCHANGED vars
  BY <1>14 DEF vars, database
<1> QED
  BY <1>1, <1>2, <1>3, <1>4, <1>5, <1>6, <1>7, <1>8, <1>9, <1>10, <1>11, <1>12, <1>13, <1>14
     DEF Next

LEMMA LatestStep ==
    TypeOK /\ NothingLeftWaiting /\ OwnerIsLatest /\ [Next]_vars => OwnerIsLatest'
<1> SUFFICES ASSUME TypeOK, NothingLeftWaiting, OwnerIsLatest, [Next]_vars PROVE OwnerIsLatest'
  OBVIOUS
<1> USE DictAssumption DEF OwnerIsLatest, TypeOK
<1>1. ASSUME NEW u \in Typists, NEW script \in BOOLEAN, Type(u, script) PROVE OwnerIsLatest'
  BY <1>1 DEF Type, Query, CommitPendingTransaction, Emptied
<1>2. ASSUME NEW u \in Typists, NEW script \in BOOLEAN, NEW w \in Words,
             OnDeleteEntry(u, w, script)
      PROVE  OwnerIsLatest'
  BY <1>2 DEF OnDeleteEntry, Emptied
<1>3. ASSUME NEW u \in Typists, NEW p \in Phrases, OnCommit(u, p) PROVE OwnerIsLatest'
  <2>1. CASE loaded
    BY <1>3, <2>1 DEF OnCommit
  <2>2. CASE ~loaded
    BY <1>3, <2>2 DEF OnCommit, NothingLeftWaiting
  <2> QED
    BY <2>1, <2>2
<1>4. ASSUME NEW u \in Typists, Escape(u) PROVE OwnerIsLatest'
  BY <1>4 DEF Escape, database
<1>5. ASSUME NEW u \in Typists, UnhandledKey(u) PROVE OwnerIsLatest'
  BY <1>5 DEF UnhandledKey, FinishSession, CommitPendingTransaction, Emptied
<1>6. ASSUME NEW u \in Typists, BackSpace(u) PROVE OwnerIsLatest'
  BY <1>6 DEF BackSpace, FinishSession, CommitPendingTransaction, Emptied
<1>7. ASSUME NEW u \in Typists, Load(u) \/ LoadFails(u) PROVE OwnerIsLatest'
  <2>1. inTx => owner \in here
    BY DEF NothingLeftWaiting
  <2>2. Arrives(u)
    BY <1>7 DEF Load, LoadFails
  <2> QED
    BY <2>1, <2>2 DEF Arrives
<1>9. ASSUME NEW u \in Typists, Leave(u) PROVE OwnerIsLatest'
  BY <1>9 DEF Leave, CommitPendingTransaction, Emptied
<1>10. CASE Elapse
  BY <1>10 DEF Elapse, database, NothingLeftWaiting
<1>11. CASE Recover
  BY <1>11 DEF Recover
<1>12. CASE Crash
  BY <1>12 DEF Crash, Emptied
<1>13. CASE DiskTurns
  BY <1>13 DEF DiskTurns
<1>14. CASE UNCHANGED vars
  BY <1>14 DEF vars, database
<1> QED
  BY <1>1, <1>2, <1>3, <1>4, <1>5, <1>6, <1>7, <1>9, <1>10, <1>11, <1>12, <1>13, <1>14
     DEF Next

-----------------------------------------------------------------------------
(* Who is not behind once the transaction is written has a tick as late as *)
(* the clock then is.                                                      *)
LEMMA FreshAfter ==
    ASSUME IInv, NEW u \in here \ BehindAfter
    PROVE  tick[u] >= ClockAfter
<1> USE DEF IInv, TypeOK, Fresh, NoClock
<1>1. CASE ClockAfter = clock
  BY <1>1 DEF BehindAfter
<1>2. CASE ClockAfter # clock
  BY <1>2 DEF BehindAfter, ClockAfter, Written
<1> QED
  BY <1>1, <1>2

(* The clock is written back only by who is behind.                        *)
LEMMA ClockAfterForward ==
    ASSUME IInv, owner \notin behind
    PROVE  ClockAfter >= clock
BY DEF IInv, TypeOK, Fresh, NoClock, ClockAfter, Written

LEMMA FreshStep == IInv /\ [Next]_vars => Fresh'
<1> SUFFICES ASSUME IInv, [Next]_vars PROVE Fresh'
  OBVIOUS
<1>t. TypeOK /\ Fresh /\ NothingLeftWaiting /\ TypeOK'
  BY TypeStep DEF IInv
<1>w. ASSUME NEW u \in Typists, NEW script \in BOOLEAN,
             clock' = ClockAfter, ~inTx', here' = here,
             tick' = [tick EXCEPT ![u] = Fetched(u, script)],
             behind' = IF Fetches(script) THEN BehindAfter \ {u} ELSE BehindAfter
      PROVE  Fresh'
  <2>1. ASSUME NEW v \in here' \ behind' PROVE tick'[v] >= clock'
    <3>1. CASE v = u /\ Fetches(script)
      <4>1. tick'[v] = ClockAfter
        BY <1>w, <1>t, <3>1 DEF Fetched, TypeOK
      <4> QED
        BY <4>1, <1>w, <1>t DEF TypeOK, NoClock
    <3>2. CASE ~(v = u /\ Fetches(script))
      <4>1. v \in here \ BehindAfter /\ v \in Typists
        BY <1>w, <1>t, <2>1, <3>2 DEF TypeOK
      <4>2. tick'[v] = tick[v]
        BY <1>w, <1>t, <3>2, <4>1 DEF Fetched, TypeOK
      <4> QED
        BY <4>1, <4>2, <1>w, FreshAfter
    <3> QED
      BY <3>1, <3>2
  <2> QED
    BY <2>1, <1>w DEF Fresh
<1>f. ASSUME clock' = ClockAfter, ~inTx', here' \subseteq here, tick' = tick,
             behind' = BehindAfter
      PROVE  Fresh'
  BY <1>f, <1>t, FreshAfter DEF Fresh, TypeOK
<1>1. ASSUME NEW u \in Typists, NEW script \in BOOLEAN, Type(u, script) PROVE Fresh'
  BY <1>1, <1>w DEF Type, Query, CommitPendingTransaction, Emptied
<1>2. ASSUME NEW u \in Typists, NEW script \in BOOLEAN, NEW w \in Words,
             OnDeleteEntry(u, w, script)
      PROVE  Fresh'
  BY <1>2, <1>w DEF OnDeleteEntry, Emptied
<1>3. ASSUME NEW u \in Typists, NEW p \in Phrases, OnCommit(u, p) PROVE Fresh'
  <2>1. Ticks(p) \in Nat
    BY TicksAreNat
  <2>2. \A v \in Typists : tick'[v] >= tick[v]
    BY <1>3, <1>t, <2>1 DEF OnCommit, TypeOK
  <2>3. CASE loaded
    <3>1. \A v \in here' \ behind' : tick'[v] >= clock'
      BY <1>3, <1>t, <2>2, <2>3, FreshAfter DEF OnCommit, TypeOK, NoClock
    <3>2. inTx' => batchClock' <= tick'[owner']
      BY <1>3, <1>t, <2>3 DEF OnCommit, TypeOK, NoClock
    <3>3. inTx' /\ owner' \notin behind' /\ batchClock' # NoClock => batchClock' >= clock'
      <4>1. SUFFICES ASSUME owner' \notin behind', batchClock' # NoClock
                     PROVE  batchClock' >= clock'
        OBVIOUS
      <4>2. owner' = u /\ batchClock' = tick'[u] /\ u \in here'
        BY <1>3, <2>3, <4>1, <1>t DEF OnCommit, TypeOK
      <4> QED
        BY <4>1, <4>2, <3>1
    <3> QED
      BY <3>1, <3>2, <3>3 DEF Fresh
  <2>4. CASE ~loaded
    BY <1>3, <1>t, <2>2, <2>4 DEF OnCommit, Fresh, NothingLeftWaiting, TypeOK, NoClock
  <2> QED
    BY <2>3, <2>4
<1>4. ASSUME NEW u \in Typists, Escape(u) PROVE Fresh'
  BY <1>4, <1>t DEF Escape, database, Fresh
<1>5. ASSUME NEW u \in Typists, UnhandledKey(u) PROVE Fresh'
  BY <1>5, <1>f DEF UnhandledKey, FinishSession, CommitPendingTransaction, Emptied
<1>6. ASSUME NEW u \in Typists, BackSpace(u) PROVE Fresh'
  <2>1. CASE FinishSession
    BY <2>1, <1>f DEF FinishSession, CommitPendingTransaction, Emptied
  <2>2. CASE Emptied /\ UNCHANGED <<clock, here, tick, behind>>
    BY <2>2, <1>t DEF Emptied, Fresh
  <2> QED
    BY <1>6, <2>1, <2>2 DEF BackSpace
<1>7. ASSUME NEW u \in Typists, Load(u) PROVE Fresh'
  <2>1. here' = here \cup {u} /\ behind' = behind \ {u} /\ UNCHANGED <<inTx, owner>> /\ u \notin here
    BY <1>7 DEF Load, Arrives
  <2>2. \A v \in here' \ behind' : tick'[v] >= clock'
    <3>1. ASSUME NEW v \in here' \ behind' PROVE tick'[v] >= clock'
      <4>1. CASE v = u
        BY <1>7, <1>t, <4>1 DEF Load, TypeOK, NoClock
      <4>2. CASE v # u
        <5>1. v \in here \ behind /\ v \in Typists
          BY <2>1, <3>1, <4>2, <1>t DEF TypeOK
        <5>2. tick'[v] = tick[v] /\ tick[v] >= clock
          BY <1>7, <1>t, <4>2, <5>1 DEF Load, TypeOK, Fresh
        <5>3. clock' = clock \/ clock' = 0
          BY <1>7 DEF Load
        <5> QED
          BY <5>1, <5>2, <5>3, <1>t DEF TypeOK
      <4> QED
        BY <4>1, <4>2
    <3> QED
      BY <3>1
  <2>3. inTx => owner # u /\ owner \in Typists /\ tick'[owner] = tick[owner]
    BY <1>7, <1>t, <2>1 DEF Load, NothingLeftWaiting, TypeOK
  <2>4. inTx => clock' = clock /\ batchClock' \in {0, batchClock}
    BY <1>7 DEF Load
  <2>5. inTx /\ batchClock' # batchClock => clock = NoClock /\ batchClock' = 0
    BY <1>7 DEF Load
  <2>6. inTx' => batchClock' <= tick'[owner']
    BY <1>t, <2>1, <2>3, <2>4, <2>5 DEF Fresh, TypeOK
  <2>7. inTx' /\ owner' \notin behind' /\ batchClock' # NoClock => batchClock' >= clock'
    BY <1>t, <2>1, <2>3, <2>4, <2>5 DEF Fresh, TypeOK, NoClock
  <2> QED
    BY <2>2, <2>6, <2>7 DEF Fresh
<1>8. ASSUME NEW u \in Typists, LoadFails(u) PROVE Fresh'
  BY <1>8, <1>t DEF LoadFails, Arrives, Fresh, NothingLeftWaiting, TypeOK
<1>9. ASSUME NEW u \in Typists, Leave(u) PROVE Fresh'
  <2>1. CASE Usable
    BY <1>9, <2>1, <1>f DEF Leave, CommitPendingTransaction, Emptied
  <2>2. CASE ~Usable
    BY <1>9, <2>2, <1>t DEF Leave, Fresh
  <2> QED
    BY <2>1, <2>2
<1>10. CASE Elapse
  BY <1>10, <1>t DEF Elapse, database, Fresh
<1>11. CASE Recover
  BY <1>11, <1>t DEF Recover, Fresh, TypeOK, NothingLeftWaiting
<1>12. CASE Crash
  BY <1>12 DEF Crash, Emptied, Fresh
<1>13. CASE DiskTurns
  BY <1>13, <1>t DEF DiskTurns, Fresh
<1>14. CASE UNCHANGED vars
  BY <1>14, <1>t DEF vars, database, Fresh
<1> QED
  BY <1>1, <1>2, <1>3, <1>4, <1>5, <1>6, <1>7, <1>8, <1>9, <1>10, <1>11, <1>12, <1>13, <1>14
     DEF Next

-----------------------------------------------------------------------------
LEMMA InitInv == Init => IInv
<1> SUFFICES ASSUME Init PROVE IInv
  OBVIOUS
<1>1. TypeOK
  <2>1. inTx \in BOOLEAN /\ loaded \in BOOLEAN /\ disabled \in BOOLEAN /\ refusing \in BOOLEAN
    BY Zenon DEF Init
  <2>2. store \in [Words -> Int] /\ clock \in Nat \cup {NoClock} /\ batchClock \in Nat \cup {NoClock}
    BY DEF Init
  <2>3. DOMAIN batch \subseteq Words /\ batch \in [DOMAIN batch -> Int]
    BY NothingType DEF Init
  <2> QED
    BY <2>1, <2>2, <2>3, DictAssumption DEF Init, TypeOK
<1>2. NothingLeftWaiting
  BY DEF Init, NothingLeftWaiting
<1>3. OwnerIsLatest /\ Fresh
  BY DEF Init, OwnerIsLatest, Fresh
<1> QED
  BY <1>1, <1>2, <1>3 DEF IInv

LEMMA InvStep == IInv /\ [Next]_vars => IInv'
BY TypeStep, WaitingStep, LatestStep, FreshStep DEF IInv

LEMMA Invariance == Spec => []IInv
BY InitInv, InvStep, PTL DEF Spec

(* The types of every variable of the shared dictionary, in every state.   *)
THEOREM TypeCorrect == Spec => []TypeOK
<1>1. IInv => TypeOK
  BY DEF IInv
<1> QED
  BY Invariance, <1>1, PTL

(* No transaction outlives its typist or the database, and the database is *)
(* never given to the recovery task while it is open.                      *)
THEOREM NothingWaits == Spec => []NothingLeftWaiting
<1>1. IInv => NothingLeftWaiting
  BY DEF IInv
<1> QED
  BY Invariance, <1>1, PTL

(* What a BackSpace takes back is never older than the window, because the *)
(* transaction's owner began it after every other typist's last commit.    *)
THEOREM RevertedIsRecent == Spec => RevertIsRecent
<1>1. ASSUME IInv, NEW u \in Typists, BackSpace(u), View' # View PROVE age[owner] <= Window
  <2>1. CASE CanRevert(u)
    <3>1. inTx /\ age[u] <= Window /\ age[owner] <= age[u]
      BY <1>1, <2>1 DEF CanRevert, IInv, OwnerIsLatest
    <3>2. age[owner] \in Int /\ age[u] \in Int
      <4>1. owner \in Typists
        BY <1>1, <3>1 DEF IInv, NothingLeftWaiting, TypeOK
      <4> QED
        BY <1>1, <4>1, DictAssumption DEF IInv, TypeOK
    <3> QED
      BY <3>1, <3>2, DictAssumption
  <2>2. CASE ~CanRevert(u)
    <3>1. store' = StoreAfter /\ ~inTx'
      BY <1>1, <2>2 DEF BackSpace, FinishSession, CommitPendingTransaction, Emptied
    <3>2. View' = store'
      BY <1>1, <3>1, AfterType DEF View, StoreAfter, Written, IInv
    <3> QED
      BY <1>1, <3>1, <3>2 DEF View
  <2> QED
    BY <2>1, <2>2
<1>2. IInv /\ [Next]_vars =>
        [\A u \in Typists : BackSpace(u) /\ View' # View => age[owner] <= Window]_vars
  BY <1>1
<1> QED
  BY Invariance, <1>2, PTL DEF Spec, RevertIsRecent

(* The clock goes back only by a transaction of a typist who is behind, or *)
(* by the recovery of the file.                                            *)
THEOREM ClockForward == Spec => ClockGoesForward
<1>1. ASSUME IInv, Next PROVE clock' \in {clock, ClockAfter} \/ clock' >= clock \/ disabled
  <2> USE <1>1
  <2>t. clock \in Nat \cup {NoClock}
    BY DEF IInv, TypeOK
  <2>1. ASSUME NEW u \in Typists, Load(u) PROVE clock' >= clock
    BY <2>1, <2>t DEF Load, NoClock
  <2>2. ASSUME NEW u \in Typists, Leave(u) PROVE clock' \in {clock, ClockAfter}
    BY <2>2 DEF Leave, CommitPendingTransaction
  <2>3. ASSUME NEW u \in Typists, NEW p \in Phrases, OnCommit(u, p) PROVE clock' \in {clock, ClockAfter}
    BY <2>3 DEF OnCommit
  <2>4. ASSUME NEW u \in Typists, BackSpace(u) PROVE clock' \in {clock, ClockAfter}
    BY <2>4 DEF BackSpace, FinishSession, CommitPendingTransaction
  <2> QED
    BY <2>1, <2>2, <2>3, <2>4
       DEF Next, Type, Query, OnDeleteEntry, Escape, UnhandledKey, FinishSession,
           CommitPendingTransaction, LoadFails, Elapse, Recover, DiskTurns, Crash, database
<1>2. IInv /\ [Next]_vars => [clock' < clock => owner \in behind \/ disabled]_vars
  <2> SUFFICES ASSUME IInv, Next, clock' < clock, owner \notin behind PROVE disabled
    OBVIOUS
  <2>1. clock \in Int
    BY DEF IInv, TypeOK, NoClock
  <2>2. ClockAfter \in Int
    BY AfterType DEF IInv, NoClock
  <2>3. ClockAfter >= clock
    BY ClockAfterForward
  <2>4. clock' \in {clock, ClockAfter} \/ clock' >= clock \/ disabled
    BY <1>1
  <2>5. ~(clock' >= clock)
    <3>1. clock' \in Int
      BY TypeStep DEF IInv, TypeOK, NoClock
    <3> QED
      BY <3>1, <2>1
  <2> QED
    BY <2>1, <2>2, <2>3, <2>4, <2>5
<1> QED
  BY Invariance, <1>2, PTL DEF Spec, ClockGoesForward

-----------------------------------------------------------------------------
(* The view with the transaction finished is the store.                    *)
LEMMA FinishedView ==
    ASSUME TypeOK, store' = StoreAfter, inTx' = FALSE
    PROVE  View' = View
<1>1. StoreAfter' = [w \in Words |-> store'[w]]
  BY DEF StoreAfter, Written
<1> QED
  BY <1>1, AfterType DEF View

LEMMA SameView ==
    ASSUME UNCHANGED <<store, batch, inTx, refusing>>
    PROVE  View' = View
BY DEF View, StoreAfter, Written

(* Coming, going, typing and other keys keep every tentative count.        *)
THEOREM QuietStepsKeep == Spec => QuietStepsKeepAll
<1>1. ASSUME IInv, NEW u \in Typists, Quiet(u) PROVE View' = View
  <2>t. TypeOK /\ NothingLeftWaiting
    BY <1>1 DEF IInv
  <2>1. ASSUME NEW script \in BOOLEAN, Type(u, script) PROVE View' = View
    BY <2>1, <2>t, FinishedView DEF Type, Query, CommitPendingTransaction, Emptied
  <2>2. CASE Escape(u)
    BY <2>2, SameView DEF Escape, database
  <2>3. CASE UnhandledKey(u)
    BY <2>3, <2>t, FinishedView DEF UnhandledKey, FinishSession, CommitPendingTransaction, Emptied
  <2>4. CASE Load(u)
    BY <2>4, SameView DEF Load, Arrives
  <2>5. CASE LoadFails(u)
    BY <2>5, SameView DEF LoadFails, Arrives
  <2>6. CASE Leave(u)
    <3>1. CASE Usable
      BY <2>6, <3>1, <2>t, FinishedView DEF Leave, CommitPendingTransaction, Emptied
    <3>2. CASE ~Usable
      BY <2>6, <3>2, SameView DEF Leave
    <3> QED
      BY <3>1, <3>2
  <2> QED
    BY <1>1, <2>1, <2>2, <2>3, <2>4, <2>5, <2>6 DEF Quiet
<1>2. IInv /\ [Next]_vars => [(\E u \in Typists : Quiet(u)) => View' = View]_vars
  BY <1>1
<1> QED
  BY Invariance, <1>2, PTL DEF Spec, QuietStepsKeepAll

-----------------------------------------------------------------------------
(* The refinement: the database, with its batch, is LearnedWords.          *)
LEMMA SettledIsAfter == ASSUME TypeOK, NothingLeftWaiting PROVE Learned!Settled = StoreAfter
BY NothingType DEF Learned!Settled, StoreAfter, Written, TypeOK, NothingLeftWaiting

LEMMA SameNothing == Learned!Nothing = Nothing
BY DEF Learned!Nothing, Nothing

(* A transaction written is a Keep, and a stutter when there is none.      *)
LEMMA WritingKeeps ==
    ASSUME TypeOK, NothingLeftWaiting, store' = StoreAfter, Emptied, refusing' = refusing
    PROVE  Learned!Keep \/ UNCHANGED <<store, inTx, batch, refusing>>
<1>1. CASE inTx
  BY <1>1, SettledIsAfter, SameNothing DEF Learned!Keep, Emptied
<1>2. CASE ~inTx
  <2>1. store' = store /\ batch' = batch
    BY <1>2, AfterNone DEF Emptied, NothingLeftWaiting
  <2>2. inTx' = inTx
    BY <1>2, Zenon DEF Emptied, TypeOK
  <2> QED
    BY <2>1, <2>2
<1> QED
  BY <1>1, <1>2

LEMMA DroppingForgets ==
    ASSUME TypeOK, NothingLeftWaiting, store' = store, Emptied, refusing' = refusing
    PROVE  Learned!Forget \/ UNCHANGED <<store, inTx, batch, refusing>>
<1>1. CASE inTx
  BY <1>1, SameNothing DEF Learned!Forget, Emptied
<1>2. CASE ~inTx
  <2>1. inTx' = inTx
    BY <1>2, Zenon DEF Emptied, TypeOK
  <2> QED
    BY <1>2, <2>1 DEF Emptied, NothingLeftWaiting
<1> QED
  BY <1>1, <1>2

LEMMA RefinesStep ==
    TypeOK /\ NothingLeftWaiting /\ [Next]_vars => [Learned!Next]_<<store, inTx, batch, refusing>>
<1> DEFINE Goal == Learned!Next \/ UNCHANGED <<store, inTx, batch, refusing>>
<1> SUFFICES ASSUME TypeOK, NothingLeftWaiting, [Next]_vars PROVE Goal
  OBVIOUS
<1>k. ASSUME store' = StoreAfter, Emptied, refusing' = refusing PROVE Goal
  BY <1>k, WritingKeeps DEF Learned!Next
<1>f. ASSUME store' = store, Emptied, refusing' = refusing PROVE Goal
  BY <1>f, DroppingForgets DEF Learned!Next
<1>1. ASSUME NEW u \in Typists, NEW script \in BOOLEAN, Type(u, script) PROVE Goal
  BY <1>1, <1>k DEF Type, Query, CommitPendingTransaction
<1>2. ASSUME NEW u \in Typists, NEW script \in BOOLEAN, NEW w \in Words,
             OnDeleteEntry(u, w, script)
      PROVE  Goal
  <2> DEFINE n == IF store[w] > 0 THEN store[w] ELSE 1
  <2>0. CASE refusing
    BY <1>2, <2>0, <1>f DEF OnDeleteEntry, DeletedStore
  <2>1. n \in {1, Learned!Magnitude(store[w])} \ {0}
    BY DEF Learned!Magnitude, TypeOK
  <2>2. ASSUME ~refusing PROVE store' = [Learned!Settled EXCEPT ![w] = -n]
    BY <1>2, <2>2, SettledIsAfter DEF OnDeleteEntry, DeletedStore, Deleted, TypeOK
  <2> HIDE DEF n
  <2>3. ASSUME ~refusing PROVE Learned!Delete
    BY <1>2, <2>1, <2>2, <2>3, SameNothing DEF Learned!Delete, OnDeleteEntry, Emptied
  <2> QED
    BY <2>0, <2>3 DEF Learned!Next
<1>3. ASSUME NEW u \in Typists, NEW p \in Phrases, OnCommit(u, p) PROVE Goal
  <2>1. CASE loaded
    <3> DEFINE W == {p[i].word : i \in DOMAIN p}
    <3>1. batch' = [w \in W |-> Counted(StoreAfter[w], Adds(p, w))]
          /\ store' = StoreAfter /\ inTx' = TRUE /\ refusing' = refusing
      BY <1>3, <2>1 DEF OnCommit
    <3>2. W \in SUBSET Words
      BY PhraseWords
    <3> HIDE DEF W
    <3>3. \A w \in W : batch'[w] \in {store'[w], Learned!Magnitude(store'[w]) + 1}
      BY <3>1, <3>2, CountedType DEF Learned!Magnitude, Magnitude
    <3>4. Learned!Learn
      BY <3>1, <3>2, <3>3, SettledIsAfter DEF Learned!Learn
    <3> QED
      BY <3>4 DEF Learned!Next
  <2>2. CASE ~loaded
    BY <1>3, <2>2 DEF OnCommit
  <2> QED
    BY <2>1, <2>2
<1>4. ASSUME NEW u \in Typists, Escape(u) PROVE Goal
  BY <1>4 DEF Escape, database
<1>5. ASSUME NEW u \in Typists, UnhandledKey(u) PROVE Goal
  BY <1>5, <1>k DEF UnhandledKey, FinishSession, CommitPendingTransaction
<1>6. ASSUME NEW u \in Typists, BackSpace(u) PROVE Goal
  <2>1. Emptied /\ store' \in {store, StoreAfter} /\ refusing' = refusing
    BY <1>6 DEF BackSpace, FinishSession, CommitPendingTransaction
  <2> QED
    BY <2>1, <1>k, <1>f
<1>7. ASSUME NEW u \in Typists, Load(u) \/ LoadFails(u) PROVE Goal
  BY <1>7 DEF Load, LoadFails, Arrives
<1>8. ASSUME NEW u \in Typists, Leave(u) PROVE Goal
  <2>1. CASE Usable
    BY <1>8, <2>1, <1>k DEF Leave, CommitPendingTransaction
  <2>2. CASE ~Usable
    BY <1>8, <2>2 DEF Leave
  <2> QED
    BY <2>1, <2>2
<1>9. CASE Elapse
  BY <1>9 DEF Elapse, database
<1>10. CASE Recover
  <2>1. ~inTx /\ UNCHANGED <<inTx, batch, refusing>>
    BY <1>10 DEF Recover, NothingLeftWaiting
  <2>2. store' \in [Words -> Int]
    BY <1>10, DictAssumption DEF Recover, Salvaged, Repaired, TypeOK
  <2> QED
    BY <1>10, <2>1, <2>2 DEF Recover, Learned!Next, Learned!Replace
<1>11. CASE Crash
  BY <1>11, <1>f DEF Crash
<1>12. CASE DiskTurns
  BY <1>12 DEF DiskTurns, Learned!Next, Learned!Turn
<1>13. CASE UNCHANGED vars
  BY <1>13 DEF vars, database
<1> HIDE DEF Goal
<1> QED
  BY <1>1, <1>2, <1>3, <1>4, <1>5, <1>6, <1>7, <1>8, <1>9, <1>10, <1>11, <1>12, <1>13 DEF Next

(* Whatever the typists do, the shared dictionary behaves as LearnedWords. *)
THEOREM IsOneDictionary == Spec => OneDictionary
<1>1. Init => Learned!Init
  BY SameNothing DEF Init, Learned!Init
<1>2. IInv => TypeOK /\ NothingLeftWaiting
  BY DEF IInv
<1>3. TypeOK /\ NothingLeftWaiting /\ [Next]_vars => [Learned!Next]_<<store, inTx, batch, refusing>>
  BY RefinesStep
<1> QED
  BY Invariance, <1>1, <1>2, <1>3, PTL DEF Spec, OneDictionary, Learned!Spec
=============================================================================
