------------------------- MODULE ContextSourceProofs -------------------------
(***************************************************************************)
(* Theorems about ContextSource, for any words, windows and bounds.        *)
(***************************************************************************)
EXTENDS ContextSource, SequenceTheorems, TLAPS

------------------------------------------------------------------------------
(* The last words of a sequence. *)

LEMMA LastWordsProperties ==
  ASSUME NEW S, NEW s \in Seq(S), NEW n \in Nat
  PROVE  /\ LastWords(s, n) \in Seq(S)
         /\ Len(LastWords(s, n)) = Lower(n, Len(s))
         /\ \A i \in 1..Lower(n, Len(s)) :
              LastWords(s, n)[i] = s[Len(s) - Lower(n, Len(s)) + i]
  <1> DEFINE m == Lower(n, Len(s))
             k == Len(s) - m + 1
  <1>1. Len(s) \in Nat /\ m \in 0..Len(s)
    BY LenProperties DEF Lower
  <1>2. k \in Int /\ k >= 1
    BY <1>1
  <1>3. \A i \in k..Len(s) : s[i] \in S
    BY <1>1, <1>2, ElementOfSeq
  <1> HIDE DEF k
  <1>4. /\ SubSeq(s, k, Len(s)) \in Seq(S)
        /\ Len(SubSeq(s, k, Len(s))) = IF k <= Len(s) THEN Len(s) - k + 1 ELSE 0
        /\ \A i \in 1..Len(s) - k + 1 : SubSeq(s, k, Len(s))[i] = s[k + i - 1]
    BY <1>1, <1>2, <1>3, SubSeqProperties
  <1>5. Len(s) - k + 1 = m
    BY <1>1 DEF k
  <1>6. LastWords(s, n) = SubSeq(s, k, Len(s))
    BY DEF LastWords, k
  <1>7. \A i \in 1..m : k + i - 1 = Len(s) - m + i
    BY <1>1 DEF k
  <1> QED
    BY <1>1, <1>2, <1>4, <1>5, <1>6, <1>7

\* Trimming before a word is appended, or only after, leaves the same last words.
LEMMA LastWordsAppend ==
  ASSUME NEW S, NEW s \in Seq(S), NEW w \in S, NEW n \in Nat \ {0}
  PROVE  LastWords(Append(LastWords(s, n), w), n) = LastWords(Append(s, w), n)
  <1> DEFINE t == LastWords(s, n)
             u == Append(t, w)
             v == Append(s, w)
  <1>1. /\ t \in Seq(S) /\ Len(t) = Lower(n, Len(s))
        /\ \A i \in 1..Lower(n, Len(s)) : t[i] = s[Len(s) - Lower(n, Len(s)) + i]
    BY LastWordsProperties
  <1>2. Len(s) \in Nat /\ Lower(n, Len(s)) \in 0..Len(s) /\ Lower(n, Len(s)) <= n
    BY LenProperties DEF Lower
  <1> HIDE DEF t
  <1>3. /\ u \in Seq(S) /\ Len(u) = Len(t) + 1
        /\ \A i \in 1..Len(t) : u[i] = t[i]
        /\ u[Len(t) + 1] = w
    BY <1>1, AppendProperties
  <1>4. /\ v \in Seq(S) /\ Len(v) = Len(s) + 1
        /\ \A i \in 1..Len(s) : v[i] = s[i]
        /\ v[Len(s) + 1] = w
    BY AppendProperties
  <1> HIDE DEF u, v
  <1> DEFINE m == Lower(n, Len(v))
  <1>5. Lower(n, Len(u)) = m /\ m \in 1..Len(u) /\ m <= Len(v)
    BY <1>1, <1>2, <1>3, <1>4 DEF Lower
  <1>6. /\ LastWords(u, n) \in Seq(S) /\ Len(LastWords(u, n)) = m
        /\ \A i \in 1..m : LastWords(u, n)[i] = u[Len(u) - m + i]
    <2>1. /\ LastWords(u, n) \in Seq(S) /\ Len(LastWords(u, n)) = Lower(n, Len(u))
          /\ \A i \in 1..Lower(n, Len(u)) :
               LastWords(u, n)[i] = u[Len(u) - Lower(n, Len(u)) + i]
      BY <1>3, LastWordsProperties
    <2> HIDE DEF m
    <2> QED
      BY <1>5, <2>1
  <1>7. /\ LastWords(v, n) \in Seq(S) /\ Len(LastWords(v, n)) = m
        /\ \A i \in 1..m : LastWords(v, n)[i] = v[Len(v) - m + i]
    BY <1>4, <1>5, LastWordsProperties
  <1>8. ASSUME NEW i \in 1..m PROVE u[Len(u) - m + i] = v[Len(v) - m + i]
    <2>1. CASE i = m
      BY <2>1, <1>1, <1>2, <1>3, <1>4, <1>5
    <2>2. CASE i < m
      <3>1. Len(u) - m + i \in 1..Len(t) /\ Len(v) - m + i \in 1..Len(s)
        <4>1. Len(t) \in Nat /\ Len(s) \in Nat /\ m \in 1..Len(t) + 1 /\ m <= Len(s) + 1
          BY <1>1, <1>2, <1>3, <1>4, <1>5
        <4> HIDE DEF m
        <4> QED
          BY <2>2, <4>1, <1>3, <1>4
      <3>2. u[Len(u) - m + i] = t[Len(u) - m + i] /\ v[Len(v) - m + i] = s[Len(v) - m + i]
        BY <3>1, <1>3, <1>4
      <3>3. Len(s) - Lower(n, Len(s)) + (Len(u) - m + i) = Len(v) - m + i
        BY <1>1, <1>2, <1>3, <1>4, <1>5
      <3>4. t[Len(u) - m + i] = s[Len(s) - Lower(n, Len(s)) + (Len(u) - m + i)]
        BY <3>1, <1>1
      <3> QED
        BY <3>2, <3>3, <3>4
    <2> QED
      BY <2>1, <2>2, <1>5
  <1> HIDE DEF m
  <1>9. LastWords(u, n) = LastWords(v, n)
    BY <1>6, <1>7, <1>8, SeqEqual
  <1> QED
    BY <1>9 DEF u, v, t

LEMMA LastWordsOfNone == ASSUME NEW n \in Nat PROVE LastWords(<<>>, n) = <<>>
  <1>1. Len(<<>>) = 0 /\ Lower(n, 0) = 0
    BY EmptySeq DEF Lower
  <1>2. SubSeq(<<>>, 1, 0) = <<>>
    BY SubSeqEmpty
  <1> QED
    BY <1>1, <1>2 DEF LastWords

\* What follows a place is a sequence of its own, and a word appended is appended to it.
LEMMA FromHere ==
  ASSUME NEW S, NEW s \in Seq(S), NEW k \in 0..Len(s)
  PROVE  SubSeq(s, k + 1, Len(s)) \in Seq(S)
  <1>1. Len(s) \in Nat
    BY LenProperties
  <1>2. \A i \in k + 1..Len(s) : s[i] \in S
    BY <1>1, ElementOfSeq
  <1> QED
    BY <1>1, <1>2, SubSeqProperties

LEMMA FromHereAppend ==
  ASSUME NEW S, NEW s \in Seq(S), NEW k \in 0..Len(s), NEW w \in S
  PROVE  SubSeq(Append(s, w), k + 1, Len(Append(s, w))) =
         Append(SubSeq(s, k + 1, Len(s)), w)
  <1> DEFINE v == Append(s, w)
             p == SubSeq(s, k + 1, Len(s))
             q == SubSeq(v, k + 1, Len(v))
             r == Append(p, w)
  <1>1. Len(s) \in Nat
    BY LenProperties
  <1>2. /\ v \in Seq(S) /\ Len(v) = Len(s) + 1
        /\ \A i \in 1..Len(s) : v[i] = s[i]
        /\ v[Len(s) + 1] = w
    BY AppendProperties
  <1> HIDE DEF v
  <1>3. \A i \in k + 1..Len(s) : s[i] \in S
    BY <1>1, ElementOfSeq
  <1>4. /\ p \in Seq(S) /\ Len(p) = Len(s) - k
        /\ \A i \in 1..Len(s) - k : p[i] = s[k + i]
    <2>1. /\ p \in Seq(S) /\ Len(p) = IF k + 1 <= Len(s) THEN Len(s) - (k + 1) + 1 ELSE 0
          /\ \A i \in 1..Len(s) - (k + 1) + 1 : p[i] = s[k + 1 + i - 1]
      BY <1>1, <1>3, SubSeqProperties
    <2> QED
      BY <1>1, <2>1
  <1>5. \A i \in k + 1..Len(v) : v[i] \in S
    BY <1>1, <1>2, ElementOfSeq
  <1>6. /\ q \in Seq(S) /\ Len(q) = Len(v) - k
        /\ \A i \in 1..Len(v) - k : q[i] = v[k + i]
    <2>1. /\ q \in Seq(S) /\ Len(q) = IF k + 1 <= Len(v) THEN Len(v) - (k + 1) + 1 ELSE 0
          /\ \A i \in 1..Len(v) - (k + 1) + 1 : q[i] = v[k + 1 + i - 1]
      BY <1>1, <1>2, <1>5, SubSeqProperties
    <2> QED
      BY <1>1, <1>2, <2>1
  <1> HIDE DEF p, q
  <1>7. /\ r \in Seq(S) /\ Len(r) = Len(p) + 1
        /\ \A i \in 1..Len(p) : r[i] = p[i]
        /\ r[Len(p) + 1] = w
    BY <1>4, AppendProperties
  <1> HIDE DEF r
  <1>8. Len(q) = Len(r)
    BY <1>1, <1>2, <1>4, <1>6, <1>7
  <1>9. ASSUME NEW i \in 1..Len(q) PROVE q[i] = r[i]
    <2>1. q[i] = v[k + i]
      BY <1>1, <1>2, <1>6
    <2>2. CASE i = Len(p) + 1
      BY <2>1, <2>2, <1>1, <1>2, <1>4, <1>7
    <2>3. CASE i # Len(p) + 1
      <3>1. i \in 1..Len(p) /\ k + i \in 1..Len(s)
        <4>1. Len(p) = Len(s) - k /\ Len(q) = Len(s) - k + 1
          BY <1>1, <1>2, <1>4, <1>6
        <4> QED
          BY <4>1, <2>3, <1>1
      <3> QED
        BY <2>1, <3>1, <1>2, <1>4, <1>7
    <2> QED
      BY <2>2, <2>3
  <1>10. q = r
    BY <1>6, <1>7, <1>8, <1>9, SeqEqual
  <1> QED
    BY <1>10 DEF p, q, r, v
------------------------------------------------------------------------------
(* Types. *)

LEMMA SyncedType == ASSUME TypeOK PROVE Synced \in Seq(Word) /\ Len(Synced) <= HistMax
  <1>1. <<>> \in Seq(Word) /\ Len(<<>>) = 0
    BY EmptySeq
  <1> QED
    BY <1>1, NatAssumption DEF TypeOK, Synced

LEMMA EmptyText == <<>> \in Texts
  <1>1. <<>> \in [1..0 -> Word]
    OBVIOUS
  <1> QED
    BY <1>1, NatAssumption DEF Texts

\* The snapshot and the reading under way after an invalidation.
LEMMA InvalidatedType ==
  ASSUME TypeOK, Invalidated
  PROVE  snap' \in Snapshot \cup {None} /\ reader' \in Reading \cup {None}
  <1>1. reader # None => [reader EXCEPT !.late = TRUE] \in Reading
    BY DEF TypeOK, Reading
  <1> QED
    BY <1>1 DEF Invalidated

LEMMA TypeInvariant == TypeOK /\ [Next]_vars => TypeOK'
  <1> SUFFICES ASSUME TypeOK, [Next]_vars PROVE TypeOK'
    OBVIOUS
  <1> USE DEF store, memory, com, history
  <1>0. Len(all) \in Nat
    BY LenProperties DEF TypeOK
  <1>1. ASSUME NEW w \in Word, Commit(w) PROVE TypeOK'
    <2>1. all' \in Seq(Word) /\ Len(all') = Len(all) + 1 /\ Len(all') <= MaxCommit
      BY <1>1, <1>0, NatAssumption, AppendProperties DEF Commit, TypeOK
    <2>2. Append(Synced, w) \in Seq(Word)
      BY SyncedType, AppendProperties
    <2>3. buffer' \in Seq(Word) /\ Len(buffer') = Lower(HistMax, Len(Append(Synced, w)))
      BY <1>1, <2>2, NatAssumption, LastWordsProperties DEF Commit, Bounded
    <2>4. Len(buffer') <= HistMax
      <3>1. Len(Append(Synced, w)) \in Nat
        BY <2>2, LenProperties
      <3> QED
        BY <2>3, <3>1, NatAssumption DEF Lower
    <2>5. bufferGen' \in 0..gen'
      BY <1>1 DEF Commit, TypeOK
    <2>6. keptFrom' \in 0..Len(all') /\ movedAt' \in 0..Len(all')
      BY <1>1, <1>0, <2>1 DEF Commit, TypeOK
    <2> QED
      BY <1>1, <2>1, <2>3, <2>4, <2>5, <2>6 DEF Commit, TypeOK
  <1>2. CASE Start
    BY <1>2 DEF Start, TypeOK
  <1>3. CASE Look
    <2>1. snap' \in Snapshot \cup {None} /\ reader' \in Reading \cup {None}
      BY <1>3, InvalidatedType DEF Look, TypeOK
    <2>2. buffer' \in Seq(Word) /\ Len(buffer') <= HistMax /\ keptFrom' \in 0..Len(all)
      <3>1. <<>> \in Seq(Word) /\ Len(<<>>) = 0
        BY EmptySeq
      <3>2. CASE Clicked \/ Moved
        <4>1. buffer' = <<>> /\ keptFrom' = Len(all)
          BY <1>3, <3>2 DEF Look
        <4> QED
          BY <3>1, <4>1, <1>0, NatAssumption
      <3>3. CASE ~(Clicked \/ Moved)
        BY <1>3, <3>3 DEF Look, TypeOK
      <3> QED
        BY <3>2, <3>3
    <2>3. limited' \in BOOLEAN
      BY <1>3 DEF Look
    <2>4. limitedGen' \in 0..gen' /\ bufferGen' \in 0..gen'
      BY <1>3 DEF Look, TypeOK
    <2>5. noticed' \in 0..signals' /\ movedBefore' \in 0..movedAt' /\ movedAt' \in 0..Len(all')
      BY <1>3, <1>0 DEF Look, TypeOK
    <2> QED
      BY <1>3, <2>1, <2>2, <2>3, <2>4, <2>5 DEF Look, TypeOK
  <1>4. CASE Choose
    <2>1. CASE Choice = "com"
      BY <1>4, <2>1 DEF Choose, TypeOK
    <2>2. CASE Choice # "com"
      <3>1. buffer' = Synced /\ bufferGen' = gen
        BY <1>4, <2>2 DEF Choose
      <3>2. limited' \in BOOLEAN
        BY <1>4, <2>2 DEF Choose
      <3>3. gen \in 0..gen
        BY DEF TypeOK
      <3> QED
        BY <1>4, <3>1, <3>2, <3>3, SyncedType DEF Choose, TypeOK
    <2> QED
      BY <2>1, <2>2
  <1>5. ASSUME NEW t \in Texts, Deliver(t) PROVE TypeOK'
    <2>1. valid' \in BOOLEAN
      BY <1>5 DEF Deliver
    <2> QED
      BY <1>5, <2>1 DEF Deliver, TypeOK
  <1>6. CASE Reset
    <2>1. snap' \in Snapshot \cup {None} /\ reader' \in Reading \cup {None}
      BY <1>6, InvalidatedType DEF Reset, TypeOK
    <2>2. gen' \in 0..MaxReset /\ bufferGen' \in 0..gen' /\ limitedGen' \in 0..gen'
      BY <1>6, NatAssumption DEF Reset, TypeOK
    <2>3. /\ keptFrom' \in 0..Len(all') /\ movedAt' \in 0..Len(all')
          /\ signals' \in Nat /\ noticed' \in 0..signals' /\ movedBefore' \in 0..movedAt'
      BY <1>6, <1>0 DEF Reset, TypeOK
    <2>4. text' \in Texts /\ valid' \in BOOLEAN
      BY <1>6, EmptyText DEF Reset
    <2> QED
      BY <1>6, <2>1, <2>2, <2>3, <2>4 DEF Reset, TypeOK
  <1>7. CASE ComRead
    <2>1. reader' \in Reading
      BY <1>7 DEF ComRead, TypeOK, Reading
    <2> QED
      BY <1>7, <2>1 DEF ComRead, TypeOK
  <1>8. CASE ComPublish
    <2>1. reader \in Reading
      BY <1>8 DEF ComPublish, TypeOK
    <2>2. snap' \in Snapshot \cup {None}
      <3>1. [window |-> reader.window, title |-> foreground, at |-> reader.at,
             late |-> reader.late, old |-> FALSE] \in Snapshot
        BY <2>1 DEF TypeOK, Reading, Snapshot
      <3> QED
        BY <1>8, <3>1 DEF ComPublish
    <2> QED
      BY <1>8, <2>2 DEF ComPublish, TypeOK
  <1>9. CASE Click
    <2>1. clicks' \in 0..MaxClick
      BY <1>9, NatAssumption DEF Click, TypeOK
    <2>2. /\ movedAt' \in 0..Len(all') /\ signals' \in Nat
          /\ noticed' \in 0..signals' /\ movedBefore' \in 0..movedAt'
      BY <1>9, <1>0 DEF Click, TypeOK
    <2> QED
      BY <1>9, <2>1, <2>2 DEF Click, TypeOK
  <1>10. CASE Switch
    BY <1>10 DEF Switch, TypeOK
  <1>11. CASE Tick
    <2>1. age' \in 0..2
      BY <1>11 DEF Tick, TypeOK
    <2>2. snap' \in Snapshot \cup {None}
      <3>1. snap # None => [snap EXCEPT !.old = TRUE] \in Snapshot
        BY DEF TypeOK, Snapshot
      <3> QED
        BY <1>11, <3>1 DEF Tick, TypeOK
    <2> QED
      BY <1>11, <2>1, <2>2 DEF Tick, TypeOK
  <1>12. CASE UNCHANGED vars
    BY <1>12 DEF vars, TypeOK
  <1> QED
    BY <1>1, <1>2, <1>3, <1>4, <1>5, <1>6, <1>7, <1>8, <1>9, <1>10, <1>11, <1>12 DEF Next

\* Every variable keeps its type; the history stays within its bound.
THEOREM TypeCorrect == Spec => []TypeOK
  <1>1. Init => TypeOK
    <2> SUFFICES ASSUME Init PROVE TypeOK
      OBVIOUS
    <2>1. <<>> \in Seq(Word) /\ Len(<<>>) = 0
      BY EmptySeq
    <2>2. all \in Seq(Word) /\ Len(all) = 0 /\ Len(all) <= MaxCommit
      BY <2>1, NatAssumption DEF Init
    <2>3. buffer \in Seq(Word) /\ Len(buffer) <= HistMax
      BY <2>1, NatAssumption DEF Init
    <2>4. text \in Texts
      BY EmptyText DEF Init
    <2>5. gen \in 0..MaxReset /\ clicks \in 0..MaxClick
      BY NatAssumption DEF Init
    <2>6. keptFrom \in 0..Len(all) /\ movedAt \in 0..Len(all)
      BY <2>2 DEF Init
    <2>7. bufferGen \in 0..gen /\ limitedGen \in 0..gen /\ age \in 0..2
      BY DEF Init
    <2>8. signals \in Nat /\ noticed \in 0..signals /\ movedBefore \in 0..movedAt
      BY DEF Init
    <2>9. /\ valid \in BOOLEAN /\ limited \in BOOLEAN /\ based \in BOOLEAN
          /\ clicked \in BOOLEAN /\ started \in BOOLEAN
      BY DEF Init
    <2>10. snap \in Snapshot \cup {None} /\ reader \in Reading \cup {None}
           /\ foreground \in Window /\ engine \in {"idle", "choose"}
      BY DEF Init
    <2> QED
      BY <2>2, <2>3, <2>4, <2>5, <2>6, <2>7, <2>8, <2>9, <2>10 DEF TypeOK
  <1> QED
    BY <1>1, TypeInvariant, PTL DEF Spec
------------------------------------------------------------------------------
(* The history. *)

\* Every action keeps what the history should be, commits and clearings included.
LEMMA HistoryStep == TypeOK /\ HistoryIsKept /\ [Next]_vars => HistoryIsKept'
  <1> SUFFICES ASSUME TypeOK, HistoryIsKept, [Next]_vars PROVE HistoryIsKept'
    OBVIOUS
  <1> USE DEF store, memory, com, history
  <1>0. all \in Seq(Word) /\ Len(all) \in Nat /\ keptFrom \in 0..Len(all)
    BY LenProperties DEF TypeOK
  <1>1. ASSUME NEW w \in Word, Commit(w) PROVE HistoryIsKept'
    <2>1. Kept \in Seq(Word) /\ Kept' = Append(Kept, w)
      BY <1>0, <1>1, FromHere, FromHereAppend DEF Commit, Kept
    <2>2. Synced' = buffer' /\ buffer' = LastWords(Append(Synced, w), HistMax)
      BY <1>1 DEF Commit, Synced, Bounded
    <2>3. LastWords(Append(Synced, w), HistMax) = LastWords(Append(Kept, w), HistMax)
      BY <2>1, NatAssumption, LastWordsAppend DEF HistoryIsKept
    <2>4. LastWords(Kept, HistMax)' = LastWords(Append(Kept, w), HistMax)
      BY <2>1
    <2> QED
      BY <2>2, <2>3, <2>4 DEF HistoryIsKept
  <1>2. ASSUME all' = all, keptFrom' = Len(all), Synced' = <<>> PROVE HistoryIsKept'
    <2>1. Kept' = <<>>
      <3>1. SubSeq(all, Len(all) + 1, Len(all)) = <<>>
        BY <1>0, SubSeqEmpty
      <3> QED
        BY <1>2, <3>1 DEF Kept
    <2> QED
      BY <1>2, <2>1, NatAssumption, LastWordsOfNone DEF HistoryIsKept
  <1>3. ASSUME all' = all, keptFrom' = keptFrom, Synced' = Synced PROVE HistoryIsKept'
    BY <1>3 DEF HistoryIsKept, Kept
  <1>4. CASE Look
    <2>1. CASE Clicked \/ Moved
      BY <1>2, <1>4, <2>1 DEF Look, Synced
    <2>2. CASE ~(Clicked \/ Moved)
      BY <1>3, <1>4, <2>2 DEF Look, Synced
    <2> QED
      BY <2>1, <2>2
  <1>5. CASE Choose
    BY <1>3, <1>5 DEF Choose, Synced
  <1>6. CASE Reset
    <2>1. gen' # bufferGen'
      BY <1>6 DEF Reset, TypeOK
    <2> QED
      BY <1>2, <1>6, <2>1 DEF Reset, Synced
  <1>7. CASE \/ Start \/ \E t \in Texts : Deliver(t)
             \/ ComRead \/ ComPublish \/ Click \/ Switch \/ Tick
    BY <1>3, <1>7 DEF Start, Deliver, ComRead, ComPublish, Click, Switch, Tick, Synced
  <1>8. CASE UNCHANGED vars
    BY <1>3, <1>8 DEF vars, Synced
  <1> QED
    BY <1>1, <1>4, <1>5, <1>6, <1>7, <1>8 DEF Next

\* The history found is the commits since it was last cleared, up to its bound, however
\* resets, looks and commits follow one another.
THEOREM HistoryKept == Spec => []HistoryIsKept
  <1>1. Init => HistoryIsKept
    <2> SUFFICES ASSUME Init PROVE HistoryIsKept
      OBVIOUS
    <2>1. Synced = <<>>
      BY DEF Init, Synced
    <2>2. Kept = <<>>
      <3>1. SubSeq(<<>>, 1, 0) = <<>> /\ Len(<<>>) = 0
        BY SubSeqEmpty, EmptySeq
      <3> QED
        BY <3>1 DEF Init, Kept
    <2> QED
      BY <2>1, <2>2, NatAssumption, LastWordsOfNone DEF HistoryIsKept
  <1> QED
    BY <1>1, HistoryStep, TypeCorrect, PTL DEF Spec

------------------------------------------------------------------------------
(* The signals. *)

\* Until a click is seen, the history was cleared after the last signal.
ClearedInTime ==
  /\ Clicked \/ movedAt <= keptFrom
  /\ engine = "choose" => movedBefore <= keptFrom

LEMMA ClearedStep == TypeOK /\ ClearedInTime /\ [Next]_vars => ClearedInTime'
  <1> SUFFICES ASSUME TypeOK, ClearedInTime, [Next]_vars PROVE ClearedInTime'
    OBVIOUS
  <1> USE DEF store, memory, com, history
  <1>0. Len(all) \in Nat
    BY LenProperties DEF TypeOK
  <1>1. ASSUME UNCHANGED <<based, clicked, engine, movedAt, keptFrom, movedBefore>>
        PROVE  ClearedInTime'
    BY <1>1 DEF ClearedInTime, Clicked
  <1>2. CASE Look
    <2>1. movedBefore' = movedAt /\ movedAt' = movedAt /\ movedAt <= keptFrom'
      BY <1>2, <1>0 DEF Look, ClearedInTime, TypeOK
    <2> QED
      BY <2>1 DEF ClearedInTime
  <1>3. CASE Choose
    BY <1>3 DEF Choose, ClearedInTime, Clicked
  <1>4. CASE Reset
    BY <1>0, <1>4 DEF Reset, ClearedInTime, TypeOK
  <1>5. CASE Click
    BY <1>5 DEF Click, ClearedInTime, Clicked, TypeOK
  <1>6. CASE \/ \E w \in Word : Commit(w)
             \/ Start \/ \E t \in Texts : Deliver(t)
             \/ ComRead \/ ComPublish \/ Switch \/ Tick
    BY <1>1, <1>6 DEF Commit, Start, Deliver, ComRead, ComPublish, Switch, Tick
  <1>7. CASE UNCHANGED vars
    BY <1>1, <1>7 DEF vars
  <1> QED
    BY <1>2, <1>3, <1>4, <1>5, <1>6, <1>7 DEF Next

\* A ranking based on the history is based on words committed after the last reset or
\* click the engine thread could see.
THEOREM HistoryIsFromHere == Spec => []HistoryFromHere
  <1>1. Init => ClearedInTime
    BY DEF Init, ClearedInTime
  <1>2. TypeOK /\ ClearedInTime => HistoryFromHere
    BY LenProperties DEF TypeOK, ClearedInTime, HistoryFromHere
  <1> QED
    BY <1>1, <1>2, ClearedStep, TypeCorrect, PTL DEF Spec

\* Nothing is outdated but by a signal not noticed yet, and neither the snapshot nor a
\* reading under way is older than the signals noticed, save a reading that was under
\* way when the snapshot was invalidated.
ReadInTime ==
  /\ Outdates \/ signals = noticed
  /\ snap = None \/ snap.late \/ noticed <= snap.at
  /\ reader = None \/ reader.late \/ noticed <= reader.at

LEMMA InvalidatedInTime ==
  ASSUME TypeOK, Invalidated
  PROVE  snap' = None /\ (reader' = None \/ reader'.late)
  <1>1. reader # None => [reader EXCEPT !.late = TRUE].late
    BY DEF TypeOK, Reading
  <1> QED
    BY <1>1 DEF Invalidated

LEMMA ReadStep == TypeOK /\ ReadInTime /\ [Next]_vars => ReadInTime'
  <1> SUFFICES ASSUME TypeOK, ReadInTime, [Next]_vars PROVE ReadInTime'
    OBVIOUS
  <1> USE DEF store, memory, com, history
  <1>1. ASSUME UNCHANGED <<based, clicked, gen, limitedGen, signals, noticed, snap, reader>>
        PROVE  ReadInTime'
    BY <1>1 DEF ReadInTime, Outdates, Clicked
  <1>2. CASE Look
    <2>1. signals' = noticed' /\ noticed' = signals
      BY <1>2 DEF Look
    <2>2. CASE Outdates
      BY <1>2, <2>1, <2>2, InvalidatedInTime DEF Look, ReadInTime
    <2>3. CASE ~Outdates
      BY <1>2, <2>1, <2>3 DEF Look, ReadInTime
    <2> QED
      BY <2>2, <2>3
  <1>3. CASE Reset
    <2>1. Outdates'
      BY <1>3 DEF Reset, Outdates, TypeOK
    <2>2. CASE started
      BY <1>3, <2>1, <2>2, InvalidatedInTime DEF Reset, ReadInTime
    <2>3. CASE ~started
      BY <1>3, <2>1, <2>3 DEF Reset, ReadInTime
    <2> QED
      BY <2>2, <2>3
  <1>4. CASE ComRead
    <2>1. Outdates' <=> Outdates
      BY <1>4 DEF ComRead, Outdates, Clicked
    <2>2. reader'.at = signals /\ noticed <= signals
      BY <1>4 DEF ComRead, TypeOK
    <2> QED
      BY <1>4, <2>1, <2>2 DEF ComRead, ReadInTime
  <1>5. CASE ComPublish
    <2>1. Outdates' <=> Outdates
      BY <1>5 DEF ComPublish, Outdates, Clicked
    <2>2. snap' = None \/ (snap'.late = reader.late /\ snap'.at = reader.at)
      BY <1>5 DEF ComPublish
    <2>3. snap' = None \/ snap'.late \/ noticed <= snap'.at
      BY <1>5, <2>2 DEF ComPublish, ReadInTime
    <2> QED
      BY <1>5, <2>1, <2>3 DEF ComPublish, ReadInTime
  <1>6. CASE Click
    <2>1. Outdates' \/ signals' = noticed'
      BY <1>6 DEF Click, ReadInTime, Outdates, Clicked
    <2> QED
      BY <1>6, <2>1 DEF Click, ReadInTime
  <1>7. CASE Tick
    <2>1. Outdates' <=> Outdates
      BY <1>7 DEF Tick, Outdates, Clicked
    <2>2. snap # None => /\ [snap EXCEPT !.old = TRUE].late = snap.late
                         /\ [snap EXCEPT !.old = TRUE].at = snap.at
      BY DEF TypeOK, Snapshot
    <2>3. snap' = None \/ snap'.late \/ noticed <= snap'.at
      BY <1>7, <2>2 DEF Tick, ReadInTime
    <2> QED
      BY <1>7, <2>1, <2>3 DEF Tick, ReadInTime
  <1>8. CASE \/ \E w \in Word : Commit(w)
             \/ Start \/ Choose \/ (\E t \in Texts : Deliver(t)) \/ Switch
    BY <1>1, <1>8 DEF Commit, Start, Choose, Deliver, Switch
  <1>9. CASE UNCHANGED vars
    BY <1>1, <1>9 DEF vars
  <1> QED
    BY <1>2, <1>3, <1>4, <1>5, <1>6, <1>7, <1>8, <1>9 DEF Next

\* A ranking based on the document is based on a reading begun after the last signal
\* noticed, but for a reading under way when the snapshot was invalidated.
THEOREM DocumentIsFromNow == Spec => []DocumentFromNow
  <1>1. Init => ReadInTime
    BY DEF Init, ReadInTime
  <1>2. TypeOK /\ ReadInTime => DocumentFromNow
    <2> SUFFICES ASSUME TypeOK, ReadInTime, engine = "choose", Choice = "com", ~snap.late
                 PROVE  snap.at >= noticed
      BY DEF DocumentFromNow
    <2>1. Usable
      BY DEF Choice
    <2>2. snap \in Snapshot /\ noticed <= snap.at
      BY <2>1 DEF Usable, TypeOK, ReadInTime
    <2> QED
      BY <2>2 DEF TypeOK, Snapshot
  <1> QED
    BY <1>1, <1>2, ReadStep, TypeCorrect, PTL DEF Spec
==============================================================================
