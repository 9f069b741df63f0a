-------------------------- MODULE EngineCoreProofs --------------------------
(***************************************************************************)
(* Theorems about EngineCore, for any keys, translators and schemas.       *)
(***************************************************************************)
EXTENDS EngineCore, SequenceTheorems, WellFoundedInduction, TLAPS

USE DEF kVoid, kGuess, kSelected, kConfirmed

------------------------------------------------------------------------------
(* The least of some naturals, the greatest of some of them, and a         *)
(* function given by its first value and the step to the next.             *)

LEMMA LeastOf ==
    ASSUME NEW T, T \subseteq Nat, T # {}
    PROVE  \E x \in T : \A y \in T : x <= y
<1>1. PICK x \in T : \A y \in T : ~(<<y, x>> \in OpToRel(<, Nat))
  BY ONLY T \subseteq Nat, T # {}, NatLessThanWellFounded, WFMin, Zenon
<1>2. \A y \in T : ~(y < x)
  BY <1>1 DEF OpToRel
<1> QED BY <1>2, SMT

LEMMA MaxOf ==
    ASSUME NEW m \in Nat, NEW S, S \subseteq 0..m, S # {}
    PROVE  Max(S) \in S /\ \A j \in S : j <= Max(S)
<1> DEFINE T == {m - i : i \in S}
<1>1. T \subseteq Nat /\ T # {}
  <2>1. PICK i \in S : TRUE
    OBVIOUS
  <2> QED OBVIOUS
<1>2. PICK x \in T : \A y \in T : x <= y
  <2> HIDE DEF T
  <2> QED BY <1>1, LeastOf
<1>3. PICK i \in S : x = m - i
  OBVIOUS
<1>4. \A j \in S : i >= j
  <2> TAKE j \in S
  <2>1. m - i <= m - j
    BY <1>2, <1>3
  <2> HIDE DEF T
  <2> QED BY <2>1, SMT
<1>5. Max(S) \in S /\ \A j \in S : Max(S) >= j
  BY <1>4, Zenon DEF Max
<1>6. Max(S) \in Nat /\ \A j \in S : j \in Nat
  <2>1. 0..m \subseteq Nat
    OBVIOUS
  <2> HIDE DEF T
  <2> QED BY <1>5, <2>1, Zenon
<1> QED BY <1>5, <1>6, SMT

(* What step leads to from x, again and again. *)
IsRun(f, step, x) == f[0] = x /\ \A n \in Nat : f[n + 1] = step[f[n]]
LEMMA Iterates ==
    ASSUME NEW S, NEW step \in [S -> S], NEW x \in S
    PROVE  \E f \in [Nat -> S] : IsRun(f, step, x)
<1> DEFINE Starts(r, n) == r[0] = x /\ \A i \in 0..n - 1 : r[i + 1] = step[r[i]]
           Runs(n) == {r \in [0..n -> S] : Starts(r, n)}
           Missing == {n \in Nat : Runs(n) = {}}
<1>1. Missing = {}
  <2> SUFFICES ASSUME Missing # {} PROVE FALSE
    OBVIOUS
  <2>1. PICK m \in Missing : \A y \in Missing : m <= y
    BY LeastOf
  <2>2. m # 0
    <3>1. [i \in 0..0 |-> x] \in Runs(0)
      OBVIOUS
    <3> QED BY <3>1
  <2>3. m - 1 \in Nat /\ m - 1 \notin Missing
    BY <2>1, <2>2
  <2>4. PICK r \in [0..m - 1 -> S] : Starts(r, m - 1)
    BY <2>3
  <2> DEFINE q == [i \in 0..m |-> IF i = m THEN step[r[m - 1]] ELSE r[i]]
  <2>5. q \in [0..m -> S]
    BY <2>3, <2>4
  <2>6. Starts(q, m)
    <3>1. q[0] = x
      BY <2>2, <2>4
    <3>2. ASSUME NEW i \in 0..m - 1 PROVE q[i + 1] = step[q[i]]
      <4>1. CASE i = m - 1
        BY <4>1, <2>3
      <4>2. CASE i # m - 1
        BY <4>2, <2>3, <2>4
      <4> QED BY <4>1, <4>2
    <3> QED BY <3>1, <3>2
  <2> QED BY <2>5, <2>6
<1>2. ASSUME NEW n \in Nat, NEW m \in 0..n, NEW r \in Runs(n), NEW q \in Runs(m)
      PROVE  r[m] = q[m]
  <2> DEFINE Differ == {i \in 0..m : r[i] # q[i]}
  <2> SUFFICES ASSUME Differ # {} PROVE FALSE
    OBVIOUS
  <2>1. PICK i \in Differ : \A j \in Differ : i <= j
    <3>1. Differ \subseteq Nat
      OBVIOUS
    <3> HIDE DEF Differ
    <3> QED BY <3>1, LeastOf
  <2>2. i - 1 \in 0..m - 1 /\ i - 1 \in 0..n - 1 /\ i - 1 \notin Differ
    BY <2>1
  <2> QED BY <2>2
<1> DEFINE Run(n) == CHOOSE r \in Runs(n) : TRUE
           f == [n \in Nat |-> Run(n)[n]]
<1>3. \A n \in Nat : Run(n) \in Runs(n)
  <2> TAKE n \in Nat
  <2> HIDE DEF Runs
  <2> QED BY <1>1
<1> HIDE DEF Run, Missing
<1>4. f \in [Nat -> S]
  BY <1>3
<1>5. f[0] = x
  BY <1>3
<1>6. ASSUME NEW n \in Nat PROVE f[n + 1] = step[f[n]]
  <2>1. n + 1 \in Nat /\ n \in 0..n + 1 /\ n \in 0..n + 1 - 1
    OBVIOUS
  <2>2. Run(n + 1)[n] = Run(n)[n]
    BY <2>1, <1>3, <1>2
  <2> QED BY <2>1, <2>2, <1>3
<1> HIDE DEF f
<1> QED BY <1>4, <1>5, <1>6 DEF IsRun

------------------------------------------------------------------------------
(* Sequences and texts. *)

LEMMA Part ==
    ASSUME NEW S, NEW s \in Seq(S), NEW m \in Nat \ {0}, NEW n \in Int, n <= Len(s)
    PROVE  /\ SubSeq(s, m, n) \in Seq(S)
           /\ Len(SubSeq(s, m, n)) = IF m <= n THEN n - m + 1 ELSE 0
           /\ \A i \in 1..n - m + 1 : SubSeq(s, m, n)[i] = s[m + i - 1]
BY ElementOfSeq, LenProperties, SubSeqProperties

LEMMA Prefix ==
    ASSUME NEW S, NEW s \in Seq(S), NEW n \in 0..Len(s)
    PROVE  /\ SubSeq(s, 1, n) \in Seq(S)
           /\ Len(SubSeq(s, 1, n)) = n
           /\ \A i \in 1..n : SubSeq(s, 1, n)[i] = s[i]
<1>1. Len(s) \in Nat
  BY LenProperties
<1> QED BY <1>1, Part

LEMMA PartOfPrefix ==
    ASSUME NEW S, NEW s \in Seq(S), NEW k \in 0..Len(s), NEW m \in Nat \ {0}, NEW n \in Int, n <= k
    PROVE  SubSeq(SubSeq(s, 1, k), m, n) = SubSeq(s, m, n)
<1> DEFINE p == SubSeq(s, 1, k)
<1>1. Len(s) \in Nat
  BY LenProperties
<1>2. p \in Seq(S) /\ Len(p) = k /\ \A i \in 1..k : p[i] = s[i]
  BY Prefix
<1>3. /\ SubSeq(s, m, n) \in Seq(S)
      /\ Len(SubSeq(s, m, n)) = IF m <= n THEN n - m + 1 ELSE 0
      /\ \A i \in 1..n - m + 1 : SubSeq(s, m, n)[i] = s[m + i - 1]
  BY <1>1, Part
<1> HIDE DEF p
<1>4. \A i \in 1..n - m + 1 : m + i - 1 \in 1..k
  BY <1>1
<1>5. SubSeq(p, m, n) = SubSeq(s, m, n)
  BY <1>1, <1>2, <1>3, Part, <1>4, SeqEqual
<1> QED BY <1>5 DEF p

(* Texts that begin alike have the same parts there. *)
LEMMA SamePart ==
    ASSUME NEW S, NEW s \in Seq(S), NEW t \in Seq(S), NEW k \in 0..Len(s), k <= Len(t),
           SubSeq(s, 1, k) = SubSeq(t, 1, k), NEW m \in Nat \ {0}, NEW n \in Int, n <= k
    PROVE  SubSeq(s, m, n) = SubSeq(t, m, n)
BY PartOfPrefix, LenProperties

LEMMA TextIsSeq ==
    ASSUME NEW t
    PROVE  t \in Texts <=> t \in Seq(Keys) /\ Len(t) \in 0..MaxInput
<1>1. ASSUME t \in Texts PROVE t \in Seq(Keys) /\ Len(t) \in 0..MaxInput
  <2>1. PICK n \in 0..MaxInput : t \in [1..n -> Keys]
    BY <1>1 DEF Texts
  <2> QED BY <2>1, EngineAssumption
<1>2. ASSUME t \in Seq(Keys), Len(t) \in 0..MaxInput PROVE t \in Texts
  BY <1>2, LenProperties DEF Texts
<1> QED BY <1>1, <1>2

LEMMA PartIsText ==
    ASSUME NEW t \in Texts, NEW m \in Nat \ {0}, NEW n \in Int, n <= Len(t)
    PROVE  SubSeq(t, m, n) \in Texts
<1>1. t \in Seq(Keys) /\ Len(t) \in 0..MaxInput
  BY TextIsSeq
<1>2. /\ SubSeq(t, m, n) \in Seq(Keys)
      /\ Len(SubSeq(t, m, n)) = IF m <= n THEN n - m + 1 ELSE 0
  BY <1>1, Part
<1>3. Len(SubSeq(t, m, n)) \in 0..MaxInput
  BY <1>1, <1>2, EngineAssumption
<1> QED BY <1>2, <1>3, TextIsSeq

LEMMA Ends ==
    ASSUME NEW S, NEW s \in Seq(S)
    PROVE  /\ Len(s) \in Nat /\ DOMAIN s = 1..Len(s)
           /\ \A i \in 1..Len(s) : s[i] \in S
           /\ s # <<>> <=> Len(s) > 0
           /\ Last(s) = s[Len(s)]
           /\ s # <<>> => Last(s) \in S
<1>1. Len(s) \in Nat /\ DOMAIN s = 1..Len(s)
  BY LenProperties
<1> QED BY <1>1, ElementOfSeq, EmptySeq DEF Last

LEMMA FrontOf ==
    ASSUME NEW S, NEW s \in Seq(S), s # <<>>
    PROVE  /\ Front(s) \in Seq(S) /\ Len(Front(s)) = Len(s) - 1
           /\ \A i \in 1..Len(s) - 1 : Front(s)[i] = s[i]
<1>1. Len(s) - 1 \in 0..Len(s)
  BY Ends
<1> QED BY <1>1, Prefix DEF Front

LEMMA LastReplaced ==
    ASSUME NEW S, NEW s \in Seq(S), s # <<>>, NEW x \in S
    PROVE  /\ Append(Front(s), x) \in Seq(S)
           /\ Append(Front(s), x) # <<>>
           /\ Len(Append(Front(s), x)) = Len(s)
           /\ \A i \in 1..Len(s) - 1 : Append(Front(s), x)[i] = s[i]
           /\ Append(Front(s), x)[Len(s)] = x
           /\ Last(Append(Front(s), x)) = x
<1> DEFINE r == Append(Front(s), x)
<1>1. Front(s) \in Seq(S) /\ Len(Front(s)) = Len(s) - 1 /\ \A i \in 1..Len(s) - 1 : Front(s)[i] = s[i]
  BY FrontOf
<1>2. /\ r \in Seq(S) /\ r # <<>> /\ Len(r) = Len(s) - 1 + 1
      /\ \A i \in 1..Len(s) - 1 : r[i] = Front(s)[i]
      /\ r[Len(s) - 1 + 1] = x
  BY <1>1, AppendProperties
<1> HIDE DEF r
<1> QED BY <1>1, <1>2, Ends DEF r, Last

------------------------------------------------------------------------------
(* Segments in order: each begins where the one before ends, none but the  *)
(* last is empty, and they end within the text.  Their candidates fit: a   *)
(* segment translated has the menu of what it covers, and a chosen one     *)
(* stands for what its candidate converts.  X holds the places where they  *)
(* may not, those of segments reopened since.                              *)

Tags == {"abc", "raw", "partial", "selected_before_editing"}
Segment ==
    [status : kVoid..kConfirmed, start : Nat, end : Nat, length : Nat,
     tags : SUBSET Tags, menu : Texts, index : Nat]

Chained(segs, n) ==
    /\ \A i \in DOMAIN segs :
        /\ segs[i].start = IF i = 1 THEN 0 ELSE segs[i - 1].end
        /\ segs[i].start <= segs[i].end
        /\ IsEmpty(segs[i]) => i = Len(segs) /\ segs[i].menu = <<>>
    /\ \A i, j \in DOMAIN segs : i < j => segs[i].end <= segs[j].start
    /\ CurrentEnd(segs) <= n

Fitted(seg, text) ==
    /\ seg.status = kGuess => seg.menu = Covered(text, seg)
    /\ seg.status >= kSelected /\ HasCandidate(seg) =>
        /\ CandidateEnd(seg) <= seg.end
        /\ Converted(seg) = SubSeq(text, seg.start + 1, CandidateEnd(seg))
Sound(seg, i, text, X) == IF i \in X THEN seg.status < kSelected ELSE Fitted(seg, text)

Whole(segs, text, X) ==
    /\ segs \in Seq(Segment)
    /\ Chained(segs, Len(text))
    /\ \A i \in DOMAIN segs : Sound(segs[i], i, text, X)

LEMMA EndOf ==
    ASSUME NEW segs \in Seq(Segment)
    PROVE  /\ CurrentEnd(segs) \in Nat /\ CurrentStart(segs) \in Nat
           /\ segs # <<>> => /\ CurrentEnd(segs) = segs[Len(segs)].end
                             /\ CurrentStart(segs) = segs[Len(segs)].start
           /\ segs = <<>> => CurrentEnd(segs) = 0 /\ CurrentStart(segs) = 0
<1>1. /\ Last(segs) = segs[Len(segs)]
      /\ segs # <<>> => Last(segs) \in Segment
  BY Ends
<1> QED BY <1>1 DEF CurrentEnd, CurrentStart, Segment

(* The last segment may be replaced by one that begins where it does. *)
LEMMA ReplacedWhole ==
    ASSUME NEW text, Len(text) \in Nat, NEW X, NEW segs, Whole(segs, text, X), segs # <<>>,
           NEW x \in Segment, x.start = Last(segs).start,
           x.start <= x.end, x.end <= Len(text), IsEmpty(x) => x.menu = <<>>,
           Sound(x, Len(segs), text, X)
    PROVE  Whole(Append(Front(segs), x), text, X)
<1> DEFINE r == Append(Front(segs), x)
           n == Len(segs)
<1>1. segs \in Seq(Segment) /\ Chained(segs, Len(text)) /\ \A i \in DOMAIN segs : Sound(segs[i], i, text, X)
  BY DEF Whole
<1>2. n \in Nat /\ n > 0 /\ DOMAIN segs = 1..n /\ Last(segs) = segs[n] /\ \A i \in 1..n : segs[i] \in Segment
  BY <1>1, Ends
<1>3. r \in Seq(Segment) /\ r # <<>> /\ Len(r) = n /\ (\A i \in 1..n - 1 : r[i] = segs[i]) /\ r[n] = x
  BY <1>1, LastReplaced
<1>4. n = Len(segs)
  OBVIOUS
<1> HIDE DEF r, n
<1>5. DOMAIN r = 1..n
  BY <1>3, LenProperties
<1>6. CurrentEnd(r) = x.end
  BY <1>3, EndOf
<1>7. ASSUME NEW i \in 1..n
      PROVE  /\ r[i].start = IF i = 1 THEN 0 ELSE r[i - 1].end
             /\ r[i].start <= r[i].end
             /\ IsEmpty(r[i]) => i = n /\ r[i].menu = <<>>
  <2>1. /\ segs[i].start = IF i = 1 THEN 0 ELSE segs[i - 1].end
        /\ segs[i].start <= segs[i].end
        /\ IsEmpty(segs[i]) => i = n /\ segs[i].menu = <<>>
    BY <1>4, <1>1, <1>2 DEF Chained
  <2>2. i # 1 => i - 1 \in 1..n - 1
    BY <1>2
  <2>3. CASE i = n
    BY <2>1, <2>2, <2>3, <1>2, <1>3
  <2>4. CASE i # n
    BY <2>4, <1>2, <2>1, <2>2, <1>3
  <2> QED BY <2>3, <2>4
<1>8. ASSUME NEW i \in 1..n, NEW j \in 1..n, i < j PROVE r[i].end <= r[j].start
  <2>1. i \in 1..n - 1
    BY <1>8, <1>2
  <2>2. r[j].start = segs[j].start
    <3>1. CASE j = n
      BY <3>1, <1>2, <1>3
    <3>2. CASE j # n
      BY <3>2, <1>2, <1>3
    <3> QED BY <3>1, <3>2
  <2> QED BY <1>4, <1>1, <1>2, <1>8, <2>1, <2>2, <1>3 DEF Chained
<1>9. ASSUME NEW i \in 1..n PROVE Sound(r[i], i, text, X)
  <2>1. CASE i = n
    BY <2>1, <1>4, <1>3
  <2>2. CASE i # n
    BY <2>2, <1>1, <1>2, <1>3
  <2> QED BY <2>1, <2>2
<1> QED BY <1>3, <1>5, <1>6, <1>7, <1>8, <1>9 DEF Whole, r, Chained

(* One more may follow where they end, if the last is not empty. *)
LEMMA AppendedWhole ==
    ASSUME NEW text, Len(text) \in Nat, NEW X, NEW segs, Whole(segs, text, X),
           segs # <<>> => ~IsEmpty(Last(segs)),
           NEW x \in Segment, x.start = CurrentEnd(segs),
           x.start <= x.end, x.end <= Len(text), IsEmpty(x) => x.menu = <<>>,
           Sound(x, Len(segs) + 1, text, X)
    PROVE  /\ Whole(Append(segs, x), text, X)
           /\ Append(segs, x) # <<>> /\ Last(Append(segs, x)) = x
<1> DEFINE r == Append(segs, x)
           n == Len(segs)
<1>1. n = Len(segs)
  OBVIOUS
<1>2. segs \in Seq(Segment) /\ Chained(segs, Len(text)) /\ \A i \in DOMAIN segs : Sound(segs[i], i, text, X)
  BY DEF Whole
<1>3. n \in Nat /\ DOMAIN segs = 1..n /\ \A i \in 1..n : segs[i] \in Segment
  BY <1>2, Ends
<1>4. r \in Seq(Segment) /\ r # <<>> /\ Len(r) = n + 1 /\ (\A i \in 1..n : r[i] = segs[i]) /\ r[n + 1] = x
  BY <1>2, AppendProperties
<1>5. IF n = 0 THEN x.start = 0 ELSE x.start = segs[n].end /\ ~IsEmpty(segs[n])
  BY <1>1, <1>2, Ends, EndOf
<1> HIDE DEF r, n
<1>6. DOMAIN r = 1..n + 1
  BY <1>4, LenProperties
<1>7. CurrentEnd(r) = x.end /\ Last(r) = x
  BY <1>4, EndOf, Ends
<1>8. ASSUME NEW i \in 1..n
      PROVE  /\ segs[i].start = IF i = 1 THEN 0 ELSE segs[i - 1].end
             /\ segs[i].start <= segs[i].end
             /\ IsEmpty(segs[i]) => i = n /\ segs[i].menu = <<>>
             /\ segs[i].start \in Nat /\ segs[i].end \in Nat
  BY <1>1, <1>2, <1>3 DEF Chained, Segment
<1>9. ASSUME NEW i \in 1..n + 1
      PROVE  /\ r[i].start = IF i = 1 THEN 0 ELSE r[i - 1].end
             /\ r[i].start <= r[i].end
             /\ IsEmpty(r[i]) => i = n + 1 /\ r[i].menu = <<>>
  <2>1. i # 1 => i - 1 \in 1..n
    BY <1>3
  <2>2. CASE i = n + 1
    BY <2>1, <2>2, <1>3, <1>4, <1>5
  <2>3. CASE i # n + 1
    <3>1. i \in 1..n
      BY <2>3, <1>3
    <3> QED BY <3>1, <1>5, <1>8, <2>1, <1>4
  <2> QED BY <2>2, <2>3
<1>10. ASSUME NEW i \in 1..n + 1, NEW j \in 1..n + 1, i < j PROVE r[i].end <= r[j].start
  <2>1. i \in 1..n
    BY <1>10, <1>3
  <2>2. CASE j = n + 1
    <3>1. CASE i = n
      BY <3>1, <2>1, <2>2, <1>4, <1>5, <1>8
    <3>2. CASE i # n
      <4>1. n \in 1..n /\ i < n
        BY <3>2, <2>1, <1>3
      <4>2. segs[i].end <= segs[n].start
        BY <4>1, <2>1, <1>2, <1>3 DEF Chained
      <4>3. segs[i].end <= segs[n].end
        BY <4>1, <4>2, <2>1, <1>8
      <4> QED BY <4>1, <4>3, <2>1, <2>2, <1>4, <1>5
    <3> QED BY <3>1, <3>2
  <2>3. CASE j # n + 1
    <3>1. j \in 1..n
      BY <2>3, <1>3
    <3> QED BY <3>1, <2>1, <1>10, <1>2, <1>3, <1>4 DEF Chained
  <2> QED BY <2>2, <2>3
<1>11. ASSUME NEW i \in 1..n + 1 PROVE Sound(r[i], i, text, X)
  <2>1. CASE i = n + 1
    BY <2>1, <1>1, <1>4
  <2>2. CASE i # n + 1
    BY <2>2, <1>3, <1>2, <1>4
  <2> QED BY <2>1, <2>2
<1> QED BY <1>4, <1>6, <1>7, <1>9, <1>10, <1>11 DEF Whole, r, Chained

(* The first ones are in order too, in any text that is the same there.    *)
LEMMA PrefixWhole ==
    ASSUME NEW old, NEW X, NEW segs, Whole(segs, old, X), NEW n \in 0..Len(segs),
           NEW text, Len(text) \in Nat,
           n = 0 \/ segs[n].end <= Len(text),
           \A i \in 1..n : Sound(segs[i], i, text, X)
    PROVE  /\ Whole(SubSeq(segs, 1, n), text, X)
           /\ CurrentEnd(SubSeq(segs, 1, n)) = IF n = 0 THEN 0 ELSE segs[n].end
           /\ n = 0 => SubSeq(segs, 1, n) = <<>>
           /\ n # 0 => SubSeq(segs, 1, n) # <<>> /\ Last(SubSeq(segs, 1, n)) = segs[n]
           /\ n # 0 /\ n # Len(segs) => ~IsEmpty(segs[n])
<1> DEFINE r == SubSeq(segs, 1, n)
           m == Len(segs)
<1>1. m = Len(segs)
  OBVIOUS
<1>2. segs \in Seq(Segment) /\ Chained(segs, Len(old))
  BY DEF Whole
<1>3. m \in Nat /\ DOMAIN segs = 1..m /\ \A i \in 1..m : segs[i] \in Segment
  BY <1>2, Ends
<1>4. r \in Seq(Segment) /\ Len(r) = n /\ \A i \in 1..n : r[i] = segs[i]
  BY <1>2, Prefix
<1> HIDE DEF r, m
<1>5. n \in Nat /\ DOMAIN r = 1..n /\ 1..n \subseteq 1..m
  BY <1>1, <1>3, <1>4, LenProperties
<1>6. /\ r = <<>> <=> n = 0
      /\ n # 0 => Last(r) = segs[n]
  BY <1>5, <1>4, Ends
<1>7. CurrentEnd(r) = IF n = 0 THEN 0 ELSE segs[n].end
  BY <1>6 DEF CurrentEnd
<1>8. ASSUME NEW i \in 1..m
      PROVE  /\ segs[i].start = IF i = 1 THEN 0 ELSE segs[i - 1].end
             /\ segs[i].start <= segs[i].end
             /\ IsEmpty(segs[i]) => i = m /\ segs[i].menu = <<>>
  BY <1>1, <1>2, <1>3 DEF Chained
<1>9. ASSUME NEW i \in 1..n
      PROVE  /\ r[i].start = IF i = 1 THEN 0 ELSE r[i - 1].end
             /\ r[i].start <= r[i].end
             /\ IsEmpty(r[i]) => i = n /\ r[i].menu = <<>>
  <2>1. i \in 1..m /\ (i # 1 => i - 1 \in 1..n) /\ (i = m => i = n)
    BY <1>1, <1>3, <1>5
  <2> QED BY <2>1, <1>4, <1>8
<1>10. \A i, j \in 1..n : i < j => r[i].end <= r[j].start
  BY <1>2, <1>3, <1>4, <1>5 DEF Chained
<1>11. CurrentEnd(r) <= Len(text)
  BY <1>7
<1>12. Whole(r, text, X)
  BY <1>4, <1>5, <1>9, <1>10, <1>11 DEF Whole, Chained
<1>13. n # 0 /\ n # m => ~IsEmpty(segs[n])
  BY <1>1, <1>5, <1>8
<1> QED BY <1>1, <1>6, <1>7, <1>12, <1>13 DEF r

------------------------------------------------------------------------------
(* The operations on a sequence of segments, and the segmentors.  A        *)
(* segment chosen is kept by them all, unless it is the last, or of the    *)
(* raw text that the fallback segmentor joins.                             *)

Lasting(seg) == seg.status >= kSelected /\ "raw" \notin seg.tags
Keeps(segs, new) ==
    \A i \in 1..Len(segs) - 1 : Lasting(segs[i]) => i \in 1..Len(new) - 1 /\ new[i] = segs[i]

LEMMA KeepsTrans ==
    ASSUME NEW s, NEW t, NEW u, Keeps(s, t), Keeps(t, u)
    PROVE  Keeps(s, u)
BY DEF Keeps

LEMMA EmptyIsText == <<>> \in Texts
<1>1. <<>> \in Seq(Keys) /\ Len(<<>>) = 0
  OBVIOUS
<1>2. 0 \in 0..MaxInput
  BY EngineAssumption
<1> QED BY <1>1, <1>2, TextIsSeq

LEMMA NewIsSegment ==
    ASSUME NEW from \in Nat, NEW to \in Nat, from <= to, NEW tags \in SUBSET Tags
    PROVE  /\ NewSegment(from, to, tags) \in Segment
           /\ NewSegment(from, to, tags).start = from /\ NewSegment(from, to, tags).end = to
           /\ NewSegment(from, to, tags).menu = <<>>
           /\ NewSegment(from, to, tags).status = kVoid
BY EmptyIsText DEF NewSegment, Segment

LEMMA VoidIsSound ==
    ASSUME NEW seg, seg.status = kVoid, NEW i, NEW text, NEW X
    PROVE  Sound(seg, i, text, X)
BY DEF Sound, Fitted

LEMMA ForwardWhole ==
    ASSUME NEW text \in Texts, NEW X, NEW segs, Whole(segs, text, X)
    PROVE  /\ Whole(Forward(segs), text, X)
           /\ CurrentEnd(Forward(segs)) = CurrentEnd(segs)
           /\ Forward(segs) # <<>> => IsEmpty(Last(Forward(segs)))
           /\ segs = <<>> <=> Forward(segs) = <<>>
           /\ CurrentStart(Forward(segs)) = CurrentEnd(segs)
           /\ Len(Forward(segs)) >= Len(segs) /\ \A i \in 1..Len(segs) : Forward(segs)[i] = segs[i]
           /\ Keeps(segs, Forward(segs))
<1>1. segs \in Seq(Segment) /\ CurrentEnd(segs) <= Len(text)
  BY DEF Whole, Chained
<1>2. Len(segs) \in Nat
  BY <1>1, Ends
<1>3. CASE segs = <<>> \/ IsEmpty(Last(segs))
  BY <1>3, <1>1, <1>2 DEF Keeps, CurrentStart, CurrentEnd, IsEmpty, Forward
<1>4. CASE segs # <<>> /\ ~IsEmpty(Last(segs))
  <2> DEFINE e == CurrentEnd(segs)
             x == NewSegment(e, e, {})
  <2>1. Forward(segs) = Append(segs, x)
    BY <1>4 DEF Forward, CurrentEnd
  <2>2. e \in Nat
    BY <1>1, EndOf
  <2>3. x \in Segment /\ x.start = e /\ x.end = e /\ x.menu = <<>> /\ x.status = kVoid
    BY <2>2, NewIsSegment
  <2> HIDE DEF x
  <2>4. Whole(Append(segs, x), text, X) /\ Append(segs, x) # <<>> /\ Last(Append(segs, x)) = x
    BY <2>2, <2>3, VoidIsSound, TextIsSeq, <1>1, <1>4, AppendedWhole
  <2>5. IsEmpty(x)
    BY <2>3 DEF IsEmpty
  <2>6. Len(Append(segs, x)) = Len(segs) + 1 /\ \A i \in 1..Len(segs) : Append(segs, x)[i] = segs[i]
    BY <1>1, <2>3, AppendProperties
  <2>7. Keeps(segs, Append(segs, x))
    BY <2>6, <1>2 DEF Keeps
  <2>8. Len(Append(segs, x)) >= Len(segs)
    BY <2>6, <1>2
  <2> QED BY <2>1, <2>4, <2>5, <2>6, <2>3, <2>7, <2>8, <1>4 DEF CurrentEnd, CurrentStart
<1> QED BY <1>3, <1>4

LEMMA ForwardAdds ==
    ASSUME NEW segs \in Seq(Segment), segs # <<>>, ~IsEmpty(Last(segs))
    PROVE  Len(Forward(segs)) = Len(segs) + 1
<1> DEFINE x == NewSegment(Last(segs).end, Last(segs).end, {})
<1> HIDE DEF x
<1> QED BY DEF Forward

LEMMA TrimWhole ==
    ASSUME NEW text \in Texts, NEW X, NEW segs, Whole(segs, text, X)
    PROVE  /\ Whole(Trim(segs), text, X)
           /\ CurrentEnd(Trim(segs)) = CurrentEnd(segs)
           /\ Trim(segs) # <<>> => ~IsEmpty(Last(Trim(segs)))
           /\ Len(Trim(segs)) = IF CanTrim(segs) THEN Len(segs) - 1 ELSE Len(segs)
           /\ \A i \in 1..Len(Trim(segs)) : Trim(segs)[i] = segs[i]
<1>1. Len(text) \in Nat
  BY TextIsSeq
<1>2. segs \in Seq(Segment) /\ Chained(segs, Len(text)) /\ \A i \in DOMAIN segs : Sound(segs[i], i, text, X)
  BY DEF Whole
<1>3. CASE ~CanTrim(segs)
  <2>1. Whole(segs, text, X)
    OBVIOUS
  <2> QED BY <1>3, <2>1 DEF CanTrim, Trim
<1>4. CASE CanTrim(segs)
  <2> DEFINE n == Len(segs)
             r == SubSeq(segs, 1, n - 1)
  <2>1. n = Len(segs) /\ segs # <<>> /\ IsEmpty(Last(segs))
    BY <1>4 DEF CanTrim
  <2>2. n \in Nat /\ n > 0 /\ DOMAIN segs = 1..n /\ Last(segs) = segs[n] /\ \A i \in 1..n : segs[i] \in Segment
    BY <2>1, <1>2, Ends
  <2>3. Trim(segs) = r
    BY <1>4 DEF Trim, Front
  <2>4. Len(r) = n - 1 /\ \A i \in 1..n - 1 : r[i] = segs[i]
    BY <2>1, <1>2, FrontOf DEF Front
  <2> HIDE DEF n
  <2>5. /\ segs[n].start = IF n = 1 THEN 0 ELSE segs[n - 1].end
        /\ segs[n].start = segs[n].end
    <3>1. n \in DOMAIN segs
      BY <2>2
    <3> QED BY <1>2, <3>1, <2>1, <2>2 DEF Chained, IsEmpty
  <2>6. segs[n].end <= Len(text)
    BY <2>1, <2>2, <1>2, EndOf DEF Chained
  <2>7. n - 1 = 0 \/ segs[n - 1].end <= Len(text)
    BY <2>2, <2>5, <2>6
  <2>8. n - 1 \in 0..Len(segs) /\ n - 1 # Len(segs)
    BY <2>1, <2>2
  <2>9. /\ Whole(r, text, X)
        /\ CurrentEnd(r) = IF n - 1 = 0 THEN 0 ELSE segs[n - 1].end
        /\ n - 1 = 0 => r = <<>>
        /\ n - 1 # 0 => r # <<>> /\ Last(r) = segs[n - 1]
        /\ n - 1 # 0 /\ n - 1 # Len(segs) => ~IsEmpty(segs[n - 1])
    <3> DEFINE k == n - 1
    <3>1. k \in 0..Len(segs) /\ (k = 0 \/ segs[k].end <= Len(text)) /\ \A i \in 1..k : Sound(segs[i], i, text, X)
      BY <2>7, <2>2, <1>2, <2>8
    <3> HIDE DEF k
    <3>2. /\ Whole(SubSeq(segs, 1, k), text, X)
          /\ CurrentEnd(SubSeq(segs, 1, k)) = IF k = 0 THEN 0 ELSE segs[k].end
          /\ k = 0 => SubSeq(segs, 1, k) = <<>>
          /\ k # 0 => SubSeq(segs, 1, k) # <<>> /\ Last(SubSeq(segs, 1, k)) = segs[k]
          /\ k # 0 /\ k # Len(segs) => ~IsEmpty(segs[k])
      <4>1. Whole(SubSeq(segs, 1, k), text, X)
        BY <3>1, <1>1, PrefixWhole
      <4>2. CurrentEnd(SubSeq(segs, 1, k)) = IF k = 0 THEN 0 ELSE segs[k].end
        BY <3>1, <1>1, PrefixWhole
      <4>3. k = 0 => SubSeq(segs, 1, k) = <<>>
        BY <3>1, <1>1, PrefixWhole
      <4>4. k # 0 => SubSeq(segs, 1, k) # <<>> /\ Last(SubSeq(segs, 1, k)) = segs[k]
        BY <3>1, <1>1, PrefixWhole
      <4>5. k # 0 /\ k # Len(segs) => ~IsEmpty(segs[k])
        BY <3>1, <1>1, PrefixWhole
      <4> QED BY <4>1, <4>2, <4>3, <4>4, <4>5
    <3> QED BY <3>2 DEF k
  <2>10. CurrentEnd(segs) = segs[n].end
    BY <2>1, <1>2, EndOf
  <2>11. CurrentEnd(r) = CurrentEnd(segs)
    BY <2>2, <2>5, <2>9, <2>10
  <2> HIDE DEF r
  <2> QED BY <2>1, <2>3, <2>4, <2>9, <2>8, <2>11, <1>4
<1> QED BY <1>3, <1>4

LEMMA LastKeeps ==
    ASSUME NEW segs \in Seq(Segment), segs # <<>>, NEW x \in Segment
    PROVE  Keeps(segs, Append(Front(segs), x))
BY LastReplaced, Ends DEF Keeps

LEMMA RetaggedIsSound ==
    ASSUME NEW seg \in Segment, NEW tags \in SUBSET Tags
    PROVE  /\ [seg EXCEPT !.tags = tags] \in Segment
           /\ [seg EXCEPT !.tags = tags].start = seg.start
           /\ [seg EXCEPT !.tags = tags].end = seg.end
           /\ [seg EXCEPT !.tags = tags].status = seg.status
           /\ [seg EXCEPT !.tags = tags].menu = seg.menu
           /\ [seg EXCEPT !.tags = tags].index = seg.index
           /\ \A i, text, X : Sound(seg, i, text, X) => Sound([seg EXCEPT !.tags = tags], i, text, X)
<1> DEFINE r == [seg EXCEPT !.tags = tags]
<1>1. /\ r \in Segment /\ r.start = seg.start /\ r.end = seg.end /\ r.status = seg.status
      /\ r.menu = seg.menu /\ r.index = seg.index
  BY DEF Segment
<1> HIDE DEF r
<1>2. \A text : Fitted(seg, text) => Fitted(r, text)
  BY <1>1 DEF Fitted, Covered, HasCandidate, Count, CandidateEnd, CandidateLength, Converted
<1> QED BY <1>1, <1>2 DEF r, Sound

LEMMA AddSegmentWhole ==
    ASSUME NEW text \in Texts, NEW X, NEW segs, Whole(segs, text, X),
           NEW seg \in Segment, seg.status = kVoid, seg.menu = <<>>,
           seg.start = CurrentStart(segs), seg.start < seg.end, seg.end <= Len(text)
    PROVE  /\ Whole(AddSegment(segs, seg), text, X)
           /\ CurrentEnd(AddSegment(segs, seg)) >= CurrentEnd(segs)
           /\ CurrentEnd(AddSegment(segs, seg)) >= seg.end
           /\ CurrentStart(AddSegment(segs, seg)) = CurrentStart(segs)
           /\ Len(AddSegment(segs, seg)) >= Len(segs)
           /\ Keeps(segs, AddSegment(segs, seg))
<1>1. Len(text) \in Nat
  BY TextIsSeq
<1>2. segs \in Seq(Segment) /\ Chained(segs, Len(text)) /\ \A i \in DOMAIN segs : Sound(segs[i], i, text, X)
  BY DEF Whole
<1>3. Len(segs) \in Nat /\ DOMAIN segs = 1..Len(segs)
  BY <1>2, Ends
<1>4. seg.start \in Nat /\ seg.end \in Nat /\ ~IsEmpty(seg) /\ \A i : Sound(seg, i, text, X)
  BY VoidIsSound DEF Segment, IsEmpty
<1>5. CurrentEnd(segs) \in Nat /\ CurrentStart(segs) \in Nat
  BY <1>2, EndOf
<1>6. CASE segs = <<>>
  <2>1. CurrentStart(segs) = 0 /\ CurrentEnd(segs) = 0 /\ Len(segs) = 0
    BY <1>6 DEF CurrentStart, CurrentEnd
  <2>2. Whole(Append(segs, seg), text, X) /\ Append(segs, seg) # <<>> /\ Last(Append(segs, seg)) = seg
    <3>1. seg.start = CurrentEnd(segs) /\ (segs # <<>> => ~IsEmpty(Last(segs)))
      BY <2>1, <1>6
    <3> QED BY <1>4, <3>1, <1>1, AppendedWhole
  <2>3. Len(Append(segs, seg)) = Len(segs) + 1
    BY <1>2, AppendProperties
  <2>4. Keeps(segs, Append(segs, seg))
    BY <2>1 DEF Keeps
  <2> QED BY <1>6, <2>1, <2>2, <2>3, <2>4, <1>4 DEF CurrentStart, CurrentEnd, AddSegment
<1>7. CASE segs # <<>>
  <2> DEFINE last == Last(segs)
  <2>1. /\ last \in Segment /\ last = segs[Len(segs)] /\ Len(segs) \in 1..Len(segs)
        /\ CurrentEnd(segs) = last.end /\ CurrentStart(segs) = last.start
    BY <1>2, <1>3, <1>7, Ends DEF CurrentEnd, CurrentStart
  <2>2. last.start \in Nat /\ last.end \in Nat /\ last.end <= Len(text) /\ last.start <= last.end
    BY <2>1, <1>2, <1>3 DEF Segment, Chained
  <2>3. Sound(last, Len(segs), text, X) /\ (IsEmpty(last) => last.menu = <<>>)
    BY <2>1, <1>2, <1>3 DEF Chained
  <2> HIDE DEF last
  <2>4. CASE last.end > seg.end
    BY <2>4, <1>7, <2>1, <2>2, <1>3, <1>4 DEF Keeps, AddSegment, last
  <2>5. CASE last.end < seg.end
    <3>1. AddSegment(segs, seg) = Append(Front(segs), seg)
      BY <2>2, <2>5, <1>4, <1>7 DEF AddSegment, last
    <3>2. Whole(Append(Front(segs), seg), text, X)
      BY <2>1, <1>1, <1>4, <1>7, ReplacedWhole DEF last
    <3>3. /\ CurrentEnd(Append(Front(segs), seg)) = seg.end
          /\ CurrentStart(Append(Front(segs), seg)) = seg.start
          /\ Len(Append(Front(segs), seg)) = Len(segs)
      BY <1>2, <1>7, LastReplaced DEF CurrentEnd, CurrentStart
    <3>4. Keeps(segs, Append(Front(segs), seg))
      BY <1>2, <1>7, LastKeeps
    <3> QED BY <3>1, <3>2, <3>3, <3>4, <2>1, <2>2, <2>5, <1>3, <1>4
  <2>6. CASE last.end = seg.end
    <3> DEFINE x == [last EXCEPT !.tags = @ \union seg.tags]
               tags == last.tags \union seg.tags
    <3>1. AddSegment(segs, seg) = Append(Front(segs), x)
      BY <2>2, <2>6, <1>4, <1>7 DEF AddSegment, last
    <3>2. x = [last EXCEPT !.tags = tags] /\ tags \in SUBSET Tags
      BY <2>1 DEF Segment
    <3> HIDE DEF tags, x
    <3>3. /\ x \in Segment /\ x.start = last.start /\ x.end = last.end /\ x.menu = last.menu
          /\ Sound(x, Len(segs), text, X)
      BY <3>2, <2>1, <2>3, RetaggedIsSound
    <3>4. Whole(Append(Front(segs), x), text, X)
      BY <3>3, <2>3, <2>2, <1>1, <1>7, ReplacedWhole DEF IsEmpty, last
    <3>5. /\ CurrentEnd(Append(Front(segs), x)) = x.end
          /\ CurrentStart(Append(Front(segs), x)) = x.start
          /\ Len(Append(Front(segs), x)) = Len(segs)
      BY <3>3, <1>2, <1>7, LastReplaced DEF CurrentEnd, CurrentStart
    <3>6. Keeps(segs, Append(Front(segs), x))
      BY <3>3, <1>2, <1>7, LastKeeps
    <3> QED BY <3>1, <3>3, <3>4, <3>5, <3>6, <2>1, <2>2, <2>6, <1>3, <1>4
  <2> QED BY <2>2, <2>4, <2>5, <2>6, <1>4
<1> QED BY <1>6, <1>7

LEMMA AbcWhole ==
    ASSUME NEW text \in Texts, NEW X, NEW segs, Whole(segs, text, X)
    PROVE  /\ Whole(AbcProceed(segs, text), text, X)
           /\ CurrentEnd(AbcProceed(segs, text)) >= CurrentEnd(segs)
           /\ CurrentStart(AbcProceed(segs, text)) = CurrentStart(segs)
           /\ Keeps(segs, AbcProceed(segs, text))
<1> DEFINE j == CurrentStart(segs)
           S == {j} \union {k \in j + 1..Len(text) : \A i \in j + 1..k : text[i] \in Alphabet}
           run == Max(S)
           seg == NewSegment(j, run, {"abc"})
<1>1. segs \in Seq(Segment) /\ Len(text) \in Nat
  BY TextIsSeq DEF Whole
<1>2. j \in Nat /\ CurrentEnd(segs) \in Nat
  BY <1>1, EndOf
<1>3. run \in S
  <2>1. S # {}
    OBVIOUS
  <2>2. S \subseteq 0..j + Len(text)
    BY <1>1, <1>2
  <2>3. j + Len(text) \in Nat
    BY <1>1, <1>2
  <2> HIDE DEF S
  <2> QED BY <2>1, <2>2, <2>3, MaxOf
<1>4. run = j \/ run \in j + 1..Len(text)
  BY <1>3
<1>5. AbcProceed(segs, text) = IF run = j THEN segs ELSE AddSegment(segs, seg)
  BY DEF AbcProceed
<1> HIDE DEF run, S
<1>6. CASE run = j
  BY <1>2, <1>5, <1>6 DEF Keeps
<1>7. CASE run \in j + 1..Len(text)
  <2>1. run # j /\ run \in Nat /\ j < run /\ run <= Len(text) /\ j <= run
    BY <1>1, <1>2, <1>7
  <2>2. /\ seg \in Segment /\ seg.start = j /\ seg.end = run /\ seg.menu = <<>> /\ seg.status = kVoid
    BY <2>1, <1>2, NewIsSegment DEF Tags
  <2> HIDE DEF seg
  <2> QED BY <2>1, <2>2, <1>5, AddSegmentWhole
<1> QED BY <1>4, <1>6, <1>7

LEMMA FallbackWhole ==
    ASSUME NEW text \in Texts, NEW X, NEW segs, Whole(segs, text, X)
    PROVE  /\ Whole(FallbackProceed(segs, text), text, X)
           /\ CurrentEnd(FallbackProceed(segs, text)) >= CurrentEnd(segs)
           /\ CurrentStart(segs) < Len(text) => CurrentEnd(FallbackProceed(segs, text)) > CurrentStart(segs)
           /\ Keeps(segs, FallbackProceed(segs, text))
<1> DEFINE k == CurrentStart(segs)
           rest == Trim(segs)
<1>1. segs \in Seq(Segment) /\ Len(text) \in Nat /\ Len(segs) \in Nat
  BY TextIsSeq, Ends DEF Whole
<1>2. k \in Nat /\ CurrentEnd(segs) \in Nat /\ CurrentEnd(segs) <= Len(text)
  BY <1>1, EndOf DEF Whole, Chained
<1>3. k <= CurrentEnd(segs)
  <2>1. CASE segs = <<>>
    BY <2>1 DEF CurrentStart, CurrentEnd
  <2>2. CASE segs # <<>>
    BY <2>2, <1>1, Ends, EndOf DEF Whole, Chained
  <2> QED BY <2>1, <2>2
<1>4. CASE CurrentEnd(segs) > k \/ k = Len(text)
  BY <1>4, <1>1, <1>2 DEF Keeps, FallbackProceed
<1>5. CASE ~(CurrentEnd(segs) > k \/ k = Len(text))
  <2>1. CurrentEnd(segs) = k /\ k + 1 <= Len(text) /\ k + 1 \in Nat
    BY <1>1, <1>2, <1>3, <1>5
  <2>2. segs # <<>> => CanTrim(segs)
    BY <2>1 DEF CurrentEnd, CurrentStart, CanTrim, IsEmpty
  <2>3. /\ Whole(rest, text, X) /\ CurrentEnd(rest) = k
        /\ rest # <<>> => ~IsEmpty(Last(rest))
        /\ Len(rest) = IF CanTrim(segs) THEN Len(segs) - 1 ELSE Len(segs)
        /\ \A i \in 1..Len(rest) : rest[i] = segs[i]
    BY <2>1, TrimWhole, ZenonT(30)
  <2> HIDE DEF rest
  <2>4. rest \in Seq(Segment) /\ Len(rest) \in Nat
    BY <2>3, Ends DEF Whole
  <2>5. Len(segs) - 1 <= Len(rest)
    BY <2>3, <1>1
  <2>6. CASE rest # <<>> /\ "raw" \in Last(rest).tags
    <3> DEFINE y == NewSegment(Last(rest).start, k + 1, {"raw"})
               x == [y EXCEPT !.length = Last(rest).length]
               r == Append(Front(rest), x)
    <3>1. FallbackProceed(segs, text) = r
      BY <1>5, <2>6 DEF FallbackProceed, rest
    <3>2. Last(rest) \in Segment /\ Last(rest).end = k /\ Last(rest).start <= k /\ Last(rest) = rest[Len(rest)]
      <4>1. Last(rest).end = k
        BY <2>3, <2>6 DEF CurrentEnd
      <4> QED BY <2>4, <2>6, Ends, <4>1, <2>3 DEF Whole, Chained
    <3>3. Last(rest).start \in Nat /\ Last(rest).length \in Nat
      BY <3>2 DEF Segment
    <3>4. /\ y \in Segment /\ y.start = Last(rest).start /\ y.end = k + 1 /\ y.menu = <<>> /\ y.status = kVoid
      BY <3>2, <3>3, <1>2, <2>1, NewIsSegment DEF Tags
    <3> HIDE DEF y
    <3>5. /\ x \in Segment /\ x.start = Last(rest).start /\ x.end = k + 1 /\ x.menu = <<>> /\ x.status = kVoid
      BY <3>3, <3>4 DEF Segment
    <3> HIDE DEF x
    <3>6. x.start <= x.end /\ x.end <= Len(text) /\ Sound(x, Len(rest), text, X)
      BY <3>2, <3>3, <3>5, <2>1, <1>2, VoidIsSound
    <3>7. Whole(r, text, X)
      BY <3>5, <3>6, <2>3, <2>6, <1>1, ReplacedWhole
    <3>8. Len(r) = Len(rest) /\ Last(r) = x /\ r # <<>> /\ \A i \in 1..Len(rest) - 1 : r[i] = rest[i]
      BY <3>5, <2>4, <2>6, LastReplaced
    <3>9. Keeps(segs, r)
      <4> SUFFICES ASSUME NEW i \in 1..Len(segs) - 1, Lasting(segs[i])
                   PROVE  i \in 1..Len(r) - 1 /\ r[i] = segs[i]
        BY DEF Keeps
      <4>1. i \in 1..Len(rest) /\ rest[i] = segs[i]
        BY <2>3, <2>4, <2>5, <1>1
      <4>2. i # Len(rest)
        BY <4>1, <3>2, <2>6 DEF Lasting
      <4> QED BY <4>1, <4>2, <3>8, <2>4
    <3> HIDE DEF r
    <3> QED BY <3>1, <3>7, <3>5, <3>8, <3>9, <2>1, <1>2 DEF CurrentEnd
  <2>7. CASE ~(rest # <<>> /\ "raw" \in Last(rest).tags)
    <3> DEFINE f == Forward(rest)
               x == NewSegment(k, k + 1, {"raw"})
               r == AddSegment(f, x)
    <3>1. FallbackProceed(segs, text) = r
      BY <1>5, <2>7 DEF FallbackProceed, rest
    <3>2. /\ Whole(f, text, X) /\ CurrentEnd(f) = k /\ CurrentStart(f) = k
          /\ rest # <<>> => Len(f) = Len(rest) + 1
          /\ Len(f) >= Len(rest) /\ \A i \in 1..Len(rest) : f[i] = rest[i]
      <4>1. Whole(rest, text, X)
        BY <2>3
      <4>2. /\ Whole(f, text, X) /\ CurrentEnd(f) = CurrentEnd(rest) /\ CurrentStart(f) = CurrentEnd(rest)
            /\ rest # <<>> /\ ~IsEmpty(Last(rest)) => Len(f) = Len(rest) + 1
            /\ Len(f) >= Len(rest) /\ \A i \in 1..Len(rest) : f[i] = rest[i]
        <5>1. Whole(Forward(rest), text, X)
          BY <4>1, ForwardWhole
        <5>2. CurrentEnd(Forward(rest)) = CurrentEnd(rest)
          BY <4>1, ForwardWhole
        <5>3. CurrentStart(Forward(rest)) = CurrentEnd(rest)
          BY <4>1, ForwardWhole
        <5>4. Len(Forward(rest)) >= Len(rest)
          BY <4>1, ForwardWhole
        <5> QED BY <5>1, <5>2, <5>3, <4>1, ForwardAdds, <5>4, ForwardWhole DEF Whole
      <4> HIDE DEF f
      <4> QED BY <4>2, <2>3
    <3>3. /\ x \in Segment /\ x.start = k /\ x.end = k + 1 /\ x.menu = <<>> /\ x.status = kVoid
      BY <1>2, <2>1, NewIsSegment DEF Tags
    <3> HIDE DEF x, f
    <3>4. /\ Whole(r, text, X) /\ CurrentEnd(r) >= x.end /\ Keeps(f, r)
      BY <3>2, <3>3, <2>1, <1>2, AddSegmentWhole
    <3>5. Keeps(segs, f)
      <4> SUFFICES ASSUME NEW i \in 1..Len(segs) - 1 PROVE i \in 1..Len(f) - 1 /\ f[i] = segs[i]
        BY DEF Keeps
      <4>1. i \in 1..Len(rest) /\ rest[i] = segs[i]
        BY <2>3, <2>4, <2>5, <1>1
      <4>2. rest # <<>>
        BY <4>1, <2>4, Ends
      <4> QED BY <4>1, <4>2, <3>2, <2>4
    <3>6. Keeps(segs, r)
      BY <3>4, <3>5, KeepsTrans
    <3> HIDE DEF r
    <3> QED BY <3>1, <3>4, <3>6, EndOf, <3>3, <1>2, <2>1 DEF Whole
  <2> QED BY <2>6, <2>7
<1> QED BY <1>4, <1>5

(* A round that is not the last leaves an empty segment where its own      *)
(* ended, further on than it began; the last has come to the caret.        *)
LEMMA AfterRoundWhole ==
    ASSUME NEW text \in Texts, NEW X, NEW segs, Whole(segs, text, X),
           NEW start \in Nat, start < CurrentEnd(segs), NEW caret \in 0..Len(text)
    PROVE  LET round == AfterRound(start, segs, text, caret)
           IN  /\ Whole(round.segs, text, X) /\ Keeps(segs, round.segs)
               /\ round.more \in BOOLEAN
               /\ round.more => ~HasFinished(round.segs, text) /\ CurrentStart(round.segs) > start
               /\ ~round.more => CurrentEnd(round.segs) >= caret
<1> DEFINE round == AfterRound(start, segs, text, caret)
<1>1. CurrentEnd(segs) \in Nat /\ Len(text) \in Nat /\ caret <= Len(text)
  BY EndOf, TextIsSeq DEF Whole
<1>2. CASE start = CurrentEnd(segs) \/ start >= caret \/ HasFinished(segs, text)
  BY <1>2, <1>1 DEF Keeps, AfterRound, HasFinished
<1>3. CASE ~(start = CurrentEnd(segs) \/ start >= caret \/ HasFinished(segs, text))
  <2>1. Whole(Forward(segs), text, X)
    BY ForwardWhole
  <2>2. Keeps(segs, Forward(segs))
    BY ForwardWhole
  <2>3. CurrentEnd(Forward(segs)) = CurrentEnd(segs)
    BY ForwardWhole
  <2> QED BY <1>3, <2>1, <2>2, <2>3, ForwardWhole, <1>1 DEF HasFinished, AfterRound
<1> QED BY <1>2, <1>3

(* The state of the rounds, after n of them, that began with segs0.        *)
RoundOK(round, segs0, n, text, caret, X) ==
    /\ Whole(round.segs, text, X) /\ Keeps(segs0, round.segs)
    /\ round.more \in BOOLEAN
    /\ round.more => ~HasFinished(round.segs, text) /\ CurrentStart(round.segs) >= n
    /\ ~round.more => CurrentEnd(round.segs) >= caret

LEMMA NextRoundOK ==
    ASSUME NEW text \in Texts, NEW X, NEW segs0, NEW caret \in 0..Len(text),
           NEW round, NEW n \in Nat, RoundOK(round, segs0, n, text, caret, X)
    PROVE  RoundOK(NextRound(round, text, caret), segs0, n + 1, text, caret, X)
<1> DEFINE s == round.segs
           abc == AbcProceed(s, text)
           asked == FallbackProceed(abc, text)
<1>1. CASE ~round.more
  BY <1>1 DEF RoundOK, NextRound
<1>2. CASE round.more
  <2>1. Whole(s, text, X) /\ Keeps(segs0, s) /\ ~HasFinished(s, text) /\ CurrentStart(s) >= n
    BY <1>2 DEF RoundOK
  <2>2. /\ Whole(abc, text, X) /\ CurrentStart(abc) = CurrentStart(s) /\ Keeps(s, abc)
    BY <2>1, AbcWhole
  <2>3. CurrentStart(s) \in Nat /\ CurrentEnd(s) \in Nat /\ Len(text) \in Nat
    BY <2>1, EndOf, TextIsSeq DEF Whole
  <2>4. CurrentStart(s) <= CurrentEnd(s)
    <3>1. CASE s = <<>>
      BY <3>1 DEF CurrentStart, CurrentEnd
    <3>2. CASE s # <<>>
      BY <3>2, <2>1, Ends, EndOf DEF Whole, Chained
    <3> QED BY <3>1, <3>2
  <2> HIDE DEF s, abc
  <2>5. /\ Whole(asked, text, X) /\ CurrentEnd(asked) > CurrentStart(s) /\ Keeps(abc, asked)
    BY <2>2, <2>1, <2>3, <2>4, FallbackWhole DEF HasFinished
  <2>6. NextRound(round, text, caret) = AfterRound(CurrentStart(s), asked, text, caret)
    BY <1>2 DEF NextRound, s, abc
  <2> HIDE DEF asked
  <2> DEFINE next == AfterRound(CurrentStart(s), asked, text, caret)
  <2>7. /\ Whole(next.segs, text, X) /\ Keeps(asked, next.segs)
        /\ next.more \in BOOLEAN
        /\ next.more => ~HasFinished(next.segs, text) /\ CurrentStart(next.segs) > CurrentStart(s)
        /\ ~next.more => CurrentEnd(next.segs) >= caret
    BY <2>5, EndOf, <2>3, AfterRoundWhole DEF Whole
  <2> HIDE DEF next
  <2>8. next.more => CurrentStart(next.segs) >= n + 1
    <3>1. CurrentStart(next.segs) \in Nat
      BY <2>7, EndOf DEF Whole
    <3> QED BY <3>1, <2>1, <2>3, <2>7
  <2>9. Keeps(segs0, next.segs)
    BY <2>1, <2>2, <2>5, <2>7, KeepsTrans
  <2> QED BY <2>6, <2>7, <2>8, <2>9 DEF RoundOK, next
<1>3. round.more \in BOOLEAN
  BY DEF RoundOK
<1> QED BY <1>1, <1>2, <1>3

LEMMA RoundsUnfold ==
    ASSUME NEW text \in Texts, NEW X, NEW segs, Whole(segs, text, X), NEW caret \in 0..Len(text)
    PROVE  LET rounds == Rounds(segs, text, caret)
               first == [segs |-> segs, more |-> ~HasFinished(segs, text)]
           IN  /\ RoundOK(first, segs, 0, text, caret, X)
               /\ rounds = [n \in Nat |-> IF n = 0 THEN first ELSE NextRound(rounds[n - 1], text, caret)]
<1> DEFINE first == [segs |-> segs, more |-> ~HasFinished(segs, text)]
           S == {r \in [segs : Seq(Segment), more : BOOLEAN] :
                    \E n \in Nat : RoundOK(r, segs, n, text, caret, X)}
           step == [r \in S |-> NextRound(r, text, caret)]
<1>1. RoundOK(first, segs, 0, text, caret, X)
  <2>1. first.segs = segs /\ first.more = ~HasFinished(segs, text)
    OBVIOUS
  <2> HIDE DEF first
  <2>2. CurrentStart(segs) \in Nat /\ CurrentEnd(segs) \in Nat /\ Len(text) \in Nat
    BY EndOf, TextIsSeq DEF Whole
  <2>3. ~HasFinished(segs, text) \/ CurrentEnd(segs) >= caret
    BY <2>2 DEF HasFinished
  <2>4. first.more => ~HasFinished(segs, text)
    BY <2>1, Zenon
  <2>5. ~first.more => CurrentEnd(segs) >= caret
    BY <2>1, <2>3, Zenon
  <2> QED BY <2>1, <2>2, <2>4, <2>5 DEF RoundOK, HasFinished, Keeps
<1>2. first \in S
  BY <1>1 DEF Whole
<1>3. step \in [S -> S]
  <2> SUFFICES ASSUME NEW r \in S PROVE NextRound(r, text, caret) \in S
    OBVIOUS
  <2>1. PICK n \in Nat : RoundOK(r, segs, n, text, caret, X)
    OBVIOUS
  <2>2. n + 1 \in Nat /\ RoundOK(NextRound(r, text, caret), segs, n + 1, text, caret, X)
    BY <2>1, NextRoundOK
  <2>3. NextRound(r, text, caret) \in [segs : Seq(Segment), more : BOOLEAN]
    <3>1. r \in [segs : Seq(Segment), more : BOOLEAN]
      OBVIOUS
    <3> HIDE DEF S
    <3> QED BY <2>2, <3>1 DEF NextRound, AfterRound, RoundOK, Whole
  <2> QED BY <2>2, <2>3
<1>4. \E f : f = [n \in Nat |-> IF n = 0 THEN first ELSE NextRound(f[n - 1], text, caret)]
  <2>1. PICK f \in [Nat -> S] : IsRun(f, step, first)
    <3> HIDE DEF S, step, first
    <3> QED BY <1>2, <1>3, Iterates
  <2>2. ASSUME NEW n \in Nat PROVE f[n + 1] = NextRound(f[n], text, caret)
    <3> HIDE DEF S
    <3> QED BY <2>1 DEF IsRun
  <2> HIDE DEF S, step, first
  <2>3. ASSUME NEW n \in Nat PROVE f[n] = IF n = 0 THEN first ELSE NextRound(f[n - 1], text, caret)
    BY <2>1, <2>2 DEF IsRun
  <2> QED BY <2>3
<1>5. Rounds(segs, text, caret)
        = CHOOSE f : f = [n \in Nat |-> IF n = 0 THEN first ELSE NextRound(f[n - 1], text, caret)]
  BY Zenon DEF Rounds
<1>6. Rounds(segs, text, caret) = [n \in Nat |->
         IF n = 0 THEN first ELSE NextRound(Rounds(segs, text, caret)[n - 1], text, caret)]
  <2> HIDE DEF first
  <2> QED BY <1>4, <1>5, Zenon
<1> QED BY <1>1, <1>6

LEMMA SegmentedWhole ==
    ASSUME NEW text \in Texts, NEW X, NEW segs, Whole(segs, text, X), NEW caret \in 0..Len(text)
    PROVE  /\ Whole(Segmented(segs, text, caret), text, X)
           /\ CurrentEnd(Segmented(segs, text, caret)) >= caret
           /\ Keeps(segs, Segmented(segs, text, caret))
<1> DEFINE rounds == Rounds(segs, text, caret)
           first == [segs |-> segs, more |-> ~HasFinished(segs, text)]
           Broken == {n \in Nat : ~RoundOK(rounds[n], segs, n, text, caret, X)}
<1>1. /\ RoundOK(first, segs, 0, text, caret, X)
      /\ rounds = [n \in Nat |-> IF n = 0 THEN first ELSE NextRound(rounds[n - 1], text, caret)]
  BY RoundsUnfold
<1> HIDE DEF rounds, first
<1>2. Broken = {}
  <2> SUFFICES ASSUME Broken # {} PROVE FALSE
    OBVIOUS
  <2>1. PICK n \in Broken : \A m \in Broken : n <= m
    BY LeastOf
  <2>2. n # 0
    BY <1>1
  <2>3. n - 1 \in Nat /\ n - 1 \notin Broken /\ n \in Nat /\ n - 1 + 1 = n
    BY <2>1, <2>2
  <2>4. rounds[n] = NextRound(rounds[n - 1], text, caret)
    BY <1>1, <2>2, <2>3
  <2> QED BY <2>3, NextRoundOK, <2>4
<1> DEFINE n == Len(text)
<1>3. n \in Nat
  BY TextIsSeq
<1>4. RoundOK(rounds[n], segs, n, text, caret, X)
  BY <1>2, <1>3
<1>5. ~rounds[n].more
  <2> SUFFICES ASSUME rounds[n].more PROVE FALSE
    OBVIOUS
  <2> DEFINE s == rounds[n].segs
  <2>1. Whole(s, text, X) /\ ~HasFinished(s, text) /\ CurrentStart(s) >= n
    BY <1>4 DEF RoundOK
  <2>2. CurrentStart(s) \in Nat /\ CurrentEnd(s) \in Nat /\ CurrentEnd(s) < n
    BY <2>1, <1>3, EndOf DEF Whole, HasFinished
  <2> HIDE DEF s
  <2>3. s # <<>>
    BY <2>1, <2>2 DEF CurrentStart, CurrentEnd
  <2>4. Len(s) \in DOMAIN s
    BY <2>1, <2>3, Ends DEF Whole
  <2>5. s[Len(s)].start <= s[Len(s)].end
    BY <2>1, <2>4 DEF Whole, Chained
  <2>6. CurrentStart(s) <= CurrentEnd(s)
    BY <2>1, <2>3, <2>5, EndOf DEF Whole
  <2> QED BY <2>1, <2>2, <2>6, <1>3
<1> QED BY <1>4, <1>5 DEF RoundOK, Segmented, rounds

LEMMA ForwardIfChosenWhole ==
    ASSUME NEW text \in Texts, NEW X, NEW segs, Whole(segs, text, X)
    PROVE  /\ Whole(ForwardIfChosen(segs), text, X)
           /\ CurrentEnd(ForwardIfChosen(segs)) = CurrentEnd(segs)
           /\ LET new == ForwardIfChosen(segs)
              IN  new # <<>> /\ Last(new).status >= kSelected => IsEmpty(Last(new))
           /\ \A i \in 1..Len(segs) : ForwardIfChosen(segs)[i] = segs[i]
           /\ Len(ForwardIfChosen(segs)) >= Len(segs)
<1>1. CASE segs # <<>> /\ Last(segs).status >= kSelected
  <2>1. ForwardIfChosen(segs) = Forward(segs)
    BY <1>1 DEF ForwardIfChosen
  <2>2. Whole(Forward(segs), text, X)
    BY ForwardWhole
  <2>3. CurrentEnd(Forward(segs)) = CurrentEnd(segs)
    BY ForwardWhole
  <2> QED BY <2>1, <2>2, <2>3, ForwardWhole
<1>2. CASE ~(segs # <<>> /\ Last(segs).status >= kSelected)
  BY <1>2, Ends DEF Whole, ForwardIfChosen
<1> QED BY <1>1, <1>2

(* The composition reaches the caret.  The last segment is not chosen,     *)
(* unless it is empty.                                                     *)
LEMMA CalculateWhole ==
    ASSUME NEW text \in Texts, NEW X, NEW segs, Whole(segs, text, X), NEW caret \in 0..Len(text)
    PROVE  LET new == CalculateSegmentation(segs, text, caret)
           IN  /\ Whole(new, text, X)
               /\ CurrentEnd(new) >= caret
               /\ new # <<>> /\ Last(new).status >= kSelected => IsEmpty(Last(new))
               /\ Keeps(segs, new)
<1> DEFINE s == Segmented(segs, text, caret)
           t == Trim(s)
           new == ForwardIfChosen(t)
<1>1. Whole(s, text, X) /\ CurrentEnd(s) >= caret /\ Keeps(segs, s)
  BY SegmentedWhole
<1> HIDE DEF s
<1>2. /\ Whole(t, text, X) /\ CurrentEnd(t) = CurrentEnd(s)
      /\ t # <<>> => ~IsEmpty(Last(t))
      /\ Len(t) = IF CanTrim(s) THEN Len(s) - 1 ELSE Len(s)
      /\ \A i \in 1..Len(t) : t[i] = s[i]
  BY <1>1, TrimWhole, ZenonT(30)
<1> HIDE DEF t
<1>3. /\ Whole(new, text, X) /\ CurrentEnd(new) = CurrentEnd(t)
      /\ new # <<>> /\ Last(new).status >= kSelected => IsEmpty(Last(new))
      /\ \A i \in 1..Len(t) : new[i] = t[i]
      /\ Len(new) >= Len(t)
  <2>1. Whole(new, text, X)
    BY <1>2, ForwardIfChosenWhole
  <2>2. CurrentEnd(new) = CurrentEnd(t)
    BY <1>2, ForwardIfChosenWhole
  <2>3. new # <<>> /\ Last(new).status >= kSelected => IsEmpty(Last(new))
    BY <1>2, ForwardIfChosenWhole
  <2>4. \A i \in 1..Len(t) : new[i] = t[i]
    BY <1>2, ForwardWhole DEF ForwardIfChosen
  <2>5. Len(new) >= Len(t)
    BY <1>2, ForwardIfChosenWhole
  <2> HIDE DEF new
  <2> QED BY <2>1, <2>2, <2>3, <2>4, <2>5
<1>4. Len(s) \in Nat /\ Len(t) \in Nat /\ Len(new) \in Nat
  BY <1>1, <1>2, <1>3, Ends DEF Whole
<1>5. CalculateSegmentation(segs, text, caret) = new
  BY DEF CalculateSegmentation, t, s
<1>6. Keeps(segs, new)
  <2> SUFFICES ASSUME NEW i \in 1..Len(segs) - 1, Lasting(segs[i])
               PROVE  i \in 1..Len(new) - 1 /\ new[i] = segs[i]
    BY <1>5 DEF Keeps
  <2>1. i \in 1..Len(t) /\ t[i] = segs[i] /\ new[i] = segs[i]
    BY <1>1, <1>2, <1>3, <1>4 DEF Keeps
  <2>2. i # Len(new)
    <3> SUFFICES ASSUME i = Len(new) PROVE FALSE
      OBVIOUS
    <3>1. i = Len(t)
      BY <2>1, <1>3, <1>4
    <3> HIDE DEF new
    <3>2. t \in Seq(Segment) /\ new \in Seq(Segment)
      BY <1>2, <1>3 DEF Whole
    <3>3. t # <<>> /\ Last(t) = t[Len(t)]
      BY <3>2, <2>1, <1>4, Ends
    <3> QED BY <3>2, <2>1, <1>3, <1>4, Ends, <3>3, <3>1, <1>2 DEF Lasting
  <2> HIDE DEF new
  <2> QED BY <2>1, <2>2, <1>3, <1>4
<1> HIDE DEF new
<1> QED BY <1>1, <1>2, <1>3, <1>5, <1>6

------------------------------------------------------------------------------
(* Translation: no segment is left void, and what is chosen stays.         *)

LEMMA NoPart ==
    ASSUME NEW text \in Texts, NEW n \in Nat, n <= Len(text)
    PROVE  SubSeq(text, n + 1, n) = <<>>
BY TextIsSeq, Part, Ends

Translated(segs, new) ==
    /\ Len(new) = Len(segs) /\ CurrentEnd(new) = CurrentEnd(segs)
    /\ \A i \in 1..Len(segs) :
        /\ new[i].status >= kGuess
        /\ segs[i].status >= kGuess => new[i] = segs[i]
        /\ segs[i].status < kGuess => new[i].status = kGuess
        /\ new[i].start = segs[i].start /\ new[i].end = segs[i].end

LEMMA TranslateWhole ==
    ASSUME NEW text \in Texts, NEW X, NEW segs, Whole(segs, text, X)
    PROVE  /\ Whole(TranslateSegments(segs, text), text, X)
           /\ Translated(segs, TranslateSegments(segs, text))
<1> DEFINE new == TranslateSegments(segs, text)
           n == Len(segs)
           Made(i) == [segs[i] EXCEPT !.status = kGuess, !.menu = Covered(text, segs[i]), !.index = 0]
<1>1. n = Len(segs)
  OBVIOUS
<1>2. segs \in Seq(Segment) /\ Chained(segs, Len(text)) /\ \A i \in DOMAIN segs : Sound(segs[i], i, text, X)
  BY DEF Whole
<1>3. n \in Nat /\ DOMAIN segs = 1..n /\ \A i \in 1..n : segs[i] \in Segment
  BY <1>2, Ends
<1>4. new = [i \in 1..n |-> IF segs[i].status >= kGuess THEN segs[i] ELSE Made(i)]
  BY <1>3 DEF TranslateSegments
<1> HIDE DEF n, new
<1>5. ASSUME NEW i \in 1..n
      PROVE  /\ segs[i].start = IF i = 1 THEN 0 ELSE segs[i - 1].end
             /\ segs[i].start <= segs[i].end
             /\ IsEmpty(segs[i]) => i = n /\ segs[i].menu = <<>>
             /\ segs[i].start \in Nat /\ segs[i].end \in Nat /\ segs[i].status \in kVoid..kConfirmed
  BY <1>1, <1>2, <1>3 DEF Chained, Segment
<1>6. ASSUME NEW i \in 1..n PROVE segs[i].end <= Len(text)
  <2>1. n \in 1..n
    BY <1>3
  <2>2. segs[n].end <= Len(text)
    BY <2>1, <1>1, <1>2, <1>3, Ends, EndOf DEF Chained
  <2>3. i < n => segs[i].end <= segs[n].start
    BY <2>1, <1>2, <1>3 DEF Chained
  <2> QED BY <2>1, <2>2, <2>3, <1>3, TextIsSeq, <1>5
<1>7. ASSUME NEW i \in 1..n
      PROVE  /\ Made(i) \in Segment /\ Made(i).status = kGuess
             /\ Made(i).start = segs[i].start /\ Made(i).end = segs[i].end
             /\ Made(i).menu = Covered(text, Made(i))
             /\ IsEmpty(Made(i)) => Made(i).menu = <<>>
  <2>1. Covered(text, segs[i]) \in Texts
    BY <1>5, <1>6, PartIsText DEF Covered
  <2>2. /\ Made(i) \in Segment /\ Made(i).status = kGuess
        /\ Made(i).start = segs[i].start /\ Made(i).end = segs[i].end
        /\ Made(i).menu = Covered(text, segs[i])
    <3> DEFINE seg == segs[i]
               menu == Covered(text, segs[i])
    <3>1. seg \in Segment /\ menu \in Texts /\ kGuess \in kVoid..kConfirmed /\ 0 \in Nat
      BY <2>1, <1>3
    <3>2. Made(i) = [seg EXCEPT !.status = kGuess, !.menu = menu, !.index = 0]
      OBVIOUS
    <3> HIDE DEF seg, menu, Made
    <3> QED BY <3>1, <3>2 DEF seg, menu, Segment
  <2> HIDE DEF Made
  <2> QED BY <2>2, <1>5, <1>6, NoPart DEF Covered, IsEmpty
<1>8. ASSUME NEW i \in 1..n
      PROVE  /\ new[i] \in Segment /\ new[i].start = segs[i].start /\ new[i].end = segs[i].end
             /\ IsEmpty(new[i]) => i = n /\ new[i].menu = <<>>
             /\ Sound(new[i], i, text, X)
             /\ new[i].status >= kGuess
             /\ segs[i].status >= kGuess => new[i] = segs[i]
             /\ segs[i].status < kGuess => new[i].status = kGuess
  <2>1. CASE segs[i].status >= kGuess
    <3>1. new[i] = segs[i]
      BY <2>1, <1>4
    <3>2. Sound(segs[i], i, text, X)
      BY <1>2, <1>3
    <3> QED BY <2>1, <3>1, <3>2, <1>3, <1>5
  <2>2. CASE ~(segs[i].status >= kGuess)
    <3>1. new[i] = Made(i)
      BY <2>2, <1>4
    <3>2. /\ Made(i) \in Segment /\ Made(i).status = kGuess
          /\ Made(i).start = segs[i].start /\ Made(i).end = segs[i].end
          /\ Made(i).menu = Covered(text, Made(i))
          /\ IsEmpty(Made(i)) => Made(i).menu = <<>>
      BY <1>7
    <3> HIDE DEF Made
    <3> QED BY <3>1, <3>2, <1>5, <2>2 DEF Sound, Fitted, IsEmpty
  <2> QED BY <2>1, <2>2
<1>9. new \in Seq(Segment) /\ Len(new) = n /\ DOMAIN new = 1..n
  <2>1. DOMAIN new = 1..n
    BY <1>4, ZenonT(30)
  <2>2. new \in [1..n -> Segment]
    BY <1>4, <1>8
  <2> QED BY <2>1, <2>2, <1>3, SeqDef, LenProperties
<1>10. CurrentEnd(new) = CurrentEnd(segs)
  BY <1>1, <1>2, <1>9, Ends, <1>8, EndOf
<1>11. ASSUME NEW i \in 1..n
       PROVE  new[i].start = IF i = 1 THEN 0 ELSE new[i - 1].end
  BY <1>3, <1>5, <1>8
<1>12. \A i, j \in 1..n : i < j => new[i].end <= new[j].start
  BY <1>2, <1>3, <1>8 DEF Chained
<1>13. Chained(new, Len(text))
  BY <1>5, <1>8, <1>9, <1>11, <1>12, <1>10, <1>2 DEF Chained
<1>14. Whole(new, text, X)
  BY <1>8, <1>9, <1>13 DEF Whole
<1> QED BY <1>1, <1>8, <1>9, <1>10, <1>14 DEF new, Translated

------------------------------------------------------------------------------
(* What is left of the segments in another text. *)

LEMMA KeptOf ==
    ASSUME NEW old \in Texts, NEW text \in Texts
    PROVE  LET kept == Kept(old, text)
           IN  /\ kept \in 0..Len(old) /\ kept \in 0..Len(text)
               /\ SubSeq(old, 1, kept) = SubSeq(text, 1, kept)
               /\ \A n \in 0..Len(old) :
                   n <= Len(text) /\ SubSeq(old, 1, n) = SubSeq(text, 1, n) => n <= kept
<1> DEFINE S == {n \in 0..Len(old) : n <= Len(text) /\ SubSeq(old, 1, n) = SubSeq(text, 1, n)}
<1>1. Len(old) \in Nat /\ Len(text) \in Nat /\ old \in Seq(Keys) /\ text \in Seq(Keys)
  BY TextIsSeq
<1>2. 0 \in S
  <2>1. 0 \in 0..Len(old) /\ 0 \in 0..Len(text)
    BY <1>1
  <2>2. SubSeq(old, 1, 0) = <<>> /\ SubSeq(text, 1, 0) = <<>>
    BY <2>1, <1>1, Prefix, Ends
  <2> QED BY <2>1, <2>2
<1>3. S \subseteq 0..Len(old) /\ S # {}
  BY <1>2
<1>4. Max(S) \in S /\ \A j \in S : j <= Max(S)
  <2> HIDE DEF S
  <2> QED BY <1>1, <1>3, MaxOf
<1>5. Kept(old, text) \in S /\ \A j \in S : j <= Kept(old, text)
  BY <1>4 DEF Kept
<1> QED BY <1>1, <1>5

LEMMA MovedIsSound ==
    ASSUME NEW old \in Texts, NEW text \in Texts, NEW X, NEW i,
           NEW seg \in Segment, seg.start <= seg.end, Sound(seg, i, old, X),
           NEW k \in 0..Len(old), k <= Len(text), SubSeq(old, 1, k) = SubSeq(text, 1, k),
           seg.end <= k
    PROVE  Sound(seg, i, text, X)
<1>1. old \in Seq(Keys) /\ text \in Seq(Keys) /\ Len(old) \in Nat /\ Len(text) \in Nat
  BY TextIsSeq
<1>2. seg.start \in Nat /\ seg.end \in Nat /\ seg.start + 1 \in Nat \ {0}
  BY DEF Segment
<1>3. ASSUME NEW e \in Int, e <= seg.end
      PROVE  SubSeq(old, seg.start + 1, e) = SubSeq(text, seg.start + 1, e)
  <2> DEFINE m == seg.start + 1
  <2>1. m \in Nat \ {0} /\ e <= k
    BY <1>1, <1>2, <1>3
  <2> HIDE DEF m
  <2>2. SubSeq(old, m, e) = SubSeq(text, m, e)
    BY <2>1, <1>1, SamePart
  <2> QED BY <2>2 DEF m
<1>4. Covered(old, seg) = Covered(text, seg)
  <2>1. seg.end \in Int /\ seg.end <= seg.end
    BY <1>2
  <2> QED BY <2>1, <1>3 DEF Covered
<1>5. ASSUME Fitted(seg, old) PROVE Fitted(seg, text)
  <2>1. ASSUME seg.status >= kSelected, HasCandidate(seg)
        PROVE  /\ CandidateEnd(seg) <= seg.end
               /\ Converted(seg) = SubSeq(text, seg.start + 1, CandidateEnd(seg))
    <3>1. /\ CandidateEnd(seg) <= seg.end
          /\ Converted(seg) = SubSeq(old, seg.start + 1, CandidateEnd(seg))
      BY <1>5, <2>1 DEF Fitted
    <3>2. CandidateEnd(seg) \in Int
      <4>1. Lengths(seg.menu) \in Seq(1..Len(seg.menu)) /\ Len(seg.menu) \in Nat
        BY CandidateAssumption, TextIsSeq DEF Segment
      <4>2. seg.index + 1 \in 1..Len(Lengths(seg.menu))
        <5>1. seg.index \in Nat /\ seg.index < Len(Lengths(seg.menu))
          BY <2>1 DEF HasCandidate, Count, Segment
        <5>2. Len(Lengths(seg.menu)) \in Nat
          BY <4>1, Ends
        <5> QED BY <5>1, <5>2, SMTT(30)
      <4>3. Lengths(seg.menu)[seg.index + 1] \in 1..Len(seg.menu)
        BY <4>1, <4>2, Ends
      <4> QED BY <4>1, <4>3, <1>2, SMTT(30) DEF CandidateEnd, CandidateLength
    <3> QED BY <3>1, <3>2, <1>3
  <2> QED BY <1>4, <1>5, <2>1 DEF Fitted
<1> QED BY <1>5 DEF Sound

LEMMA SubSeqAll ==
    ASSUME NEW S, NEW s \in Seq(S)
    PROVE  SubSeq(s, 1, Len(s)) = s
BY Ends, Prefix, SeqEqual

(* What is kept ends within what both texts begin with; a chosen segment   *)
(* that ends there is kept.                                                *)
LEMMA ResetWhole ==
    ASSUME NEW old \in Texts, NEW text \in Texts, NEW X, NEW segs, Whole(segs, old, X)
    PROVE  /\ Whole(Reset(segs, old, text), text, X)
           /\ \A i \in 1..Len(segs) - 1 : Lasting(segs[i]) /\ segs[i].end <= Kept(old, text)
                => i \in 1..Len(Reset(segs, old, text)) - 1 /\ Reset(segs, old, text)[i] = segs[i]
<1> DEFINE kept == Kept(old, text)
           n == Len(segs)
           S == {k \in 0..n : k = 0 \/ segs[k].end <= kept}
           m == Max(S)
           p == SubSeq(segs, 1, m)
<1>1. n = Len(segs) /\ m = Max(S)
  OBVIOUS
<1>2. Len(old) \in Nat /\ Len(text) \in Nat
  BY TextIsSeq
<1>3. kept \in 0..Len(old) /\ kept \in 0..Len(text) /\ SubSeq(old, 1, kept) = SubSeq(text, 1, kept)
  BY KeptOf
<1>4. segs \in Seq(Segment) /\ Chained(segs, Len(old)) /\ \A i \in DOMAIN segs : Sound(segs[i], i, old, X)
  BY DEF Whole
<1>5. n \in Nat /\ DOMAIN segs = 1..n /\ \A i \in 1..n : segs[i] \in Segment
  BY <1>4, Ends
<1>6. m \in S /\ \A j \in S : j <= m
  <2>1. S \subseteq 0..n
    OBVIOUS
  <2>2. S # {}
    BY <1>5
  <2> HIDE DEF S, n
  <2> QED BY <2>1, <2>2, <1>5, MaxOf
<1>7. Reset(segs, old, text) = Dropped(segs, m)
  BY DEF Reset
<1>8. m \in 0..n /\ (m = 0 \/ segs[m].end <= kept)
  BY <1>6
<1>9. \A j \in 1..n : segs[j].end <= kept => j <= m
  BY <1>5, <1>6
<1> HIDE DEF kept, n, S, m
<1>10. ASSUME NEW i \in 1..m
       PROVE  i \in 1..n /\ segs[i].start <= segs[i].end /\ segs[i].end <= kept
  <2>1. i \in 1..n /\ m \in 1..n
    BY <1>5, <1>8
  <2>2. segs[i].start <= segs[i].end /\ segs[m].start <= segs[m].end
    BY <2>1, <1>4, <1>5 DEF Chained
  <2>3. segs[i].end \in Nat /\ segs[m].start \in Nat /\ segs[m].end \in Nat
    BY <2>1, <1>5 DEF Segment
  <2>4. i < m => segs[i].end <= segs[m].start
    BY <2>1, <1>4, <1>5 DEF Chained
  <2>5. segs[m].end <= kept
    BY <2>1, <1>8
  <2> QED BY <2>1, <2>2, <2>3, <2>4, <2>5, <1>3
<1>11. ASSUME NEW i \in 1..m PROVE Sound(segs[i], i, text, X)
  BY <1>10, <1>4, <1>5, <1>3, MovedIsSound
<1>12. m = 0 \/ segs[m].end <= Len(text)
  <2>1. m # 0 => m \in 1..m /\ m \in 1..n
    BY <1>5, <1>8
  <2>2. m # 0 => segs[m].end \in Nat
    BY <2>1, <1>5 DEF Segment
  <2> QED BY <2>1, <2>2, <1>2, <1>3, <1>8
<1>13. /\ Whole(p, text, X)
       /\ m # 0 => p # <<>> /\ Last(p) = segs[m]
       /\ m = 0 => p = <<>>
       /\ m # 0 /\ m # n => ~IsEmpty(segs[m])
  <2>1. m \in 0..Len(segs)
    BY <1>1, <1>8
  <2>2. Whole(p, text, X)
    BY <2>1, <1>2, <1>11, <1>12, PrefixWhole
  <2>3. m # 0 => p # <<>>
    BY <2>1, <1>2, <1>11, <1>12, PrefixWhole
  <2>4. m # 0 => Last(p) = segs[m]
    BY <2>1, <1>2, <1>11, <1>12, PrefixWhole
  <2>5. m = 0 => p = <<>>
    BY <2>1, <1>2, <1>11, <1>12, PrefixWhole
  <2>6. m # 0 /\ m # n => ~IsEmpty(segs[m])
    BY <2>1, <1>1, <1>2, <1>11, <1>12, PrefixWhole
  <2> QED BY <2>2, <2>3, <2>5, <2>6, <2>4
<1>14. CASE m = n
  <2>1. p = segs
    BY <1>14, <1>1, <1>4, SubSeqAll
  <2> QED BY <1>14, <1>1, <2>1, <1>7, <1>13 DEF Dropped
<1>15. CASE m # n
  <2> DEFINE f == Forward(p)
  <2>1. Dropped(segs, m) = f
    BY <1>15, <1>1 DEF Dropped
  <2>2. Len(p) = m /\ \A i \in 1..m : p[i] = segs[i]
    BY <1>1, <1>4, <1>8, Prefix
  <2> HIDE DEF p
  <2>3. Whole(f, text, X)
    BY <1>13, ForwardWhole
  <2>4. \A i \in 1..Len(p) : f[i] = p[i]
    BY <1>13, ForwardWhole
  <2>5. ASSUME NEW i \in 1..n - 1, segs[i].end <= kept PROVE i \in 1..Len(f) - 1 /\ f[i] = segs[i]
    <3>1. i <= m /\ m # 0 /\ i \in 1..m /\ m \in Nat
      BY <1>5, <2>5, <1>8, <1>9
    <3>2. i \in 1..Len(f) - 1
      BY <3>1, <2>2, <1>13, ForwardAdds, <1>15 DEF Whole
    <3> QED BY <3>1, <2>2, <2>4, <3>2
  <2> HIDE DEF f
  <2> QED BY <2>1, <2>3, <2>5, <1>1, <1>7 DEF kept
<1> QED BY <1>14, <1>15

------------------------------------------------------------------------------
(* The context.  Between the steps of a handler it is Good: its segments   *)
(* lie in order in what was last composed, and fit it but for those in X.  *)
(* Composed, it also reaches the caret and has no void segment; between    *)
(* two keys it is Resting.                                                 *)

IsContext(c) ==
    c = [input |-> c.input, caret |-> c.caret, active |-> c.active, segs |-> c.segs, sent |-> c.sent]

InFull(s) == s.caret = Len(s.typed) /\ ~s.loose => s.text = s.typed
SentInFull(sent) == \E S : sent \in Seq(S) /\ \A s \in S : InFull(s)

Good(c, X) ==
    /\ IsContext(c)
    /\ c.input \in Texts /\ c.active \in Texts
    /\ c.caret \in 0..Len(c.input)
    /\ Whole(c.segs, c.active, X)
    /\ SentInFull(c.sent)

Follows(c) == c.active \in {c.input, SubSeq(c.input, 1, c.caret)}
LastIsOpen(segs) == segs # <<>> /\ Last(segs).status >= kSelected => IsEmpty(Last(segs))
VoidIsEmpty(segs) == \A i \in DOMAIN segs : segs[i].status = kVoid => IsEmpty(segs[i])

(* What a commit may be made of. *)
Standing(c) == Good(c, {}) /\ Follows(c) /\ VoidIsEmpty(c.segs)
Resting(c) == Standing(c) /\ CurrentEnd(c.segs) >= c.caret /\ LastIsOpen(c.segs)

Composed(c, X) ==
    /\ Good(c, X) /\ Follows(c)
    /\ \A i \in DOMAIN c.segs : c.segs[i].status >= kGuess
    /\ CurrentEnd(c.segs) >= c.caret /\ LastIsOpen(c.segs)

LEMMA ComposedRests ==
    ASSUME NEW c, Composed(c, {})
    PROVE  Resting(c)
BY DEF Composed, Resting, Standing, VoidIsEmpty, Good

LEMMA ResetToGood ==
    ASSUME NEW c, NEW X, Good(c, X), NEW text \in Texts
    PROVE  LET d == ResetTo(c, text)
           IN  /\ Good(d, X) /\ d.active = text
               /\ d.input = c.input /\ d.caret = c.caret /\ d.sent = c.sent
               /\ d.segs = Reset(c.segs, c.active, text)
<1> DEFINE d == ResetTo(c, text)
<1>1. IsContext(c) /\ c.input \in Texts /\ c.active \in Texts /\ c.caret \in 0..Len(c.input)
      /\ Whole(c.segs, c.active, X) /\ SentInFull(c.sent)
  BY DEF Good
<1>2. /\ IsContext(d) /\ d.active = text /\ d.segs = Reset(c.segs, c.active, text)
      /\ d.input = c.input /\ d.caret = c.caret /\ d.sent = c.sent
  <2> DEFINE r == Reset(c.segs, c.active, text)
  <2>1. d = [c EXCEPT !.segs = r, !.active = text]
    BY DEF ResetTo
  <2> HIDE DEF r, d
  <2> QED BY <2>1, <1>1 DEF IsContext, r
<1> HIDE DEF d
<1> QED BY <1>1, <1>2, ResetWhole DEF Good, d

LEMMA ConvertGood ==
    ASSUME NEW c, NEW X, Good(c, X), c.caret <= Len(c.active)
    PROVE  LET d == Convert(c)
           IN  /\ Good(d, X) /\ d.active = c.active
               /\ d.input = c.input /\ d.caret = c.caret /\ d.sent = c.sent
               /\ CurrentEnd(d.segs) >= d.caret /\ LastIsOpen(d.segs)
               /\ \A i \in DOMAIN d.segs : d.segs[i].status >= kGuess
               /\ Keeps(c.segs, d.segs)
<1> DEFINE s == CalculateSegmentation(c.segs, c.active, c.caret)
           t == TranslateSegments(s, c.active)
           d == Convert(c)
<1>1. IsContext(c) /\ c.input \in Texts /\ c.active \in Texts /\ c.caret \in 0..Len(c.input)
      /\ Whole(c.segs, c.active, X) /\ SentInFull(c.sent)
  BY DEF Good
<1>2. /\ Whole(s, c.active, X) /\ CurrentEnd(s) >= c.caret /\ Keeps(c.segs, s)
      /\ s # <<>> /\ Last(s).status >= kSelected => IsEmpty(Last(s))
  BY <1>1, TextIsSeq, CalculateWhole
<1>3. /\ IsContext(d) /\ d.active = c.active /\ d.segs = t
      /\ d.input = c.input /\ d.caret = c.caret /\ d.sent = c.sent
  BY <1>1 DEF IsContext, Convert
<1> HIDE DEF s, d
<1>4. /\ Whole(t, c.active, X) /\ Len(t) = Len(s) /\ CurrentEnd(t) = CurrentEnd(s)
      /\ \A i \in 1..Len(s) :
          /\ t[i].status >= kGuess
          /\ s[i].status >= kGuess => t[i] = s[i]
          /\ s[i].status < kGuess => t[i].status = kGuess
          /\ t[i].start = s[i].start /\ t[i].end = s[i].end
  <2>1. Whole(t, c.active, X) /\ Translated(s, t)
    BY <1>1, <1>2, TranslateWhole
  <2> HIDE DEF t
  <2> QED BY <2>1 DEF Translated
<1> HIDE DEF t
<1>5. /\ s \in Seq(Segment) /\ t \in Seq(Segment) /\ Len(s) \in Nat /\ DOMAIN t = 1..Len(t)
      /\ \A i \in 1..Len(s) : s[i].status \in kVoid..kConfirmed
      /\ Last(s) = s[Len(s)] /\ Last(t) = t[Len(t)]
      /\ (s # <<>> <=> Len(s) > 0) /\ (t # <<>> <=> Len(t) > 0)
  <2>1. s \in Seq(Segment) /\ t \in Seq(Segment)
    BY <1>2, <1>4 DEF Whole
  <2>2. \A i \in 1..Len(s) : s[i] \in Segment
    BY <2>1, Ends
  <2> QED BY <2>1, <2>2, Ends DEF Segment
<1>6. Keeps(s, t)
  <2> SUFFICES ASSUME NEW i \in 1..Len(s) - 1, Lasting(s[i]) PROVE i \in 1..Len(t) - 1 /\ t[i] = s[i]
    BY DEF Keeps
  <2> QED BY <1>5, <1>4 DEF Lasting
<1>7. LastIsOpen(t)
  <2> SUFFICES ASSUME t # <<>>, Last(t).status >= kSelected PROVE IsEmpty(Last(t))
    BY DEF LastIsOpen
  <2>1. Len(s) \in 1..Len(s) /\ Last(t) = t[Len(s)] /\ s # <<>>
    BY <1>4, <1>5
  <2> QED BY <2>1, <1>4, <1>5, <1>2
<1> QED BY <1>1, <1>2, <1>3, <1>4, <1>5, <1>6, KeepsTrans, <1>7 DEF Good, d

LEMMA PastCaretGood ==
    ASSUME NEW c, NEW X, Good(c, X), c.active = SubSeq(c.input, 1, c.caret)
    PROVE  LET d == PastCaret(c)
           IN  /\ Good(d, X) /\ Follows(d)
               /\ d.input = c.input /\ d.caret = c.caret /\ d.sent = c.sent
               /\ d.caret <= Len(d.active)
<1> DEFINE d == PastCaret(c)
<1>1. c.input \in Texts /\ c.caret \in 0..Len(c.input) /\ Len(c.input) \in Nat /\ c.input \in Seq(Keys)
  BY TextIsSeq DEF Good
<1>2. CASE c.caret < Len(c.input) /\ c.caret = ConfirmedPosition(c.segs)
  <2> HIDE DEF d
  <2> QED BY <1>2, <1>1, ResetToGood DEF d, Follows, PastCaret
<1>3. CASE ~(c.caret < Len(c.input) /\ c.caret = ConfirmedPosition(c.segs))
  BY <1>3, <1>1, Prefix DEF Follows, PastCaret
<1> QED BY <1>2, <1>3

LEMMA ComposeGood ==
    ASSUME NEW c, NEW X, Good(c, X)
    PROVE  /\ Composed(Compose(c), X)
           /\ Compose(c).input = c.input /\ Compose(c).caret = c.caret /\ Compose(c).sent = c.sent
<1> DEFINE p == SubSeq(c.input, 1, c.caret)
           c1 == ResetTo(c, p)
           c2 == PastCaret(c1)
           d == Convert(c2)
<1>1. p \in Texts
  BY TextIsSeq, PartIsText DEF Good
<1>2. /\ Good(c1, X) /\ c1.active = p
      /\ c1.input = c.input /\ c1.caret = c.caret /\ c1.sent = c.sent
  <2> HIDE DEF p
  <2> QED BY <1>1, ResetToGood
<1> HIDE DEF c1
<1>3. /\ Good(c2, X) /\ Follows(c2)
      /\ c2.input = c1.input /\ c2.caret = c1.caret /\ c2.sent = c1.sent
      /\ c2.caret <= Len(c2.active)
  BY <1>2, PastCaretGood
<1> HIDE DEF c2
<1>4. /\ Good(d, X) /\ d.active = c2.active
      /\ d.input = c2.input /\ d.caret = c2.caret /\ d.sent = c2.sent
      /\ CurrentEnd(d.segs) >= d.caret /\ LastIsOpen(d.segs)
      /\ \A i \in DOMAIN d.segs : d.segs[i].status >= kGuess
  BY <1>3, ConvertGood
<1> HIDE DEF d
<1>5. Compose(c) = d
  BY DEF Compose, c1, c2, d
<1> QED BY <1>2, <1>3, <1>4, <1>5 DEF Composed, Follows

------------------------------------------------------------------------------
(* The operations on the input. *)

WithInput(c, text, p) == [c EXCEPT !.input = text, !.caret = p]

LEMMA WithInputGood ==
    ASSUME NEW c, NEW X, Good(c, X), NEW text \in Texts, NEW p \in 0..Len(text)
    PROVE  LET d == WithInput(c, text, p)
           IN  /\ Good(d, X) /\ d.input = text /\ d.caret = p
               /\ d.active = c.active /\ d.segs = c.segs /\ d.sent = c.sent
<1> DEFINE d == WithInput(c, text, p)
<1>1. d = [c EXCEPT !.input = text, !.caret = p]
  BY DEF WithInput
<1> HIDE DEF d
<1>2. IsContext(c) /\ c.active \in Texts /\ Whole(c.segs, c.active, X) /\ SentInFull(c.sent)
  BY DEF Good
<1>3. /\ IsContext(d) /\ d.input = text /\ d.caret = p
      /\ d.active = c.active /\ d.segs = c.segs /\ d.sent = c.sent
  BY <1>1, <1>2 DEF IsContext
<1> QED BY <1>2, <1>3 DEF Good, d

LEMMA ChangedRests ==
    ASSUME NEW c, Good(c, {}), NEW text \in Texts, NEW p \in 0..Len(text)
    PROVE  LET d == Compose(WithInput(c, text, p))
           IN  Resting(d) /\ d.input = text /\ d.caret = p /\ d.sent = c.sent
<1> DEFINE e == WithInput(c, text, p)
<1>1. /\ Good(e, {}) /\ e.input = text /\ e.caret = p /\ e.sent = c.sent
  BY WithInputGood
<1> HIDE DEF e
<1> QED BY <1>1, ComposeGood, ComposedRests DEF e

LEMMA SetInputRests ==
    ASSUME NEW c, Good(c, {}), NEW text \in Texts
    PROVE  /\ Resting(SetInput(c, text))
           /\ SetInput(c, text).input = text /\ SetInput(c, text).caret = Len(text)
           /\ SetInput(c, text).sent = c.sent
<1> DEFINE p == Len(text)
<1>1. SetInput(c, text) = Compose(WithInput(c, text, p))
  BY DEF SetInput, WithInput
<1> HIDE DEF p
<1> QED BY TextIsSeq, <1>1, ChangedRests DEF p

LEMMA SetCaretRests ==
    ASSUME NEW c, Good(c, {}), NEW p \in 0..Len(c.input)
    PROVE  /\ Resting(SetCaret(c, p))
           /\ SetCaret(c, p).input = c.input /\ SetCaret(c, p).caret = p
           /\ SetCaret(c, p).sent = c.sent
<1>1. c.input \in Texts /\ IsContext(c)
  BY DEF Good
<1>2. [c EXCEPT !.caret = p] = [c EXCEPT !.input = c.input, !.caret = p]
  BY <1>1 DEF IsContext
<1>3. SetCaret(c, p) = Compose(WithInput(c, c.input, p))
  BY <1>2 DEF SetCaret, WithInput
<1> DEFINE text == c.input
<1> HIDE DEF text
<1> QED BY <1>1, <1>3, ChangedRests DEF text

LEMMA AfterIsText ==
    ASSUME NEW text \in Texts, NEW n \in Nat
    PROVE  /\ After(text, n) \in Texts
           /\ n <= Len(text) => Len(After(text, n)) = Len(text) - n
<1>1. text \in Seq(Keys) /\ Len(text) \in Nat /\ n + 1 \in Nat \ {0} /\ Len(text) <= Len(text)
  BY TextIsSeq
<1> QED BY <1>1, PartIsText, Part DEF After

(* The input with a character put in, and with some taken out. *)
LEMMA ReplacedIsText ==
    ASSUME NEW text \in Texts, NEW n \in 0..Len(text), NEW m \in Nat, n <= m
    PROVE  /\ SubSeq(text, 1, n) \o After(text, m) \in Texts
           /\ n <= Len(SubSeq(text, 1, n) \o After(text, m))
<1>1. text \in Seq(Keys) /\ Len(text) \in Nat /\ Len(text) <= MaxInput
  BY TextIsSeq
<1>2. After(text, m) \in Texts
  BY AfterIsText
<1>3. After(text, m) \in Seq(Keys) /\ Len(After(text, m)) \in Nat
  BY <1>2, TextIsSeq
<1>4. Len(After(text, m)) <= Len(text) - n
  BY <1>1, Part DEF After
<1> DEFINE r == SubSeq(text, 1, n) \o After(text, m)
<1>5. r \in Seq(Keys) /\ Len(r) = n + Len(After(text, m))
  BY <1>1, Prefix, <1>3, ConcatProperties
<1> HIDE DEF r
<1>6. Len(r) \in 0..MaxInput /\ n <= Len(r)
  BY <1>1, <1>3, <1>4, <1>5, EngineAssumption
<1> QED BY <1>5, <1>6, TextIsSeq DEF r

LEMMA PushedIsText ==
    ASSUME NEW text \in Texts, NEW n \in 0..Len(text), NEW ch \in Keys, Len(text) < MaxInput
    PROVE  LET r == SubSeq(text, 1, n) \o <<ch>> \o After(text, n)
           IN  r \in Texts /\ Len(r) = Len(text) + 1 /\ SubSeq(r, 1, n) = SubSeq(text, 1, n)
<1> DEFINE p == SubSeq(text, 1, n)
           q == p \o <<ch>>
           a == After(text, n)
           r == q \o a
<1>1. text \in Seq(Keys) /\ Len(text) \in Nat /\ n \in Nat /\ n <= Len(text)
  BY TextIsSeq
<1>2. p \in Seq(Keys) /\ Len(p) = n
  BY <1>1, Prefix
<1>3. a \in Texts /\ Len(a) = Len(text) - n
  BY <1>1, AfterIsText
<1>4. a \in Seq(Keys)
  BY <1>3, TextIsSeq
<1> HIDE DEF p, a
<1>5. <<ch>> \in Seq(Keys) /\ Len(<<ch>>) = 1
  OBVIOUS
<1>6. q \in Seq(Keys) /\ Len(q) = n + 1 /\ \A i \in 1..n : q[i] = p[i]
  BY <1>2, <1>5, ConcatProperties, <1>1
<1> HIDE DEF q
<1>7. r \in Seq(Keys) /\ Len(r) = Len(text) + 1 /\ \A i \in 1..n : r[i] = p[i]
  BY <1>4, <1>6, ConcatProperties, <1>1, <1>3
<1> HIDE DEF r
<1>8. r \in Texts
  BY <1>1, <1>7, EngineAssumption, TextIsSeq
<1>9. SubSeq(r, 1, n) = p
  <2>1. n \in 0..Len(r)
    BY <1>1, <1>7
  <2> QED BY <2>1, <1>7, Prefix, <1>2, SeqEqual
<1> QED BY <1>7, <1>8, <1>9 DEF r, q, p, a

LEMMA PushRests ==
    ASSUME NEW c, Good(c, {}), NEW ch \in Keys, Len(c.input) < MaxInput
    PROVE  LET d == PushInput(c, ch)
           IN  /\ Resting(d) /\ d.sent = c.sent
               /\ Len(d.input) = Len(c.input) + 1 /\ d.caret = c.caret + 1
               /\ SubSeq(d.input, 1, c.caret) = SubSeq(c.input, 1, c.caret)
<1> DEFINE r == SubSeq(c.input, 1, c.caret) \o <<ch>> \o After(c.input, c.caret)
           p == c.caret + 1
<1>1. c.input \in Texts /\ c.caret \in 0..Len(c.input) /\ Len(c.input) \in Nat
  BY TextIsSeq DEF Good
<1>2. r \in Texts /\ Len(r) = Len(c.input) + 1 /\ SubSeq(r, 1, c.caret) = SubSeq(c.input, 1, c.caret)
  BY <1>1, PushedIsText
<1>3. PushInput(c, ch) = Compose(WithInput(c, r, p))
  BY DEF PushInput, WithInput
<1> HIDE DEF r
<1>4. p \in 0..Len(r)
  BY <1>1, <1>2
<1> HIDE DEF p
<1>5. LET d == Compose(WithInput(c, r, p))
      IN  Resting(d) /\ d.input = r /\ d.caret = p /\ d.sent = c.sent
  BY <1>2, <1>4, ChangedRests
<1> QED BY <1>2, <1>3, <1>5 DEF p

LEMMA PopRests ==
    ASSUME NEW c, Good(c, {}), NEW n \in Nat, CanPop(c, n)
    PROVE  Resting(PopInput(c, n)) /\ PopInput(c, n).sent = c.sent
<1> DEFINE k == c.caret - n
           r == SubSeq(c.input, 1, k) \o After(c.input, c.caret)
<1>1. c.input \in Texts /\ c.caret \in 0..Len(c.input) /\ Len(c.input) \in Nat /\ n <= c.caret
  BY TextIsSeq DEF Good, CanPop
<1>2. k \in 0..Len(c.input) /\ k <= c.caret /\ c.caret \in Nat
  BY <1>1
<1>3. PopInput(c, n) = Compose(WithInput(c, r, k))
  BY DEF PopInput, WithInput
<1> HIDE DEF k
<1>4. r \in Texts /\ k <= Len(r)
  BY <1>1, <1>2, ReplacedIsText
<1> HIDE DEF r
<1> QED BY <1>3, <1>4, <1>1, <1>2, TextIsSeq, ChangedRests

LEMMA DeleteRests ==
    ASSUME NEW c, Good(c, {}), CanDelete(c)
    PROVE  Resting(DeleteInput(c)) /\ DeleteInput(c).sent = c.sent
<1> DEFINE k == c.caret
           m == c.caret + 1
           r == SubSeq(c.input, 1, k) \o After(c.input, m)
<1>1. IsContext(c) /\ c.input \in Texts /\ k \in 0..Len(c.input) /\ Len(c.input) \in Nat
  BY TextIsSeq DEF Good
<1>2. m \in Nat /\ k <= m
  BY <1>1
<1>3. DeleteInput(c) = Compose(WithInput(c, r, k))
  <2>1. DeleteInput(c) = Compose([c EXCEPT !.input = r])
    BY DEF DeleteInput
  <2> HIDE DEF r
  <2> QED BY <2>1, <1>1 DEF WithInput, IsContext
<1> HIDE DEF k, m
<1>4. r \in Texts /\ k <= Len(r)
  BY <1>1, <1>2, ReplacedIsText
<1> HIDE DEF r
<1> QED BY <1>3, <1>4, <1>1, <1>2, TextIsSeq, ChangedRests

LEMMA NothingIsWhole ==
    ASSUME NEW text \in Texts, NEW X
    PROVE  Whole(<<>>, text, X)
BY TextIsSeq DEF Whole, Chained, CurrentEnd

(* A context is cleared whatever its segments are. *)
LEMMA ClearRests ==
    ASSUME NEW c, IsContext(c), c.active \in Texts, SentInFull(c.sent)
    PROVE  Resting(Clear(c)) /\ Clear(c).sent = c.sent /\ Clear(c).input = <<>>
<1> DEFINE e == [c EXCEPT !.input = <<>>, !.caret = 0, !.segs = <<>>]
<1>1. e = [c EXCEPT !.input = <<>>, !.caret = 0, !.segs = <<>>]
  OBVIOUS
<1>2. Clear(c) = Compose(e)
  BY DEF Clear
<1> HIDE DEF e
<1>3. /\ IsContext(e) /\ e.input = <<>> /\ e.caret = 0 /\ e.active = c.active /\ e.segs = <<>>
      /\ e.sent = c.sent
  BY <1>1 DEF IsContext
<1>4. Good(e, {})
  BY <1>3, EmptyIsText, NothingIsWhole DEF Good
<1> QED BY <1>2, <1>3, <1>4, ComposeGood, ComposedRests

------------------------------------------------------------------------------
(* Parts of a text that lie end to end, joined, are the text they cover.   *)

LEMMA Joined ==
    ASSUME NEW S, NEW s \in Seq(S), NEW n \in 0..Len(s), NEW m \in 0..n
    PROVE  SubSeq(s, 1, m) \o SubSeq(s, m + 1, n) = SubSeq(s, 1, n)
<1> DEFINE p == SubSeq(s, 1, m)
           q == SubSeq(s, m + 1, n)
           r == SubSeq(s, 1, n)
<1>1. Len(s) \in Nat /\ m \in 0..Len(s) /\ m \in Nat /\ n \in Nat /\ m + 1 \in Nat \ {0} /\ n <= Len(s)
  BY Ends
<1>2. p \in Seq(S) /\ Len(p) = m /\ \A i \in 1..m : p[i] = s[i]
  BY <1>1, Prefix
<1>3. r \in Seq(S) /\ Len(r) = n /\ \A i \in 1..n : r[i] = s[i]
  BY Prefix
<1>4. /\ q \in Seq(S) /\ Len(q) = IF m + 1 <= n THEN n - (m + 1) + 1 ELSE 0
      /\ \A i \in 1..n - (m + 1) + 1 : q[i] = s[m + 1 + i - 1]
  BY <1>1, Part
<1> HIDE DEF p, q, r
<1>5. Len(q) = n - m /\ \A i \in 1..n - m : q[i] = s[m + i]
  BY <1>1, <1>4
<1>6. /\ p \o q \in Seq(S) /\ Len(p \o q) = Len(p) + Len(q)
      /\ \A i \in 1..Len(p) + Len(q) : (p \o q)[i] = IF i <= Len(p) THEN p[i] ELSE q[i - Len(p)]
  BY <1>2, <1>4, ConcatProperties
<1>7. ASSUME NEW i \in 1..n PROVE (p \o q)[i] = r[i]
  <2>1. CASE i <= m
    BY <2>1, <1>1, <1>2, <1>3, <1>5, <1>6
  <2>2. CASE ~(i <= m)
    <3>1. q[i - m] = s[i]
      BY <2>2, <1>1, <1>5
    <3>2. i \in 1..Len(p) + Len(q) /\ ~(i <= Len(p)) /\ i - Len(p) = i - m
      BY <2>2, <1>1, <1>2, <1>5
    <3> QED BY <3>1, <3>2, <1>6, <1>3
  <2> QED BY <2>1, <2>2
<1> QED BY <1>3, <1>6, <1>1, <1>2, <1>5, <1>7, SeqEqual DEF p, q, r

LEMMA FlattenOf ==
    ASSUME NEW S, NEW t \in Seq(S), NEW p \in Seq(Seq(S)),
           NEW e \in [0..Len(p) -> 0..Len(t)], e[0] = 0,
           \A i \in 1..Len(p) : e[i - 1] <= e[i] /\ p[i] = SubSeq(t, e[i - 1] + 1, e[i])
    PROVE  Concat(p) = SubSeq(t, 1, e[Len(p)])
<1> DEFINE n == Len(p)
           g == [i \in 1..n |-> SubSeq(t, 1, e[i])]
           IsFlat(f) == f = [i \in 1..n |-> IF i = 1 THEN p[i] ELSE f[i - 1] \o p[i]]
           F == CHOOSE f : IsFlat(f)
<1>1. Len(t) \in Nat
  BY Ends
<1>2. Concat(p) = IF n = 0 THEN p ELSE F[n]
  <2>1. FlattenSeq(p) = IF n = 0 THEN p ELSE F[n]
    BY Zenon DEF FlattenSeq
  <2> QED BY <2>1 DEF Concat
<1>3. /\ n \in Nat /\ n = Len(p) /\ e \in [0..n -> 0..Len(t)]
      /\ \A i \in 1..n : e[i - 1] <= e[i] /\ p[i] = SubSeq(t, e[i - 1] + 1, e[i])
  BY Ends
<1>4. n = 0 => p = <<>>
  BY Ends
<1> HIDE DEF n
<1>5. CASE n = 0
  <2>1. Concat(p) = p /\ p = <<>>
    <3>1. Concat(p) = p
      BY <1>2, <1>5
    <3> QED BY <1>5, <1>4, <3>1
  <2>2. e[n] = 0 /\ 0 \in 0..Len(t)
    BY <1>1, <1>5
  <2> QED BY <2>1, <2>2, Prefix, Ends, <1>3
<1>6. CASE n # 0
  <2>1. ASSUME NEW i \in 1..n
        PROVE  SubSeq(t, 1, e[i]) = IF i = 1 THEN p[i] ELSE SubSeq(t, 1, e[i - 1]) \o p[i]
    <3>1. i - 1 \in 0..n /\ i \in 0..n
      BY <1>3
    <3>2. e[i] \in 0..Len(t) /\ e[i - 1] \in 0..e[i]
      <4>1. e[i] \in 0..Len(t) /\ e[i - 1] \in 0..Len(t)
        BY <3>1, <1>3
      <4>2. e[i - 1] <= e[i]
        BY <1>3
      <4> QED BY <4>1, <4>2, <1>1
    <3>3. i = 1 => e[i - 1] + 1 = 1
      OBVIOUS
    <3> QED BY <3>2, Joined, <1>3, <3>3
  <2>2. IsFlat(g)
    <3>1. ASSUME NEW i \in 1..n PROVE g[i] = IF i = 1 THEN p[i] ELSE g[i - 1] \o p[i]
      <4>1. i # 1 => i - 1 \in 1..n
        BY <1>3
      <4> QED BY <4>1, <2>1
    <3> HIDE DEF g
    <3> QED BY <3>1 DEF g
  <2>3. IsFlat(F)
    <3> HIDE DEF IsFlat, g
    <3> QED BY <2>2
  <2> DEFINE Wrong == {i \in 1..n : F[i] # SubSeq(t, 1, e[i])}
  <2>4. \A i \in 1..n : F[i] = IF i = 1 THEN p[i] ELSE F[i - 1] \o p[i]
    <3> HIDE DEF F
    <3> QED BY <2>3
  <2> HIDE DEF F
  <2>5. Wrong = {}
    <3> SUFFICES ASSUME Wrong # {} PROVE FALSE
      OBVIOUS
    <3>1. PICK i \in Wrong : \A j \in Wrong : i <= j
      <4>1. Wrong \subseteq Nat
        OBVIOUS
      <4> HIDE DEF Wrong
      <4> QED BY <4>1, LeastOf
    <3>2. i \in 1..n /\ F[i] # SubSeq(t, 1, e[i])
      OBVIOUS
    <3>3. i # 1
      BY <3>2, <2>1, <2>4
    <3> DEFINE k == i - 1
    <3>4. k \in 1..n /\ k < i
      BY <3>2, <3>3, <1>3
    <3>5. F[k] = SubSeq(t, 1, e[k])
      <4> HIDE DEF k
      <4> QED BY <3>4, <3>1, <3>2
    <3>6. F[i] = F[k] \o p[i] /\ SubSeq(t, 1, e[i]) = SubSeq(t, 1, e[k]) \o p[i]
      BY <3>2, <3>3, <2>1, <2>4
    <3> QED BY <3>2, <3>5, <3>6
  <2>6. n \in 1..n
    BY <1>3, <1>6
  <2> QED BY <2>5, <2>6, <1>3, <1>2, <1>6
<1> QED BY <1>5, <1>6

------------------------------------------------------------------------------
(* What a segment's candidate converts.                                    *)

ShownFits(seg, text) ==
    HasCandidate(seg) =>
        /\ CandidateEnd(seg) <= seg.end
        /\ Converted(seg) = SubSeq(text, seg.start + 1, CandidateEnd(seg))

LEMMA CandidateOf ==
    ASSUME NEW seg \in Segment
    PROVE  /\ Count(seg) \in Nat /\ (seg.menu = <<>> => Count(seg) = 0)
           /\ HasCandidate(seg) =>
               /\ CandidateLength(seg) \in 1..Len(seg.menu)
               /\ CandidateEnd(seg) \in Nat /\ CandidateEnd(seg) > seg.start
<1>1. Lengths(seg.menu) \in Seq(1..Len(seg.menu)) /\ Len(seg.menu) \in Nat
  BY CandidateAssumption, TextIsSeq DEF Segment
<1>2. seg.index \in Nat /\ seg.start \in Nat
  BY DEF Segment
<1>3. Count(seg) \in Nat
  BY <1>1, Ends DEF Count
<1>4. ASSUME HasCandidate(seg)
      PROVE  /\ CandidateLength(seg) \in 1..Len(seg.menu)
             /\ CandidateEnd(seg) \in Nat /\ CandidateEnd(seg) > seg.start
  <2>1. seg.index + 1 \in 1..Len(Lengths(seg.menu))
    BY <1>1, <1>2, <1>3, <1>4 DEF HasCandidate, Count
  <2>2. Lengths(seg.menu)[seg.index + 1] \in 1..Len(seg.menu)
    BY <1>1, <2>1, Ends
  <2> QED BY <2>2, <1>1, <1>2 DEF CandidateEnd, CandidateLength
<1>5. ASSUME seg.menu = <<>> PROVE Count(seg) = 0
  BY <1>1, <1>5, Ends, <1>3 DEF Count
<1> QED BY <1>3, <1>4, <1>5

LEMMA GuessFits ==
    ASSUME NEW text \in Texts, NEW seg \in Segment, seg.start <= seg.end, seg.end <= Len(text),
           seg.menu = Covered(text, seg)
    PROVE  ShownFits(seg, text)
<1> DEFINE k == CandidateLength(seg)
           b == seg.start
           e == seg.end
<1>1. text \in Seq(Keys) /\ Len(text) \in Nat /\ b \in Nat /\ e \in Nat /\ b + 1 \in Nat \ {0}
      /\ b <= e /\ e <= Len(text)
  BY TextIsSeq DEF Segment
<1> SUFFICES ASSUME HasCandidate(seg)
             PROVE  /\ CandidateEnd(seg) <= seg.end
                    /\ Converted(seg) = SubSeq(text, seg.start + 1, CandidateEnd(seg))
  BY DEF ShownFits
<1> DEFINE menu == SubSeq(text, b + 1, e)
<1>2. k \in 1..Len(menu) /\ CandidateEnd(seg) = b + k /\ Converted(seg) = SubSeq(menu, 1, k)
  BY CandidateOf DEF CandidateEnd, Converted, Covered
<1> HIDE DEF k, b, e
<1>3. /\ menu \in Seq(Keys) /\ Len(menu) = IF b + 1 <= e THEN e - (b + 1) + 1 ELSE 0
      /\ \A i \in 1..e - (b + 1) + 1 : menu[i] = text[b + 1 + i - 1]
  BY <1>1, Part
<1> HIDE DEF menu
<1>4. k \in 0..Len(menu) /\ k \in Nat /\ b + k <= e
  BY <1>1, <1>2, <1>3
<1> DEFINE r == SubSeq(text, b + 1, b + k)
           m == b + 1
           n == b + k
<1>5. m \in Nat \ {0} /\ n \in Int /\ n <= Len(text)
  BY <1>1, <1>4
<1>6. /\ r \in Seq(Keys) /\ Len(r) = IF m <= n THEN n - m + 1 ELSE 0
      /\ \A i \in 1..n - m + 1 : r[i] = text[m + i - 1]
  <2> HIDE DEF m, n
  <2>1. r = SubSeq(text, m, n)
    BY DEF m, n
  <2> HIDE DEF r
  <2> QED BY <2>1, <1>1, <1>5, Part
<1> HIDE DEF r
<1>7. Len(r) = k /\ \A i \in 1..k : r[i] = menu[i]
  <2>1. n - m + 1 = k /\ m <= n /\ k \in Nat /\ e - (b + 1) + 1 \in Nat /\ k <= e - (b + 1) + 1
    BY <1>1, <1>2, <1>4
  <2>2. ASSUME NEW i \in 1..k
        PROVE  r[i] = text[b + 1 + i - 1] /\ menu[i] = text[b + 1 + i - 1]
    BY <1>3, <1>6, <2>1
  <2> QED BY <1>6, <2>1, <2>2
<1>8. SubSeq(menu, 1, k) = r
  BY <1>3, <1>4, Prefix, <1>6, <1>7, SeqEqual
<1> QED BY <1>2, <1>4, <1>8 DEF b, e, r

(* In a composition no candidate is shown for what it does not convert.    *)
LEMMA WholeShown ==
    ASSUME NEW text \in Texts, NEW segs, Whole(segs, text, {}), VoidIsEmpty(segs), NEW i \in DOMAIN segs
    PROVE  /\ segs[i] \in Segment /\ segs[i].start <= segs[i].end /\ segs[i].end <= Len(text)
           /\ ShownFits(segs[i], text)
           /\ IsEmpty(segs[i]) => Count(segs[i]) = 0
           /\ segs[i].status = kVoid => Count(segs[i]) = 0
           /\ segs[i].status = kGuess => segs[i].menu = Covered(text, segs[i])
<1> DEFINE seg == segs[i]
           n == Len(segs)
<1>1. segs \in Seq(Segment) /\ Chained(segs, Len(text)) /\ Sound(segs[i], i, text, {}) /\ Len(text) \in Nat
  BY TextIsSeq DEF Whole
<1>2. n \in Nat /\ DOMAIN segs = 1..n /\ seg \in Segment /\ segs[n] \in Segment /\ segs # <<>>
  BY <1>1, Ends
<1>3. seg.start <= seg.end /\ (IsEmpty(seg) => seg.menu = <<>>)
  BY <1>1 DEF Chained
<1>4. seg.end <= Len(text)
  <2>1. segs[n].end <= Len(text) /\ segs[n].start <= segs[n].end /\ n \in DOMAIN segs
    BY <1>1, <1>2, EndOf DEF Chained
  <2>2. i < n => seg.end <= segs[n].start
    BY <2>1, <1>1 DEF Chained
  <2>3. seg.end \in Nat /\ segs[n].start \in Nat /\ segs[n].end \in Nat
    BY <1>2 DEF Segment
  <2> QED BY <2>1, <2>2, <2>3, <1>1, <1>2
<1>5. IsEmpty(seg) => Count(seg) = 0
  BY <1>2, <1>3, CandidateOf
<1>6. seg.status = kVoid => Count(seg) = 0
  BY <1>5 DEF VoidIsEmpty
<1>7. Fitted(seg, text)
  BY <1>1 DEF Sound
<1>8. seg.status \in kVoid..kConfirmed /\ seg.index \in Nat
  BY <1>2 DEF Segment
<1> HIDE DEF seg
<1>9. ShownFits(seg, text)
  <2>1. CASE seg.status = kVoid
    BY <2>1, <1>6, <1>8 DEF ShownFits, HasCandidate
  <2>2. CASE seg.status = kGuess
    BY <2>2, <1>2, <1>3, <1>4, <1>7, GuessFits DEF Fitted
  <2>3. CASE seg.status >= kSelected
    BY <2>3, <1>7 DEF Fitted, ShownFits
  <2> QED BY <2>1, <2>2, <2>3, <1>8
<1> QED BY <1>2, <1>3, <1>4, <1>5, <1>6, <1>9, <1>7 DEF seg, Fitted

------------------------------------------------------------------------------
(* What a commit sends. *)

LEMMA ShownEnd ==
    ASSUME NEW text \in Texts, NEW segs, Whole(segs, text, {}), VoidIsEmpty(segs), NEW i \in DOMAIN segs
    PROVE  /\ SegmentEnd(segs[i]) \in 0..Len(text)
           /\ segs[i].start <= SegmentEnd(segs[i]) /\ SegmentEnd(segs[i]) <= segs[i].end
           /\ HasCandidate(segs[i]) =>
                Converted(segs[i]) = SubSeq(text, segs[i].start + 1, SegmentEnd(segs[i]))
           /\ ~HasCandidate(segs[i]) => SegmentEnd(segs[i]) = segs[i].end
<1> DEFINE seg == segs[i]
<1>1. /\ seg \in Segment /\ seg.start <= seg.end /\ seg.end <= Len(text) /\ ShownFits(seg, text)
  BY WholeShown
<1> HIDE DEF seg
<1>2. seg.start \in Nat /\ seg.end \in Nat /\ Len(text) \in Nat
  BY <1>1, TextIsSeq DEF Segment
<1>3. CASE HasCandidate(seg)
  <2>1. SegmentEnd(seg) = CandidateEnd(seg)
    BY <1>3 DEF SegmentEnd
  <2> QED BY <2>1, <1>1, <1>3, CandidateOf, <1>2 DEF seg, ShownFits
<1>4. CASE ~HasCandidate(seg)
  BY <1>4, <1>1, <1>2 DEF seg, SegmentEnd
<1> QED BY <1>3, <1>4

LEMMA PiecesInFull ==
    ASSUME NEW text \in Texts, NEW segs, Whole(segs, text, {}), VoidIsEmpty(segs),
           \A i \in 1..Len(segs) - 1 : ~(SegmentEnd(segs[i]) < segs[i].end),
           NEW p, p \in Seq(Seq(Keys)), Len(p) = Len(segs),
           \A i \in DOMAIN segs : p[i] = SubSeq(text, segs[i].start + 1, SegmentEnd(segs[i]))
    PROVE  Concat(p) \o After(text, IF segs = <<>> THEN 0 ELSE SegmentEnd(Last(segs))) = text
<1> DEFINE n == Len(segs)
           e == [i \in 0..n |-> IF i = 0 THEN 0 ELSE SegmentEnd(segs[i])]
<1>1. segs \in Seq(Segment) /\ Chained(segs, Len(text)) /\ text \in Seq(Keys) /\ Len(text) \in Nat
  BY TextIsSeq DEF Whole
<1>2. n \in Nat /\ DOMAIN segs = 1..n /\ Len(p) = n /\ (segs # <<>> <=> n > 0) /\ Last(segs) = segs[n]
  BY <1>1, Ends
<1>3. \A i \in 1..n - 1 : ~(SegmentEnd(segs[i]) < segs[i].end)
  OBVIOUS
<1> HIDE DEF n
<1>4. ASSUME NEW i \in 1..n
      PROVE  /\ SegmentEnd(segs[i]) \in 0..Len(text)
             /\ segs[i].start <= SegmentEnd(segs[i]) /\ SegmentEnd(segs[i]) <= segs[i].end
             /\ segs[i].start \in Nat /\ segs[i].end \in Nat
             /\ segs[i].start = IF i = 1 THEN 0 ELSE segs[i - 1].end
  <2>1. i \in DOMAIN segs
    BY <1>2
  <2> QED BY <2>1, WholeShown, <1>1, ShownEnd DEF Segment, Chained
<1>5. e \in [0..n -> 0..Len(text)] /\ e[0] = 0 /\ \A i \in 1..n : e[i] = SegmentEnd(segs[i])
  <2>1. 0 \in 0..n /\ 0 \in 0..Len(text)
    BY <1>1, <1>2
  <2> QED BY <1>2, <2>1, <1>4
<1> HIDE DEF e
<1>6. ASSUME NEW i \in 1..n PROVE e[i - 1] = segs[i].start
  <2>1. CASE i = 1
    BY <2>1, <1>4, <1>5
  <2>2. CASE i # 1
    <3> DEFINE k == i - 1
    <3>1. k \in 1..n - 1 /\ k \in 1..n
      BY <2>2, <1>2
    <3> HIDE DEF k
    <3>2. ~(SegmentEnd(segs[k]) < segs[k].end)
      BY <3>1, <1>3
    <3> QED BY <2>2, <1>4, <3>1, <3>2, <1>1, <1>5 DEF k
  <2> QED BY <2>1, <2>2
<1>7. \A i \in 1..n : e[i - 1] <= e[i] /\ p[i] = SubSeq(text, e[i - 1] + 1, e[i])
  <2> TAKE i \in 1..n
  <2>1. e[i - 1] = segs[i].start /\ e[i] = SegmentEnd(segs[i])
    BY <1>5, <1>6
  <2> QED BY <2>1, <1>2, <1>4
<1>8. Concat(p) = SubSeq(text, 1, e[n])
  <2>1. /\ e \in [0..Len(p) -> 0..Len(text)] /\ e[0] = 0
        /\ \A i \in 1..Len(p) : e[i - 1] <= e[i] /\ p[i] = SubSeq(text, e[i - 1] + 1, e[i])
    BY <1>2, <1>5, <1>7
  <2> QED BY <2>1, <1>1, FlattenOf, <1>2
<1>9. e[n] = IF segs = <<>> THEN 0 ELSE SegmentEnd(Last(segs))
  BY <1>2, <1>5
<1> DEFINE k == e[n]
           m == Len(text)
<1>10. k \in 0..m /\ m \in 0..Len(text)
  BY <1>1, <1>2, <1>5
<1> HIDE DEF k, m
<1>11. SubSeq(text, 1, m) = text
  BY <1>1, SubSeqAll DEF m
<1>12. After(text, k) = SubSeq(text, k + 1, m)
  BY DEF After, m
<1> QED BY <1>8, <1>9, <1>1, <1>10, Joined, <1>11, <1>12 DEF k

(* What a commit sends, if no segment is loose, is what was composed: the  *)
(* input, if the caret is at its end.                                      *)
LEMMA ActiveIsInput ==
    ASSUME NEW c, Standing(c), c.caret = Len(c.input)
    PROVE  c.active = c.input
BY TextIsSeq, SubSeqAll DEF Standing, Good, Follows

LEMMA CommitTextIsActive ==
    ASSUME NEW c, Standing(c), ~Loose(c)
    PROVE  CommitText(c) = c.active
<1> DEFINE segs == c.segs
           text == c.active
           Piece(seg) == IF HasCandidate(seg) THEN Converted(seg) ELSE Covered(text, seg)
           p == [i \in DOMAIN segs |-> Piece(segs[i])]
<1>1. text \in Texts /\ Whole(segs, text, {}) /\ VoidIsEmpty(segs)
  BY DEF Standing, Good
<1>2. \A i \in 1..Len(segs) - 1 : ~(SegmentEnd(segs[i]) < segs[i].end)
  BY DEF Loose
<1>3. CommitText(c) = Concat(p) \o After(text, IF segs = <<>> THEN 0 ELSE SegmentEnd(Last(segs)))
  BY DEF CommitText
<1>4. segs \in Seq(Segment) /\ Len(segs) \in Nat /\ DOMAIN segs = 1..Len(segs) /\ text \in Seq(Keys)
  BY <1>1, Ends, TextIsSeq DEF Whole
<1>5. text = c.active
  OBVIOUS
<1> HIDE DEF segs, text
<1>6. ASSUME NEW i \in DOMAIN segs
      PROVE  /\ Piece(segs[i]) = SubSeq(text, segs[i].start + 1, SegmentEnd(segs[i]))
             /\ Piece(segs[i]) \in Seq(Keys)
  <2>1. /\ SegmentEnd(segs[i]) \in 0..Len(text)
        /\ HasCandidate(segs[i]) =>
             Converted(segs[i]) = SubSeq(text, segs[i].start + 1, SegmentEnd(segs[i]))
        /\ ~HasCandidate(segs[i]) => SegmentEnd(segs[i]) = segs[i].end
    BY <1>1, ShownEnd
  <2>2. Piece(segs[i]) = SubSeq(text, segs[i].start + 1, SegmentEnd(segs[i]))
    BY <2>1 DEF Covered
  <2> DEFINE m == segs[i].start + 1
             k == SegmentEnd(segs[i])
  <2>3. m \in Nat \ {0} /\ k \in Int /\ k <= Len(text)
    BY <1>1, WholeShown, TextIsSeq, <2>1 DEF Segment
  <2>4. Piece(segs[i]) = SubSeq(text, m, k)
    BY <2>2
  <2> HIDE DEF m, k, Piece
  <2>5. SubSeq(text, m, k) \in Seq(Keys)
    BY <2>3, <1>4, Part
  <2> QED BY <2>2, <2>4, <2>5
<1>7. p \in Seq(Seq(Keys)) /\ Len(p) = Len(segs) /\ \A i \in DOMAIN segs : p[i] = Piece(segs[i])
  <2> HIDE DEF Piece
  <2>1. p \in [1..Len(segs) -> Seq(Keys)] /\ DOMAIN p = 1..Len(segs)
    BY <1>4, <1>6
  <2>2. \A i \in DOMAIN segs : p[i] = Piece(segs[i])
    OBVIOUS
  <2> HIDE DEF p
  <2> QED BY <2>1, <2>2, <1>4, SeqDef, LenProperties
<1> HIDE DEF p
<1> QED BY <1>3, <1>5, <1>1, <1>2, <1>7, <1>6, PiecesInFull

LEMMA CommitTextInFull ==
    ASSUME NEW c, Standing(c), c.caret = Len(c.input), ~Loose(c)
    PROVE  CommitText(c) = c.input
BY CommitTextIsActive, ActiveIsInput

LEMMA ScriptTextInFull ==
    ASSUME NEW c, Standing(c), c.caret = Len(c.input), ~Loose(c)
    PROVE  ScriptText(c) = c.input
<1> DEFINE segs == c.segs
           text == c.active
           n == Len(segs)
           From(i) == IF i = 1 THEN 0 ELSE SegmentEnd(segs[i - 1])
           Piece(i) == IF HasCandidate(segs[i]) THEN Converted(segs[i])
                       ELSE SubSeq(text, From(i) + 1, segs[i].end)
           p == [i \in DOMAIN segs |-> Piece(i)]
<1>1. text \in Texts /\ Whole(segs, text, {}) /\ VoidIsEmpty(segs)
  BY DEF Standing, Good
<1>2. \A i \in 1..n - 1 : ~(SegmentEnd(segs[i]) < segs[i].end)
  BY DEF Loose
<1>3. ScriptText(c) = Concat(p) \o After(text, From(n + 1))
  BY DEF ScriptText
<1>4. segs \in Seq(Segment) /\ n \in Nat /\ n = Len(segs) /\ DOMAIN segs = 1..n /\ text \in Seq(Keys)
      /\ (segs # <<>> <=> n > 0) /\ Last(segs) = segs[n]
  BY <1>1, Ends, TextIsSeq DEF Whole
<1>5. text = c.input
  BY ActiveIsInput
<1> HIDE DEF segs, text, n
<1>6. ASSUME NEW i \in 1..n
      PROVE  /\ SegmentEnd(segs[i]) \in 0..Len(text)
             /\ SegmentEnd(segs[i]) <= segs[i].end
             /\ HasCandidate(segs[i]) =>
                  Converted(segs[i]) = SubSeq(text, segs[i].start + 1, SegmentEnd(segs[i]))
             /\ ~HasCandidate(segs[i]) => SegmentEnd(segs[i]) = segs[i].end
             /\ segs[i].start \in Nat /\ segs[i].end \in Nat
             /\ segs[i].start = IF i = 1 THEN 0 ELSE segs[i - 1].end
  <2>1. i \in DOMAIN segs
    BY <1>4
  <2>2. segs[i] \in Segment
    BY <2>1, <1>1, WholeShown
  <2>3. segs[i].start = IF i = 1 THEN 0 ELSE segs[i - 1].end
    BY <2>1, <1>1 DEF Whole, Chained
  <2> QED BY <2>2, <2>3, <2>1, <1>1, ShownEnd DEF Segment
<1>7. ASSUME NEW i \in 1..n PROVE From(i) = segs[i].start
  <2>1. CASE i = 1
    BY <2>1, <1>6
  <2>2. CASE i # 1
    <3> DEFINE k == i - 1
    <3>1. k \in 1..n - 1 /\ k \in 1..n /\ Len(text) \in Nat
      BY <2>2, <1>1, <1>4, TextIsSeq
    <3>2. segs[i].start = segs[k].end /\ From(i) = SegmentEnd(segs[k])
      BY <2>2, <1>6
    <3> HIDE DEF k, From
    <3>3. ~(SegmentEnd(segs[k]) < segs[k].end)
      BY <3>1, <1>2
    <3> QED BY <3>2, <3>3, <3>1, <1>6
  <2> QED BY <2>1, <2>2
<1>8. From(n + 1) = IF segs = <<>> THEN 0 ELSE SegmentEnd(Last(segs))
  BY <1>4
<1> HIDE DEF From
<1>9. ASSUME NEW i \in 1..n
      PROVE  /\ Piece(i) = SubSeq(text, segs[i].start + 1, SegmentEnd(segs[i]))
             /\ Piece(i) \in Seq(Keys)
  <2>1. Piece(i) = SubSeq(text, segs[i].start + 1, SegmentEnd(segs[i]))
    BY <1>6, <1>7
  <2> DEFINE m == segs[i].start + 1
             k == SegmentEnd(segs[i])
  <2>2. m \in Nat \ {0} /\ k \in Int /\ k <= Len(text)
    BY <1>1, <1>6, TextIsSeq
  <2>3. Piece(i) = SubSeq(text, m, k)
    BY <2>1
  <2> HIDE DEF m, k, Piece
  <2>4. SubSeq(text, m, k) \in Seq(Keys)
    BY <2>2, <1>4, Part
  <2> QED BY <2>1, <2>3, <2>4
<1>10. p \in Seq(Seq(Keys)) /\ Len(p) = n /\ \A i \in 1..n : p[i] = Piece(i)
  <2> HIDE DEF Piece
  <2>1. p \in [1..n -> Seq(Keys)] /\ DOMAIN p = 1..n
    BY <1>4, <1>9
  <2>2. \A i \in 1..n : p[i] = Piece(i)
    BY <1>4
  <2> HIDE DEF p
  <2> QED BY <2>1, <2>2, <1>4, SeqDef, LenProperties, SMTT(30)
<1>11. \A i \in DOMAIN segs : p[i] = SubSeq(text, segs[i].start + 1, SegmentEnd(segs[i]))
  BY <1>4, <1>9, <1>10
<1> HIDE DEF p
<1>12. Concat(p) \o After(text, IF segs = <<>> THEN 0 ELSE SegmentEnd(Last(segs))) = text
  BY <1>1, <1>2, <1>4, <1>10, <1>11, PiecesInFull
<1> QED BY <1>3, <1>5, <1>8, <1>12

LEMMA SinkInFull ==
    ASSUME NEW c, Standing(c), NEW text, c.caret = Len(c.input) /\ ~Loose(c) => text = c.input
    PROVE  /\ IsContext(Sink(c, text)) /\ Sink(c, text).active = c.active
           /\ SentInFull(Sink(c, text).sent)
<1> DEFINE x == [typed |-> c.input, caret |-> c.caret, loose |-> Loose(c), text |-> text]
           d == Sink(c, text)
<1>1. IsContext(c) /\ SentInFull(c.sent)
  BY DEF Standing, Good
<1>2. InFull(x)
  <2>1. x.typed = c.input /\ x.caret = c.caret /\ x.text = text
    OBVIOUS
  <2>2. x.loose = Loose(c)
    OBVIOUS
  <2> HIDE DEF x
  <2>3. ~x.loose => ~Loose(c)
    BY <2>2, Zenon
  <2> QED BY <2>1, <2>3 DEF InFull
<1>3. d = [c EXCEPT !.sent = Append(@, x)]
  BY DEF Sink
<1> HIDE DEF x, d
<1>4. IsContext(d) /\ d.active = c.active /\ d.sent = Append(c.sent, x)
  BY <1>1, <1>3 DEF IsContext
<1>5. PICK S : c.sent \in Seq(S) /\ \A s \in S : InFull(s)
  BY <1>1 DEF SentInFull
<1>6. Append(c.sent, x) \in Seq(S \union {x})
  <2>1. c.sent \in Seq(S \union {x})
    <3>1. \A i \in 1..Len(c.sent) : c.sent[i] \in S \union {x}
      BY <1>5, Ends
    <3> QED BY <1>5, LenProperties, SeqDef
  <2> QED BY <2>1, AppendProperties
<1> QED BY <1>4, <1>6, <1>2, <1>5 DEF d, SentInFull

LEMMA CommitRests ==
    ASSUME NEW c, Standing(c)
    PROVE  Resting(Commit(c))
<1>1. CASE IsComposing(c)
  <2> DEFINE t == CommitText(c)
             d == Sink(c, t)
  <2>1. c.caret = Len(c.input) /\ ~Loose(c) => t = c.input
    BY CommitTextInFull
  <2> HIDE DEF t
  <2>2. IsContext(d) /\ d.active = c.active /\ SentInFull(d.sent)
    BY <2>1, SinkInFull
  <2>3. Commit(c) = Clear(d)
    BY <1>1 DEF Commit, t
  <2> HIDE DEF d
  <2> QED BY <2>2, <2>3, ClearRests DEF Standing, Good
<1>2. CASE ~IsComposing(c)
  <2>1. Commit(c) = c
    BY <1>2 DEF Commit
  <2> QED BY <2>1, <1>2 DEF Resting, CurrentEnd, LastIsOpen, Standing, Good, IsComposing
<1> QED BY <1>1, <1>2

LEMMA CommitScriptTextRests ==
    ASSUME NEW c, Standing(c)
    PROVE  Resting(CommitScriptText(c))
<1> DEFINE t == ScriptText(c)
           d == Sink(c, t)
<1>1. c.caret = Len(c.input) /\ ~Loose(c) => t = c.input
  BY ScriptTextInFull
<1> HIDE DEF t
<1>2. IsContext(d) /\ d.active = c.active /\ SentInFull(d.sent)
  BY <1>1, SinkInFull
<1>3. CommitScriptText(c) = Clear(d)
  BY DEF CommitScriptText, t
<1> HIDE DEF d
<1> QED BY <1>2, <1>3, ClearRests DEF Standing, Good

------------------------------------------------------------------------------
(* Changes to the segments of a context. *)

WithSegs(c, segs) == [c EXCEPT !.segs = segs]

LEMMA WithSegsIs ==
    ASSUME NEW c, IsContext(c), NEW segs
    PROVE  LET d == WithSegs(c, segs)
           IN  /\ IsContext(d) /\ d.segs = segs /\ d.input = c.input /\ d.caret = c.caret
               /\ d.active = c.active /\ d.sent = c.sent
BY DEF IsContext, WithSegs

LEMMA WithSegsGood ==
    ASSUME NEW c, NEW X, Good(c, X), NEW segs, NEW Y, Whole(segs, c.active, Y)
    PROVE  Good(WithSegs(c, segs), Y)
<1> DEFINE d == WithSegs(c, segs)
<1> HIDE DEF d
<1> QED BY WithSegsIs DEF Good, d

LEMMA WithSegsStands ==
    ASSUME NEW c, Standing(c), NEW segs, Whole(segs, c.active, {}), VoidIsEmpty(segs)
    PROVE  Standing(WithSegs(c, segs))
<1> DEFINE d == WithSegs(c, segs)
<1>1. Good(c, {}) /\ Follows(c)
  BY DEF Standing
<1>2. /\ IsContext(d) /\ d.segs = segs /\ d.input = c.input /\ d.caret = c.caret
      /\ d.active = c.active /\ d.sent = c.sent
  BY <1>1, WithSegsIs DEF Good
<1> HIDE DEF d
<1> QED BY <1>1, <1>2, WithSegsGood DEF Standing, Follows, d

(* The last segment replaced. *)
LEMMA WithLastStands ==
    ASSUME NEW c, Standing(c), c.segs # <<>>, NEW x \in Segment, x.start = Last(c.segs).start,
           x.start <= x.end, x.end <= Len(c.active), IsEmpty(x) => x.menu = <<>>,
           Fitted(x, c.active), x.status = kVoid => IsEmpty(x)
    PROVE  /\ Standing(WithLast(c, x)) /\ WithLast(c, x).segs # <<>> /\ Last(WithLast(c, x).segs) = x
           /\ WithLast(c, x).input = c.input /\ WithLast(c, x).caret = c.caret
           /\ WithLast(c, x).active = c.active /\ WithLast(c, x).sent = c.sent
<1> DEFINE r == Append(Front(c.segs), x)
           n == Len(c.segs)
<1>1. IsContext(c) /\ Whole(c.segs, c.active, {}) /\ VoidIsEmpty(c.segs) /\ c.active \in Texts
  BY DEF Standing, Good
<1>2. c.segs \in Seq(Segment) /\ Len(c.active) \in Nat
  BY <1>1, TextIsSeq DEF Whole
<1>3. Whole(r, c.active, {})
  BY <1>1, <1>2, ReplacedWhole DEF Sound
<1>4. /\ r \in Seq(Segment) /\ r # <<>> /\ Len(r) = n /\ r[n] = x /\ Last(r) = x
      /\ \A i \in 1..n - 1 : r[i] = c.segs[i]
  <2> DEFINE segs == c.segs
  <2>1. segs \in Seq(Segment) /\ segs # <<>>
    BY <1>2
  <2> HIDE DEF segs
  <2> QED BY <2>1, LastReplaced DEF segs
<1>5. n \in Nat /\ DOMAIN c.segs = 1..n
  BY <1>2, Ends
<1> HIDE DEF r, n
<1>6. VoidIsEmpty(r)
  <2> SUFFICES ASSUME NEW i \in 1..n, r[i].status = kVoid PROVE IsEmpty(r[i])
    BY <1>4, Ends DEF VoidIsEmpty
  <2>1. CASE i = n
    BY <2>1, <1>4
  <2>2. CASE i # n
    BY <2>2, <1>5, <1>1, <1>4 DEF VoidIsEmpty
  <2> QED BY <2>1, <2>2
<1>7. WithLast(c, x) = WithSegs(c, r)
  BY DEF WithLast, WithSegs, r
<1>8. Standing(WithSegs(c, r))
  BY <1>3, <1>6, WithSegsStands
<1> QED BY <1>4, <1>7, <1>8, <1>1, WithSegsIs

LEMMA ForwardedStands ==
    ASSUME NEW c, Standing(c)
    PROVE  /\ Standing(Forwarded(c))
           /\ CurrentEnd(Forwarded(c).segs) = CurrentEnd(c.segs)
           /\ LastIsOpen(Forwarded(c).segs)
           /\ Forwarded(c).input = c.input /\ Forwarded(c).caret = c.caret
           /\ Forwarded(c).active = c.active /\ Forwarded(c).sent = c.sent
<1> DEFINE r == Forward(c.segs)
<1>1. IsContext(c) /\ Whole(c.segs, c.active, {}) /\ VoidIsEmpty(c.segs) /\ c.active \in Texts
  BY DEF Standing, Good
<1>2. Whole(r, c.active, {})
  BY <1>1, ForwardWhole
<1>3. CurrentEnd(r) = CurrentEnd(c.segs)
  BY <1>1, ForwardWhole, ZenonT(30)
<1>4. r # <<>> => IsEmpty(Last(r))
  BY <1>1, ForwardWhole
<1>5. \A i \in 1..Len(c.segs) : r[i] = c.segs[i]
  BY <1>1, ForwardWhole
<1>6. VoidIsEmpty(r)
  <2>1. DOMAIN c.segs = 1..Len(c.segs) /\ Len(c.segs) \in Nat
    BY <1>1, Ends DEF Whole
  <2>2. CASE c.segs = <<>> \/ IsEmpty(Last(c.segs))
    BY <2>2, <1>1 DEF Forward
  <2>3. CASE ~(c.segs = <<>> \/ IsEmpty(Last(c.segs)))
    <3>1. Len(r) = Len(c.segs) + 1
      <4> DEFINE x == NewSegment(Last(c.segs).end, Last(c.segs).end, {})
      <4>1. r = Append(c.segs, x)
        BY <2>3 DEF Forward
      <4> HIDE DEF r, x
      <4> QED BY <4>1, <2>1
    <3>2. DOMAIN r = 1..Len(r) /\ Last(r) = r[Len(r)] /\ r # <<>>
      BY <3>1, <2>1, <1>2, Ends DEF Whole
    <3> HIDE DEF r
    <3> SUFFICES ASSUME NEW i \in 1..Len(c.segs) + 1, r[i].status = kVoid PROVE IsEmpty(r[i])
      BY <3>1, <3>2 DEF VoidIsEmpty
    <3>3. CASE i = Len(c.segs) + 1
      BY <3>1, <3>2, <3>3, <1>4
    <3>4. CASE i # Len(c.segs) + 1
      BY <3>4, <2>1, <1>1, <1>5 DEF VoidIsEmpty
    <3> QED BY <3>3, <3>4
  <2> QED BY <2>2, <2>3
<1>7. LastIsOpen(r)
  BY <1>4 DEF LastIsOpen
<1>8. Forwarded(c) = WithSegs(c, r)
  BY DEF Forwarded, WithSegs
<1> HIDE DEF r
<1>9. Standing(WithSegs(c, r))
  BY <1>2, <1>6, WithSegsStands
<1> QED BY <1>3, <1>7, <1>8, <1>9, <1>1, WithSegsIs

LEMMA ComposeRests ==
    ASSUME NEW c, Good(c, {})
    PROVE  Resting(Compose(c)) /\ Compose(c).sent = c.sent
BY ComposeGood, ComposedRests

------------------------------------------------------------------------------
(* Choosing. *)

LEMMA LastSegment ==
    ASSUME NEW c, Standing(c), c.segs # <<>>
    PROVE  LET seg == Last(c.segs)
           IN  /\ seg \in Segment /\ seg.start <= seg.end /\ seg.end <= Len(c.active)
               /\ ShownFits(seg, c.active)
               /\ IsEmpty(seg) => Count(seg) = 0 /\ seg.menu = <<>>
               /\ seg.status = kVoid => Count(seg) = 0 /\ IsEmpty(seg)
               /\ seg.status = kGuess => seg.menu = Covered(c.active, seg)
               /\ Fitted(seg, c.active)
               /\ seg.end = CurrentEnd(c.segs) /\ seg.start = CurrentStart(c.segs)
<1> DEFINE n == Len(c.segs)
           seg == Last(c.segs)
<1>1. Whole(c.segs, c.active, {}) /\ VoidIsEmpty(c.segs) /\ c.active \in Texts
  BY DEF Standing, Good
<1>2. seg = c.segs[n] /\ n \in DOMAIN c.segs
  BY <1>1, Ends DEF Whole
<1>3. Fitted(c.segs[n], c.active) /\ (IsEmpty(c.segs[n]) => c.segs[n].menu = <<>>)
  BY <1>1, <1>2 DEF Whole, Chained, Sound
<1>4. c.segs[n].status = kVoid => IsEmpty(c.segs[n])
  BY <1>1, <1>2 DEF VoidIsEmpty
<1>5. seg.end = CurrentEnd(c.segs) /\ seg.start = CurrentStart(c.segs)
  BY DEF CurrentEnd, CurrentStart
<1> HIDE DEF n, seg
<1> QED BY <1>2, <1>1, WholeShown, <1>3, <1>4, <1>5 DEF seg

(* A segment is chosen as it is shown. *)
LEMMA MarkedFits ==
    ASSUME NEW seg \in Segment, NEW text, ShownFits(seg, text), NEW status \in {kSelected, kConfirmed}
    PROVE  LET x == [seg EXCEPT !.status = status]
           IN  /\ x \in Segment /\ x.start = seg.start /\ x.end = seg.end /\ x.menu = seg.menu
               /\ x.status = status /\ x.index = seg.index /\ x.length = seg.length
               /\ Fitted(x, text) /\ ShownFits(x, text)
<1> DEFINE x == [seg EXCEPT !.status = status]
<1>1. /\ x \in Segment /\ x.start = seg.start /\ x.end = seg.end /\ x.menu = seg.menu
      /\ x.status = status /\ x.index = seg.index /\ x.length = seg.length
  BY DEF Segment
<1> HIDE DEF x
<1>2. ShownFits(x, text)
  BY <1>1 DEF ShownFits, HasCandidate, Count, CandidateEnd, CandidateLength, Converted
<1> QED BY <1>1, <1>2 DEF x, ShownFits, Fitted

LEMMA LastMarked ==
    ASSUME NEW c, Standing(c), c.segs # <<>>, NEW status \in {kSelected, kConfirmed}
    PROVE  LET x == [Last(c.segs) EXCEPT !.status = status]
               d == WithLast(c, x)
           IN  /\ Standing(d) /\ d.segs # <<>> /\ Last(d.segs) = x
               /\ x.status = status /\ x.end = Last(c.segs).end /\ x.start = Last(c.segs).start
               /\ d.input = c.input /\ d.caret = c.caret /\ d.active = c.active /\ d.sent = c.sent
<1> DEFINE seg == Last(c.segs)
           x == [seg EXCEPT !.status = status]
           d == WithLast(c, x)
<1>1. /\ seg \in Segment /\ seg.start <= seg.end /\ seg.end <= Len(c.active)
      /\ ShownFits(seg, c.active) /\ (IsEmpty(seg) => seg.menu = <<>>)
  BY LastSegment
<1>2. seg = Last(c.segs)
  OBVIOUS
<1> HIDE DEF seg
<1>3. /\ x \in Segment /\ x.start = seg.start /\ x.end = seg.end /\ x.menu = seg.menu
      /\ x.status = status /\ Fitted(x, c.active)
  BY <1>1, MarkedFits
<1> HIDE DEF x
<1>4. (IsEmpty(x) => x.menu = <<>>) /\ (x.status = kVoid => IsEmpty(x))
  BY <1>1, <1>3 DEF IsEmpty
<1> HIDE DEF d
<1> QED BY <1>3, <1>2, <1>1, <1>4, WithLastStands DEF d, x, seg

LEMMA ClosedFits ==
    ASSUME NEW seg \in Segment, NEW text, seg.start <= seg.end, seg.status >= kSelected,
           Fitted(seg, text), IsEmpty(seg) => seg.menu = <<>>
    PROVE  LET x == Close(seg)
           IN  /\ x \in Segment /\ x.start = seg.start /\ x.start <= x.end /\ x.end <= seg.end
               /\ x.status = seg.status /\ Fitted(x, text) /\ (IsEmpty(x) => x.menu = <<>>)
<1>1. seg.start \in Nat /\ seg.end \in Nat /\ seg.tags \in SUBSET Tags
  BY DEF Segment
<1>2. CASE HasCandidate(seg) /\ CandidateEnd(seg) < seg.end
  <2> DEFINE tags == seg.tags \union {"partial"}
             e == CandidateEnd(seg)
             x == [seg EXCEPT !.end = e, !.tags = tags]
  <2>1. Close(seg) = x
    BY <1>2 DEF Close
  <2>2. tags \in SUBSET Tags
    BY <1>1 DEF Tags
  <2>3. e \in Nat /\ e > seg.start /\ e < seg.end
    BY <1>2, CandidateOf
  <2>4. Converted(seg) = SubSeq(text, seg.start + 1, e)
    BY <1>2 DEF Fitted
  <2>5. e = CandidateEnd(seg)
    OBVIOUS
  <2> HIDE DEF tags, e
  <2>6. /\ x \in Segment /\ x.start = seg.start /\ x.end = e /\ x.status = seg.status
        /\ x.menu = seg.menu /\ x.index = seg.index
    BY <2>2, <2>3 DEF Segment
  <2> HIDE DEF x
  <2>7. CandidateEnd(x) = e /\ Converted(x) = Converted(seg)
    BY <2>5, <2>6 DEF CandidateEnd, CandidateLength, Converted
  <2>8. Fitted(x, text)
    BY <2>4, <2>6, <2>7, <2>3 DEF Fitted
  <2>9. ~IsEmpty(x)
    BY <2>3, <2>6, <1>1 DEF IsEmpty
  <2> QED BY <2>1, <2>3, <2>6, <2>8, <2>9, <1>1
<1>3. CASE ~(HasCandidate(seg) /\ CandidateEnd(seg) < seg.end)
  BY <1>3, <1>1 DEF Close
<1> QED BY <1>2, <1>3

LEMMA OnClosedRests ==
    ASSUME NEW c, Standing(c), c.segs # <<>>
    PROVE  Resting(OnClosed(c))
<1> DEFINE conf == Confirmed(c)
           seg == Last(c.segs)
<1>1. /\ Standing(conf) /\ conf.segs # <<>> /\ Last(conf.segs).end = seg.end
      /\ conf.input = c.input /\ conf.caret = c.caret
  <2> DEFINE x == [Last(c.segs) EXCEPT !.status = kConfirmed]
  <2>1. /\ Standing(WithLast(c, x)) /\ WithLast(c, x).segs # <<>> /\ Last(WithLast(c, x).segs) = x
        /\ x.end = Last(c.segs).end
        /\ WithLast(c, x).input = c.input /\ WithLast(c, x).caret = c.caret
    BY LastMarked
  <2>2. conf = WithLast(c, x)
    BY DEF Confirmed
  <2> HIDE DEF x, conf
  <2> QED BY <2>1, <2>2
<1> HIDE DEF conf
<1>2. c.input \in Texts /\ c.caret \in 0..Len(c.input) /\ Len(c.input) \in Nat
  BY TextIsSeq DEF Standing, Good
<1>3. CASE seg.end = Len(c.input)
  <2>1. CASE editor.auto_commit
    BY <1>3, <2>1, <1>1, CommitRests DEF OnClosed, conf
  <2>2. CASE ~editor.auto_commit
    <3> DEFINE d == Forwarded(conf)
    <3>1. OnClosed(c) = d
      BY <1>3, <2>2 DEF OnClosed, conf
    <3>2. /\ Standing(d) /\ CurrentEnd(d.segs) = CurrentEnd(conf.segs) /\ LastIsOpen(d.segs)
          /\ d.caret = conf.caret
      BY <1>1, ForwardedStands
    <3> HIDE DEF d
    <3> QED BY <3>1, <3>2, <1>1, <1>3, <1>2 DEF Resting, CurrentEnd
  <2> QED BY <2>1, <2>2
<1>4. CASE seg.end # Len(c.input)
  <2> DEFINE d == Forwarded(c)
  <2>1. Standing(d) /\ d.input = c.input
    BY ForwardedStands
  <2>2. OnClosed(c) = SetCaret(d, Len(c.input)) \/ OnClosed(c) = Compose(d)
    BY <1>4 DEF OnClosed
  <2> HIDE DEF d
  <2> DEFINE p == Len(c.input)
  <2>3. Good(d, {}) /\ p \in 0..Len(d.input)
    BY <2>1, <1>2 DEF Standing
  <2> HIDE DEF p
  <2> QED BY <2>2, <2>3, SetCaretRests, ComposeRests DEF p
<1> QED BY <1>3, <1>4

(* The last segment closed. *)
LEMMA ClosedStands ==
    ASSUME NEW c, Standing(c), c.segs # <<>>, Last(c.segs).status >= kSelected
    PROVE  LET x == Close(Last(c.segs))
               d == WithLast(c, x)
           IN  x \in Segment /\ Standing(d) /\ d.segs # <<>>
<1> DEFINE seg == Last(c.segs)
           x == Close(seg)
           d == WithLast(c, x)
<1>1. /\ seg \in Segment /\ seg.start <= seg.end /\ seg.end <= Len(c.active)
      /\ Fitted(seg, c.active) /\ (IsEmpty(seg) => seg.menu = <<>>) /\ seg.status >= kSelected
  BY LastSegment
<1>2. seg = Last(c.segs)
  OBVIOUS
<1> HIDE DEF seg
<1>3. /\ x \in Segment /\ x.start = seg.start /\ x.start <= x.end /\ x.end <= seg.end
      /\ x.status = seg.status /\ Fitted(x, c.active) /\ (IsEmpty(x) => x.menu = <<>>)
  BY <1>1, ClosedFits
<1> HIDE DEF x
<1>4. x.end <= Len(c.active)
  BY <1>1, <1>3, TextIsSeq DEF Segment, Standing, Good
<1> HIDE DEF d
<1> QED BY <1>3, <1>1, <1>2, <1>4, WithLastStands DEF d, x, seg

LEMMA OnSelectRests ==
    ASSUME NEW c, Standing(c), c.segs # <<>>, Last(c.segs).status >= kSelected
    PROVE  Resting(OnSelect(c))
BY ClosedStands, OnClosedRests DEF OnSelect

LEMMA MarkedStands ==
    ASSUME NEW c, Standing(c)
    PROVE  /\ Standing(Marked(c))
           /\ c.segs # <<>> => Marked(c).segs # <<>> /\ Last(Marked(c).segs).status = kSelected
           /\ c.segs = <<>> => Marked(c) = c
           /\ Marked(c).input = c.input /\ Marked(c).caret = c.caret
           /\ CurrentEnd(Marked(c).segs) = CurrentEnd(c.segs)
<1>1. CASE c.segs = <<>>
  BY <1>1 DEF Marked
<1>2. CASE c.segs # <<>>
  <2> DEFINE x == [Last(c.segs) EXCEPT !.status = kSelected]
             d == WithLast(c, x)
  <2>1. /\ Standing(d) /\ d.segs # <<>> /\ Last(d.segs) = x
        /\ x.status = kSelected /\ x.end = Last(c.segs).end
        /\ d.input = c.input /\ d.caret = c.caret
    BY <1>2, LastMarked
  <2>2. Marked(c) = d
    BY <1>2 DEF Marked
  <2> HIDE DEF x, d
  <2> QED BY <2>1, <2>2, <1>2 DEF CurrentEnd
<1> QED BY <1>1, <1>2

LEMMA ConfirmSelectionRests ==
    ASSUME NEW c, Resting(c)
    PROVE  Resting(ConfirmCurrentSelection(c))
<1>1. Standing(c)
  BY DEF Resting
<1> DEFINE m == Marked(c)
<1>2. /\ Standing(m) /\ m.caret = c.caret /\ CurrentEnd(m.segs) = CurrentEnd(c.segs)
      /\ c.segs # <<>> => m.segs # <<>> /\ Last(m.segs).status = kSelected
      /\ c.segs = <<>> => m = c
  BY <1>1, MarkedStands
<1>3. CASE CanConfirm(c)
  <2>1. ConfirmCurrentSelection(c) = OnSelect(m) /\ c.segs # <<>>
    BY <1>3 DEF ConfirmCurrentSelection, CanConfirm
  <2> HIDE DEF m
  <2> QED BY <2>1, <1>2, OnSelectRests
<1>4. CASE ~CanConfirm(c)
  <2>1. ConfirmCurrentSelection(c) = m
    BY <1>4 DEF ConfirmCurrentSelection
  <2>2. CASE c.segs = <<>>
    BY <2>1, <2>2, <1>2
  <2>3. CASE c.segs # <<>>
    <3>1. Last(m.segs) = [Last(c.segs) EXCEPT !.status = kSelected]
      <4> DEFINE x == [Last(c.segs) EXCEPT !.status = kSelected]
      <4> QED BY <2>3, <1>1, LastMarked DEF Marked
    <3>2. IsEmpty(Last(m.segs))
      BY <2>3, <1>4, <3>1, <1>1, LastSegment DEF IsEmpty, Segment, CanConfirm
    <3> HIDE DEF m
    <3> QED BY <3>2, <1>2, <2>1 DEF Resting, LastIsOpen
  <2> QED BY <2>2, <2>3
<1> QED BY <1>3, <1>4

LEMMA MinOf ==
    ASSUME NEW i \in Nat, NEW k \in Nat
    PROVE  Min({i, k}) \in {i, k} /\ Min({i, k}) <= i /\ Min({i, k}) <= k
<1> DEFINE S == {i, k}
<1>1. \E x \in S : \A y \in S : x <= y
  <2>1. CASE i <= k
    BY <2>1
  <2>2. CASE ~(i <= k)
    BY <2>2
  <2> QED BY <2>1, <2>2
<1>2. Min(S) \in S /\ \A y \in S : Min(S) <= y
  <2> HIDE DEF S
  <2> QED BY <1>1, Zenon DEF Min
<1> QED BY <1>2

(* The last segment chosen. *)
LEMMA SelectedStands ==
    ASSUME NEW c, Resting(c), NEW i \in Nat, CanSelect(c, i)
    PROVE  LET x == [Last(c.segs) EXCEPT !.index = i, !.status = kSelected]
               d == WithLast(c, x)
           IN  x \in Segment /\ x.status = kSelected /\ Standing(d) /\ d.segs # <<>> /\ Last(d.segs) = x
<1> DEFINE seg == Last(c.segs)
           x == [seg EXCEPT !.index = i, !.status = kSelected]
           d == WithLast(c, x)
<1>1. Standing(c) /\ LastIsOpen(c.segs) /\ c.segs # <<>> /\ i < Count(seg) /\ c.active \in Texts
  BY DEF Resting, CanSelect, Standing, Good
<1>2. /\ seg \in Segment /\ seg.start <= seg.end /\ seg.end <= Len(c.active)
      /\ IsEmpty(seg) => Count(seg) = 0
      /\ seg.status = kVoid => Count(seg) = 0
      /\ seg.status = kGuess => seg.menu = Covered(c.active, seg)
  BY <1>1, LastSegment
<1>3. (seg.status >= kSelected => IsEmpty(seg)) /\ seg = Last(c.segs)
  BY <1>1 DEF LastIsOpen
<1> HIDE DEF seg
<1>4. /\ x \in Segment /\ x.start = seg.start /\ x.end = seg.end /\ x.menu = seg.menu
      /\ x.status = kSelected
  <2>1. x = [seg EXCEPT !.index = i, !.status = kSelected] /\ kSelected \in kVoid..kConfirmed
    OBVIOUS
  <2> HIDE DEF x
  <2> QED BY <2>1, <1>2 DEF Segment
<1> HIDE DEF x
<1>5. x.menu = Covered(c.active, x) /\ ~IsEmpty(x)
  BY <1>2, <1>1, <1>3, <1>4 DEF Covered, IsEmpty, Segment
<1>6. Standing(d) /\ d.segs # <<>> /\ Last(d.segs) = x
  BY <1>1, <1>2, <1>3, <1>4, <1>5, GuessFits, WithLastStands DEF Fitted, ShownFits
<1> HIDE DEF d
<1> QED BY <1>4, <1>6 DEF d, x, seg

LEMMA SelectRests ==
    ASSUME NEW c, Resting(c), NEW i \in Nat, CanSelect(c, i)
    PROVE  Resting(Select(c, i))
<1> DEFINE x == [Last(c.segs) EXCEPT !.index = i, !.status = kSelected]
           d == WithLast(c, x)
<1>1. x.status = kSelected /\ Standing(d) /\ d.segs # <<>> /\ Last(d.segs) = x
  BY SelectedStands
<1>2. Select(c, i) = OnSelect(d)
  BY DEF Select
<1> HIDE DEF x, d
<1> QED BY <1>1, <1>2, OnSelectRests

LEMMA HighlightRests ==
    ASSUME NEW c, Resting(c), NEW i \in Nat, CanHighlight(c, i)
    PROVE  Resting(Highlight(c, i))
<1> DEFINE seg == Last(c.segs)
           k == HighlightIndex(c, i)
           x == [seg EXCEPT !.index = k]
           d == WithLast(c, x)
<1>1. Standing(c) /\ LastIsOpen(c.segs) /\ c.segs # <<>> /\ c.active \in Texts
  BY DEF Resting, CanHighlight, Standing, Good
<1>2. /\ seg \in Segment /\ seg.start <= seg.end /\ seg.end <= Len(c.active)
      /\ IsEmpty(seg) => Count(seg) = 0 /\ seg.menu = <<>>
      /\ seg.status = kVoid => IsEmpty(seg)
      /\ seg.status = kGuess => seg.menu = Covered(c.active, seg)
  BY <1>1, LastSegment
<1>3. (seg.status >= kSelected => IsEmpty(seg)) /\ seg = Last(c.segs) /\ Highlight(c, i) = Compose(d)
  BY <1>1 DEF LastIsOpen, Highlight
<1>4. k \in Nat
  <2>1. CASE HasMenu(c)
    <3> DEFINE n == Count(seg) - 1
    <3>1. n \in Nat
      BY <2>1, <1>2, CandidateOf DEF HasMenu
    <3>2. k = Min({i, n})
      BY <2>1 DEF HighlightIndex
    <3> HIDE DEF n, k
    <3> QED BY <3>1, <3>2, MinOf
  <2>2. CASE ~HasMenu(c)
    BY <2>2 DEF HighlightIndex
  <2> QED BY <2>1, <2>2
<1> HIDE DEF seg, k
<1>5. /\ x \in Segment /\ x.start = seg.start /\ x.end = seg.end /\ x.menu = seg.menu
      /\ x.status = seg.status
  BY <1>2, <1>4 DEF Segment
<1> HIDE DEF x
<1>6. Covered(c.active, x) = Covered(c.active, seg) /\ (IsEmpty(x) <=> IsEmpty(seg))
  BY <1>5 DEF Covered, IsEmpty
<1>7. Fitted(x, c.active)
  <2>1. x.status >= kSelected => ~HasCandidate(x)
    <3> SUFFICES ASSUME x.status >= kSelected PROVE ~HasCandidate(x)
      OBVIOUS
    <3>1. x.menu = <<>>
      BY <1>2, <1>3, <1>5
    <3>2. Count(x) = 0 /\ x.index \in Nat
      BY <3>1, <1>5, CandidateOf DEF Segment
    <3> QED BY <3>2 DEF HasCandidate
  <2> QED BY <2>1, <1>2, <1>5, <1>6 DEF Fitted
<1>8. Standing(d)
  BY <1>1, <1>2, <1>3, <1>5, <1>6, <1>7, WithLastStands
<1> HIDE DEF d
<1> QED BY <1>3, <1>8, ComposeRests DEF Standing

LEMMA ClearSegmentRests ==
    ASSUME NEW c, Resting(c), CanClearSegment(c)
    PROVE  Resting(ClearPreviousSegment(c))
<1> DEFINE k == Last(c.segs).start
           t == SubSeq(c.input, 1, k)
<1>1. Good(c, {}) /\ Standing(c) /\ c.input \in Texts /\ Len(c.input) \in Nat /\ c.segs # <<>> /\ k < Len(c.input)
  BY TextIsSeq DEF Resting, Standing, Good, CanClearSegment
<1>2. k \in Nat
  BY <1>1, LastSegment DEF Segment
<1> HIDE DEF k
<1>3. t \in Texts
  BY <1>1, <1>2, PartIsText
<1>4. ClearPreviousSegment(c) = SetInput(c, t)
  BY DEF ClearPreviousSegment, k
<1> HIDE DEF t
<1> QED BY <1>1, <1>3, <1>4, SetInputRests

------------------------------------------------------------------------------
(* Going back. *)

LEMMA LastChosenOf ==
    ASSUME NEW c, c.segs \in Seq(Segment)
    PROVE  /\ LastChosen(c) \in 0..Len(c.segs)
           /\ LastChosen(c) # 0 => c.segs[LastChosen(c)].status >= kSelected
           /\ \A i \in DOMAIN c.segs : c.segs[i].status >= kSelected => i <= LastChosen(c)
<1> DEFINE chosen == {i \in DOMAIN c.segs : c.segs[i].status >= kSelected}
           n == Len(c.segs)
<1>1. n \in Nat /\ DOMAIN c.segs = 1..n
  BY Ends
<1>2. LastChosen(c) = IF chosen = {} THEN 0 ELSE Max(chosen)
  BY DEF LastChosen
<1>3. chosen \subseteq 0..n
  BY <1>1
<1>4. CASE chosen = {}
  BY <1>1, <1>2, <1>4
<1>5. CASE chosen # {}
  <2>1. Max(chosen) \in chosen /\ \A j \in chosen : j <= Max(chosen)
    <3> HIDE DEF chosen
    <3> QED BY <1>1, <1>3, <1>5, MaxOf
  <2> HIDE DEF n
  <2> QED BY <1>2, <1>5, <2>1, <1>1, <1>3 DEF n
<1> QED BY <1>4, <1>5

LEMMA PrefixStands ==
    ASSUME NEW c, Standing(c), NEW n \in 0..Len(c.segs)
    PROVE  LET d == WithSegs(c, SubSeq(c.segs, 1, n))
           IN  /\ Standing(d) /\ d.segs = SubSeq(c.segs, 1, n)
               /\ d.input = c.input /\ d.caret = c.caret /\ d.active = c.active /\ d.sent = c.sent
<1> DEFINE r == SubSeq(c.segs, 1, n)
           text == c.active
           segs == c.segs
           X == {}
<1>1. IsContext(c) /\ Whole(segs, text, X) /\ VoidIsEmpty(segs) /\ text \in Texts /\ n \in 0..Len(segs)
  BY DEF Standing, Good
<1>2. segs \in Seq(Segment) /\ Len(text) \in Nat /\ Len(segs) \in Nat /\ DOMAIN segs = 1..Len(segs)
  BY <1>1, Ends, TextIsSeq DEF Whole
<1>3. \A i \in 1..n : i \in DOMAIN segs
  BY <1>2
<1>4. n = 0 \/ segs[n].end <= Len(text)
  BY <1>2, <1>1, WholeShown
<1>5. r = SubSeq(segs, 1, n)
  OBVIOUS
<1>6. VoidIsEmpty(r)
  BY <1>1, <1>3, <1>2, Prefix, Ends DEF VoidIsEmpty
<1>7. Whole(r, text, X)
  <2> HIDE DEF r, segs, text, X
  <2>1. Whole(SubSeq(segs, 1, n), text, X)
    BY <1>1, <1>2, <1>3, <1>4, PrefixWhole DEF Whole
  <2> QED BY <2>1, <1>5
<1> HIDE DEF r
<1>8. /\ WithSegs(c, r).segs = r /\ WithSegs(c, r).input = c.input /\ WithSegs(c, r).caret = c.caret
      /\ WithSegs(c, r).active = c.active /\ WithSegs(c, r).sent = c.sent
  BY <1>1, WithSegsIs
<1> QED BY <1>6, <1>7, WithSegsStands, <1>8 DEF r

LEMMA ClearNonConfirmedStands ==
    ASSUME NEW c, Standing(c)
    PROVE  Standing(ClearNonConfirmed(c))
<1>1. CASE AllConfirmed(c)
  BY <1>1 DEF ClearNonConfirmed
<1>2. CASE ~AllConfirmed(c)
  <2> DEFINE k == LastChosen(c)
             d == WithSegs(c, SubSeq(c.segs, 1, k))
  <2>1. k \in 0..Len(c.segs)
    BY LastChosenOf DEF Standing, Good, Whole
  <2>2. ClearNonConfirmed(c) = Forwarded(d)
    BY <1>2 DEF ClearNonConfirmed, WithSegs
  <2> HIDE DEF k
  <2>3. Standing(d)
    BY <2>1, PrefixStands
  <2> HIDE DEF d
  <2> QED BY <2>2, <2>3, ForwardedStands
<1> QED BY <1>1, <1>2

LEMMA RefreshRests ==
    ASSUME NEW c, Resting(c)
    PROVE  Resting(Refresh(c))
BY ClearNonConfirmedStands, ComposeRests DEF Refresh, Standing, Resting

(* A choice taken back may stand for a text that has changed since, or was *)
(* cut shorter: its place is then one of those that need not fit.          *)
Reopened(c) == {i \in DOMAIN c.segs : i = Len(c.segs) /\ c.segs[i].status >= kSelected}

LEMMA ReopenedIs ==
    ASSUME NEW seg \in Segment, NEW n \in Nat, NEW p \in Nat, seg.start <= seg.end, seg.end <= n, p <= n,
           IsEmpty(seg) => seg.menu = <<>>
    PROVE  LET x == Reopen(seg, p)
           IN  /\ x \in Segment /\ x.start = seg.start /\ x.start <= x.end /\ x.end <= n
               /\ IsEmpty(x) => x.menu = <<>>
               /\ seg.status < kSelected => x = seg
               /\ x.status < kSelected
<1> DEFINE x == Reopen(seg, p)
<1>1. /\ seg.start \in Nat /\ seg.end \in Nat /\ seg.length \in Nat /\ seg.status \in kVoid..kConfirmed
      /\ seg.tags \ {"partial"} \in SUBSET Tags
  BY DEF Segment
<1>2. CASE seg.status < kSelected
  BY <1>2 DEF Reopen
<1>3. CASE ~(seg.status < kSelected) /\ OriginalEnd(seg) # p
  <2> HIDE DEF x
  <2> QED BY <1>3, <1>1 DEF IsEmpty, x, Segment, Reopen
<1>4. CASE ~(seg.status < kSelected) /\ OriginalEnd(seg) = p
  <2>1. CASE seg.end < p
    <3> DEFINE tags == seg.tags \ {"partial"}
    <3>1. x = [seg EXCEPT !.status = kGuess, !.end = p, !.tags = tags] /\ tags \in SUBSET Tags
      BY <1>1, <1>4, <2>1 DEF Reopen
    <3> HIDE DEF x, tags
    <3>2. x = [status |-> kGuess, start |-> seg.start, end |-> p, length |-> seg.length,
               tags |-> tags, menu |-> seg.menu, index |-> seg.index]
      BY <3>1 DEF Segment
    <3> QED BY <3>2, <3>1, <1>1, <2>1, <1>4 DEF IsEmpty, x, Segment
  <2>2. CASE ~(seg.end < p)
    <3> HIDE DEF x
    <3> QED BY <1>4, <2>2, <1>1 DEF IsEmpty, x, Segment, Reopen
  <2> QED BY <2>1, <2>2
<1> QED BY <1>2, <1>3, <1>4

LEMMA ReopenLastGood ==
    ASSUME NEW c, Good(c, {}), c.caret <= Len(c.active)
    PROVE  Good(ReopenLast(c), Reopened(c))
<1> DEFINE segs == c.segs
           text == c.active
           n == Len(segs)
           X == Reopened(c)
<1>1. /\ IsContext(c) /\ Whole(segs, text, {}) /\ text \in Texts /\ Len(text) \in Nat
      /\ c.caret \in Nat /\ c.caret <= Len(text)
  BY TextIsSeq DEF Good
<1>2. /\ segs \in Seq(Segment) /\ n \in Nat /\ DOMAIN segs = 1..n
      /\ \A i \in 1..n : segs[i] \in Segment
  BY <1>1, Ends DEF Whole
<1>3. CASE segs = <<>>
  BY <1>2, <1>3 DEF ReopenLast, Reopened
<1>4. CASE segs # <<>>
  <2> DEFINE seg == Last(segs)
             x == Reopen(seg, c.caret)
             k == n - 1
             front == Front(segs)
  <2>1. /\ n \in DOMAIN segs /\ n \in Nat \ {0} /\ seg = segs[n] /\ seg \in Segment
        /\ k \in 0..Len(segs)
    BY <1>2, <1>4, Ends
  <2>2. /\ seg.start <= seg.end /\ seg.end <= Len(text) /\ (IsEmpty(seg) => seg.menu = <<>>)
        /\ seg.start = IF n = 1 THEN 0 ELSE segs[n - 1].end
        /\ Sound(seg, n, text, {})
    <3> HIDE DEF seg, n
    <3> QED BY <1>1, <1>2, <1>4, <2>1, EndOf, SMTT(30) DEF Chained, Whole
  <2>3. /\ x \in Segment /\ x.start = seg.start /\ x.start <= x.end /\ x.end <= Len(text)
        /\ IsEmpty(x) => x.menu = <<>>
        /\ seg.status < kSelected => x = seg
        /\ x.status < kSelected
    <3> HIDE DEF seg
    <3> QED BY <1>1, <2>1, <2>2, ReopenedIs
  <2>4. X = IF seg.status >= kSelected THEN {n} ELSE {}
    BY <2>1 DEF Reopened
  <2>5. Sound(x, n, text, X)
    <3> HIDE DEF x, seg, n
    <3>1. CASE seg.status >= kSelected
      BY <2>3, <2>4, <3>1 DEF Sound
    <3>2. CASE ~(seg.status >= kSelected)
      <4>1. seg.status < kSelected /\ X = {}
        BY <2>1, <2>4, <3>2, SMTT(30) DEF Segment
      <4> QED BY <2>2, <2>3, <4>1
    <3> QED BY <3>1, <3>2
  <2>6. \A i \in 1..k : Sound(segs[i], i, text, X)
    <3> SUFFICES ASSUME NEW i \in 1..k PROVE Sound(segs[i], i, text, X)
      OBVIOUS
    <3> QED BY <1>1, <2>4, <1>2 DEF Sound, Whole
  <2>7. k = 0 \/ segs[k].end <= Len(text)
    <3>1. k # 0 => k \in DOMAIN segs /\ k < n
      <4> HIDE DEF n, segs
      <4> QED BY <1>2, <2>1
    <3>2. k # 0 => segs[k].end \in Nat /\ segs[n].start \in Nat /\ segs[n].end \in Nat
      BY <1>2, <2>1, <3>1 DEF Segment
    <3> QED BY <1>1, <2>1, <3>1, <3>2, <2>2 DEF Whole, Chained
  <2>8. /\ Whole(SubSeq(segs, 1, k), text, X)
        /\ CurrentEnd(SubSeq(segs, 1, k)) = IF k = 0 THEN 0 ELSE segs[k].end
        /\ k = 0 => SubSeq(segs, 1, k) = <<>>
        /\ k # 0 => SubSeq(segs, 1, k) # <<>> /\ Last(SubSeq(segs, 1, k)) = segs[k]
        /\ k # 0 /\ k # Len(segs) => ~IsEmpty(segs[k])
    <3> DEFINE Y == {}
               r == SubSeq(segs, 1, k)
    <3>1. Whole(segs, text, Y)
      BY <1>1
    <3>2. \A i \in 1..k : Sound(segs[i], i, text, Y)
      <4> SUFFICES ASSUME NEW i \in 1..k PROVE i \in DOMAIN segs
        BY <3>1 DEF Whole
      <4> QED BY <1>2
    <3> HIDE DEF k, X, Y, segs, text
    <3>3. /\ Whole(SubSeq(segs, 1, k), text, Y)
          /\ CurrentEnd(SubSeq(segs, 1, k)) = IF k = 0 THEN 0 ELSE segs[k].end
          /\ k = 0 => SubSeq(segs, 1, k) = <<>>
          /\ k # 0 => SubSeq(segs, 1, k) # <<>> /\ Last(SubSeq(segs, 1, k)) = segs[k]
          /\ k # 0 /\ k # Len(segs) => ~IsEmpty(segs[k])
      BY <1>1, <2>1, <2>7, <3>1, <3>2, PrefixWhole
    <3>4. r \in Seq(Segment) /\ DOMAIN r = 1..k /\ \A i \in 1..k : r[i] = segs[i]
      BY <1>2, <2>1, Prefix, Ends
    <3>5. Whole(r, text, X)
      <4> HIDE DEF r
      <4> QED BY <3>3, <3>4, <2>6 DEF Whole, r
    <3> QED BY <3>3, <3>5
  <2>9. /\ Whole(front, text, X) /\ x.start = CurrentEnd(front)
        /\ front # <<>> => ~IsEmpty(Last(front))
        /\ Len(front) + 1 = n
    <3>1. Len(front) + 1 = n
      BY <1>2, <1>4, FrontOf
    <3> QED BY <2>2, <2>3, <2>8, <2>1, <3>1 DEF Front
  <2> HIDE DEF front, x, X, seg
  <2>10. Whole(Append(front, x), text, X)
    BY <1>1, <2>3, <2>9, <2>5, AppendedWhole
  <2> QED BY <2>10, <1>4, WithSegsGood DEF X, ReopenLast, WithLast, WithSegs, front, x, seg
<1> QED BY <1>3, <1>4

(* d is c composed anew with choices of c taken back. *)
ReopenedFrom(d, c) ==
    \E X : Composed(d, X) /\ \A i \in X : i \in DOMAIN c.segs /\ c.segs[i].status >= kSelected

LEMMA ReopenedFits ==
    ASSUME NEW d, NEW c, ReopenedFrom(d, c),
           \A i \in DOMAIN c.segs \cap DOMAIN d.segs :
               c.segs[i].status >= kSelected /\ d.segs[i].status = kGuess =>
                   d.segs[i].menu = Covered(d.active, d.segs[i])
    PROVE  Resting(d)
<1>1. PICK X : Composed(d, X) /\ \A i \in X : i \in DOMAIN c.segs /\ c.segs[i].status >= kSelected
  BY DEF ReopenedFrom
<1>2. Good(d, X) /\ \A i \in DOMAIN d.segs : d.segs[i].status >= kGuess
  BY <1>1 DEF Composed
<1>3. Whole(d.segs, d.active, X)
  BY <1>2 DEF Good
<1>4. \A i \in DOMAIN d.segs : Sound(d.segs[i], i, d.active, {})
  <2> SUFFICES ASSUME NEW i \in DOMAIN d.segs PROVE Fitted(d.segs[i], d.active)
    BY DEF Sound
  <2>1. Sound(d.segs[i], i, d.active, X)
    BY <1>3 DEF Whole
  <2>2. CASE i \notin X
    BY <2>1, <2>2 DEF Sound
  <2>3. CASE i \in X
    <3>1. d.segs[i].status \in 0..3
      <4> DEFINE segs == d.segs
      <4>1. segs \in Seq(Segment) /\ i \in DOMAIN segs
        BY <1>3 DEF Whole
      <4> HIDE DEF segs
      <4>2. segs[i] \in Segment
        BY <4>1, Ends
      <4> QED BY <4>2 DEF Segment, segs
    <3>2. d.segs[i].status = kGuess
      BY <1>2, <2>1, <2>3, <3>1 DEF Sound
    <3> QED BY <1>1, <2>3, <3>2 DEF Fitted
  <2> QED BY <2>2, <2>3
<1> QED BY <1>1, <1>2, <1>3, <1>4, ComposedRests DEF Composed, Good, Whole

LEMMA ComposedReopened ==
    ASSUME NEW c, NEW d, Good(d, {}), d.caret <= Len(d.active),
           \A i \in Reopened(d) : i \in DOMAIN c.segs /\ c.segs[i].status >= kSelected
    PROVE  ReopenedFrom(Compose(ReopenLast(d)), c)
BY ReopenLastGood, ComposeGood DEF ReopenedFrom

(* The part composed reaches the caret. *)
LEMMA CaretInActive ==
    ASSUME NEW c, Standing(c)
    PROVE  c.caret <= Len(c.active)
BY TextIsSeq, Prefix DEF Standing, Good, Follows

LEMMA ReopenPreviousSegmentReopens ==
    ASSUME NEW c, Resting(c)
    PROVE  ReopenedFrom(ReopenPreviousSegment(c), c)
<1> DEFINE r == Trim(c.segs)
           d == WithSegs(c, r)
           text == c.active
           segs == c.segs
           X == {}
<1>1. /\ Standing(c) /\ Good(c, {}) /\ IsContext(c) /\ Whole(segs, text, X) /\ text \in Texts
      /\ segs \in Seq(Segment)
  BY DEF Resting, Standing, Good, Whole
<1>2. /\ Whole(r, text, X) /\ r \in Seq(Segment) /\ DOMAIN r = 1..Len(r)
      /\ \A i \in 1..Len(r) : r[i] = segs[i] /\ i \in DOMAIN segs
  <2>1. /\ Whole(Trim(segs), text, X)
        /\ Len(Trim(segs)) = IF CanTrim(segs) THEN Len(segs) - 1 ELSE Len(segs)
        /\ \A i \in 1..Len(Trim(segs)) : Trim(segs)[i] = segs[i]
    <3> HIDE DEF segs, text, X
    <3> QED BY <1>1, TrimWhole, ZenonT(30)
  <2> HIDE DEF X
  <2> QED BY <2>1, <1>1, Ends DEF Whole
<1>3. d.segs = r /\ d.active = c.active /\ d.caret = c.caret
  BY <1>1, WithSegsIs
<1>4. Good(d, {})
  <2> HIDE DEF r
  <2> QED BY <1>1, <1>2, WithSegsGood
<1>5. ReopenPreviousSegment(c) = Compose(ReopenLast(d))
  BY DEF ReopenPreviousSegment, WithSegs
<1> HIDE DEF d, r
<1>6. d.caret <= Len(d.active)
  BY <1>1, <1>3, CaretInActive
<1> QED BY <1>4, <1>5, <1>2, <1>3, <1>6, ComposedReopened DEF Reopened

LEMMA ReopenPreviousSelectionReopens ==
    ASSUME NEW c, Resting(c)
    PROVE  ReopenedFrom(ReopenPreviousSelection(c), c)
<1> DEFINE k == LastChosen(c)
           r == SubSeq(c.segs, 1, k)
           d == WithSegs(c, r)
<1>1. Standing(c) /\ c.segs \in Seq(Segment)
  BY DEF Resting, Standing, Good, Whole
<1>2. k \in 0..Len(c.segs) /\ Len(c.segs) \in Nat /\ DOMAIN c.segs = 1..Len(c.segs)
  BY <1>1, LastChosenOf, Ends
<1>3. DOMAIN r = 1..k /\ \A i \in 1..k : r[i] = c.segs[i] /\ i \in DOMAIN c.segs
  <2> DEFINE segs == c.segs
  <2>1. segs \in Seq(Segment) /\ k \in 0..Len(segs) /\ Len(segs) \in Nat /\ DOMAIN segs = 1..Len(segs)
    BY <1>1, <1>2
  <2> HIDE DEF segs, k
  <2>2. \A i \in 1..k : i \in DOMAIN segs
    BY <2>1
  <2> QED BY <2>1, Prefix, Ends, <2>2 DEF segs
<1>4. ReopenPreviousSelection(c) = Compose(ReopenLast(d))
  BY DEF ReopenPreviousSelection, WithSegs
<1> HIDE DEF k
<1>5. Standing(d) /\ d.segs = r
  BY <1>1, <1>2, PrefixStands
<1> HIDE DEF d, r
<1>6. \A i \in Reopened(d) : i \in DOMAIN c.segs /\ c.segs[i].status >= kSelected
  BY <1>3, <1>5 DEF Reopened
<1>7. d.caret <= Len(d.active)
  BY <1>5, CaretInActive
<1> QED BY <1>4, <1>5, <1>6, <1>7, ComposedReopened DEF Standing

(* What is chosen in a context composed again was chosen in it before. *)
NotChosen(c) == {i \in Nat : ~(i \in DOMAIN c.segs /\ c.segs[i].status >= kSelected)}

LEMMA GoodElsewhere ==
    ASSUME NEW c, Good(c, {})
    PROVE  Good(c, NotChosen(c))
<1>1. Whole(c.segs, c.active, {})
  BY DEF Good
<1>2. \A i \in DOMAIN c.segs : Sound(c.segs[i], i, c.active, NotChosen(c))
  <2> SUFFICES ASSUME NEW i \in DOMAIN c.segs PROVE Sound(c.segs[i], i, c.active, NotChosen(c))
    OBVIOUS
  <2>1. c.segs[i].status \in 0..3
    <3> DEFINE segs == c.segs
    <3>1. segs \in Seq(Segment) /\ i \in DOMAIN segs
      BY <1>1 DEF Whole
    <3> HIDE DEF segs
    <3>2. segs[i] \in Segment
      BY <3>1, Ends
    <3> QED BY <3>2 DEF Segment, segs
  <2> QED BY <1>1, <2>1 DEF Sound, NotChosen, Whole
<1> QED BY <1>1, <1>2 DEF Good, Whole

LEMMA PopChooses ==
    ASSUME NEW c, Good(c, {}), NEW n \in Nat, CanPop(c, n)
    PROVE  LET d == PopInput(c, n)
           IN  /\ \A i \in DOMAIN d.segs : d.segs[i].status >= kGuess
               /\ \A i \in DOMAIN d.segs : d.segs[i].status >= kSelected =>
                    i \in DOMAIN c.segs /\ c.segs[i].status >= kSelected
<1> DEFINE k == c.caret - n
           r == SubSeq(c.input, 1, k) \o After(c.input, c.caret)
           X == NotChosen(c)
           e == WithInput(c, r, k)
           d == Compose(e)
<1>1. c.input \in Texts /\ c.caret \in 0..Len(c.input) /\ Len(c.input) \in Nat /\ n <= c.caret
  BY TextIsSeq DEF Good, CanPop
<1>2. k \in 0..Len(c.input) /\ k <= c.caret /\ c.caret \in Nat
  BY <1>1
<1>3. PopInput(c, n) = Compose(e)
  BY DEF PopInput, WithInput
<1> HIDE DEF k
<1>4. r \in Texts /\ k <= Len(r)
  BY <1>1, <1>2, ReplacedIsText
<1> HIDE DEF r
<1> HIDE DEF X
<1>5. Good(c, X)
  BY GoodElsewhere DEF X
<1>6. Good(e, X)
  BY <1>4, <1>1, <1>2, TextIsSeq, <1>5, WithInputGood
<1> HIDE DEF e
<1>7. Composed(d, X)
  BY <1>6, ComposeGood
<1> HIDE DEF d
<1>8. /\ Whole(d.segs, d.active, X) /\ d.segs \in Seq(Segment) /\ DOMAIN d.segs \subseteq Nat
      /\ \A i \in DOMAIN d.segs : d.segs[i].status >= kGuess
  <2>1. Whole(d.segs, d.active, X) /\ \A i \in DOMAIN d.segs : d.segs[i].status >= kGuess
    BY <1>7 DEF Composed, Good
  <2> QED BY <2>1, Ends DEF Whole
<1>9. ASSUME NEW i \in DOMAIN d.segs, d.segs[i].status >= kSelected
      PROVE  i \in DOMAIN c.segs /\ c.segs[i].status >= kSelected
  <2>1. d.segs[i].status \in 0..3
    <3> DEFINE segs == d.segs
    <3>1. segs \in Seq(Segment) /\ i \in DOMAIN segs
      BY <1>8
    <3> HIDE DEF segs
    <3>2. segs[i] \in Segment
      BY <3>1, Ends
    <3> QED BY <3>2 DEF Segment, segs
  <2>2. i \notin X
    BY <1>9, <1>8, <2>1 DEF Sound, Whole
  <2> QED BY <2>2, <1>8 DEF X, NotChosen
<1> QED BY <1>3, <1>8, <1>9 DEF d

Returns(d, c) == Resting(d) \/ ReopenedFrom(d, c)

LEMMA PopReturns ==
    ASSUME NEW c, Resting(c), NEW n \in Nat
    PROVE  Returns(PopThenReopen(c, n), c)
<1>1. CASE ~CanPop(c, n)
  BY <1>1 DEF PopThenReopen, Returns
<1>2. CASE CanPop(c, n)
  <2> DEFINE e == PopInput(c, n)
  <2>1. PopThenReopen(c, n) = ReopenIfEmpty(e)
    BY <1>2 DEF PopThenReopen
  <2>2. /\ Resting(e)
        /\ \A i \in DOMAIN e.segs : e.segs[i].status >= kSelected =>
              i \in DOMAIN c.segs /\ c.segs[i].status >= kSelected
    BY <1>2, PopRests, PopChooses DEF Resting, Standing
  <2> HIDE DEF e
  <2>3. CASE CanReopenSegment(e)
    BY <2>1, <2>3, <2>2, ReopenPreviousSegmentReopens DEF ReopenIfEmpty, Returns, ReopenedFrom
  <2>4. CASE ~CanReopenSegment(e)
    BY <2>1, <2>2, <2>4 DEF ReopenIfEmpty, Returns
  <2> QED BY <2>3, <2>4
<1> QED BY <1>1, <1>2

LEMMA RevertReturns ==
    ASSUME NEW c, Resting(c), NEW n \in Nat
    PROVE  Returns(RevertLastEdit(c, n), c)
BY PopReturns, ReopenPreviousSelectionReopens DEF RevertLastEdit, Returns

LEMMA BackReturns ==
    ASSUME NEW c, Resting(c)
    PROVE  Returns(BackToPreviousInput(c), c)
BY PopRests, ReopenPreviousSegmentReopens, ReopenPreviousSelectionReopens DEF
  BackToPreviousInput, Returns, Resting, Standing

LEMMA ToggleReturns ==
    ASSUME NEW c, Resting(c)
    PROVE  Returns(ToggleSelection(c), c)
BY ReopenPreviousSegmentReopens, ConfirmSelectionRests DEF ToggleSelection, Returns

------------------------------------------------------------------------------
(* The handlers that take no choice back. *)

LEMMA ConfirmRests ==
    ASSUME NEW c, Resting(c)
    PROVE  Resting(Confirm(c))
BY MarkedStands, ConfirmSelectionRests, CommitRests DEF Confirm, Resting

LEMMA CommitCompositionRests ==
    ASSUME NEW c, Resting(c)
    PROVE  Resting(CommitComposition(c))
<1> DEFINE d == ConfirmCurrentSelection(c)
<1>1. Resting(d) /\ Standing(d)
  BY ConfirmSelectionRests DEF Resting
<1> HIDE DEF d
<1> QED BY <1>1, CommitRests DEF CommitComposition, CommitUnlessOpen, d

LEMMA CommitRawRests ==
    ASSUME NEW c, Resting(c)
    PROVE  Resting(CommitRawInput(c))
BY ClearNonConfirmedStands, CommitRests DEF CommitRawInput, Resting

LEMMA DeleteCharRests ==
    ASSUME NEW c, Resting(c)
    PROVE  Resting(DeleteChar(c))
BY DeleteRests DEF DeleteChar, Resting, Standing

LEMMA CancelRests ==
    ASSUME NEW c, Resting(c)
    PROVE  Resting(CancelComposition(c))
BY ClearSegmentRests, ClearRests DEF CancelComposition, Resting, Standing, Good

LEMMA BeginEditingIs ==
    ASSUME NEW c, Resting(c)
    PROVE  LET d == BeginEditing(c)
           IN  /\ Resting(d) /\ d.input = c.input /\ d.caret = c.caret
               /\ d.active = c.active /\ d.sent = c.sent
<1>1. CASE ~ChosenOnly(c)
  BY <1>1 DEF BeginEditing
<1>2. CASE ChosenOnly(c)
  <2> DEFINE k == LastChosen(c)
             segs == c.segs
             text == c.active
             tags == segs[k].tags \union {"selected_before_editing"}
             x == [segs[k] EXCEPT !.tags = tags]
             r == [segs EXCEPT ![k] = x]
             d == WithSegs(c, r)
             X == {}
  <2>1. BeginEditing(c) = d
    BY <1>2 DEF BeginEditing, WithSegs
  <2>2. /\ Standing(c) /\ Good(c, {}) /\ IsContext(c) /\ Whole(segs, text, X) /\ VoidIsEmpty(segs)
        /\ text \in Texts /\ LastIsOpen(segs) /\ segs \in Seq(Segment) /\ CurrentEnd(segs) >= c.caret
    BY DEF Resting, Standing, Good, Whole
  <2>3. /\ k \in DOMAIN segs /\ DOMAIN segs = 1..Len(segs) /\ Len(segs) \in Nat
        /\ segs[k] \in Segment
    <3>1. k \in 0..Len(segs) /\ k # 0
      BY <1>2, <2>2, LastChosenOf DEF ChosenOnly
    <3>2. DOMAIN segs = 1..Len(segs) /\ Len(segs) \in Nat
      BY <2>2, Ends
    <3> HIDE DEF k
    <3> HIDE DEF segs
    <3> QED BY <2>2, <3>2, <3>1, Ends
  <2>4. tags \in SUBSET Tags
    BY <2>3 DEF Segment, Tags
  <2> HIDE DEF d, tags
  <2>5. /\ x \in Segment /\ x.start = segs[k].start /\ x.end = segs[k].end
        /\ x.status = segs[k].status /\ x.menu = segs[k].menu /\ x.index = segs[k].index
        /\ \A i, t, Y : Sound(segs[k], i, t, Y) => Sound(x, i, t, Y)
    <3> HIDE DEF segs, k
    <3> QED BY <2>3, <2>4, RetaggedIsSound
  <2> HIDE DEF x
  <2>6. /\ r \in Seq(Segment) /\ Len(r) = Len(segs) /\ DOMAIN r = DOMAIN segs
        /\ \A i \in DOMAIN segs : r[i] = IF i = k THEN x ELSE segs[i]
    <3> HIDE DEF k, segs
    <3>1. DOMAIN r = 1..Len(segs) /\ \A i \in 1..Len(segs) : r[i] = IF i = k THEN x ELSE segs[i]
      BY <2>3
    <3>2. r \in [1..Len(segs) -> Segment]
      BY <3>1, <2>2, Ends, <2>5, <2>3 DEF segs
    <3>3. r \in Seq(Segment) /\ Len(r) = Len(segs)
      <4> HIDE DEF r
      <4> QED BY <3>2, <2>3, SeqDef, LenProperties, Ends
    <3> QED BY <3>1, <3>3, <2>3
  <2> HIDE DEF r
  <2>7. \A i \in DOMAIN segs : /\ r[i].start = segs[i].start /\ r[i].end = segs[i].end
                               /\ r[i].status = segs[i].status /\ r[i].menu = segs[i].menu
                               /\ (IsEmpty(r[i]) <=> IsEmpty(segs[i]))
    BY <2>5, <2>6 DEF IsEmpty
  <2> HIDE DEF segs, k
  <2>8. /\ (r = <<>> <=> segs = <<>>) /\ CurrentEnd(r) = CurrentEnd(segs)
        /\ segs # <<>> => /\ Last(r).status = Last(segs).status
                          /\ (IsEmpty(Last(r)) <=> IsEmpty(Last(segs)))
    <3>1. segs \in Seq(Segment) /\ Len(segs) \in Nat
      BY <2>2, <2>3 DEF segs
    <3> QED BY <2>7, <2>6, <3>1, Ends, <2>3 DEF CurrentEnd
  <2>9. Chained(segs, Len(text)) /\ \A i \in DOMAIN segs : Sound(segs[i], i, text, X)
    BY <2>2 DEF Whole, segs
  <2> HIDE DEF text, X
  <2>10. Chained(r, Len(text))
    <3>1. \A i \in DOMAIN segs : i # 1 => i - 1 \in DOMAIN segs
      BY <2>3
    <3>2. CurrentEnd(r) <= Len(text)
      BY <2>8, <2>9 DEF Chained
    <3> QED BY <2>6, <2>7, <2>9, <3>1, <3>2 DEF Chained
  <2>11. VoidIsEmpty(r) /\ LastIsOpen(r)
    BY <2>2, <2>6, <2>7, <2>8 DEF VoidIsEmpty, LastIsOpen, segs
  <2>12. Standing(d)
    BY <2>2, <2>6, <2>10, <2>5, <2>9, <2>11, WithSegsStands DEF d, text, X, Whole
  <2> QED BY <2>1, <2>2, WithSegsIs, <2>12, <2>8, <2>11 DEF Resting, segs, d
<1> QED BY <1>1, <1>2

LEMMA MoveRests ==
    ASSUME NEW c, Resting(c), NEW p \in Nat, p <= Len(c.input)
    PROVE  LET d == BeginEditing(c)
           IN  Resting(IF p = d.caret THEN d ELSE SetCaret(d, p))
<1> DEFINE d == BeginEditing(c)
<1>1. Resting(d) /\ d.input = c.input
  BY BeginEditingIs
<1> HIDE DEF d
<1> QED BY <1>1, TextIsSeq, SetCaretRests DEF d, Resting, Standing, Good

LEMMA PushKeyRests ==
    ASSUME NEW c, Resting(c), NEW ch \in Keys, Len(c.input) < MaxInput
    PROVE  Resting(BeginEditing(PushInput(c, ch)))
BY PushRests, BeginEditingIs DEF Resting, Standing

LEMMA SwitchRests ==
    ASSUME NEW c, Resting(c)
    PROVE  Resting(Refresh(ConfirmCurrentSelection(c)))
BY ConfirmSelectionRests, RefreshRests

------------------------------------------------------------------------------
(* The speller's search for an earlier match: a context at rest, and a     *)
(* place in the text searched.                                             *)

SearchOK(s) ==
    /\ s = [c |-> s.c, input |-> s.input, start |-> s.start, end |-> s.end, done |-> s.done]
    /\ Resting(s.c) /\ s.input \in Texts
    /\ s.start \in Nat /\ s.end \in Int /\ s.end <= Len(s.input)

LEMMA SearchBegins ==
    ASSUME NEW c, Resting(c), NEW start \in Nat, NEW end \in Nat, end <= Len(c.input) + 1
    PROVE  SearchOK(Search(c, start, end))
BY TextIsSeq DEF SearchOK, Search, Resting, Standing, Good

LEMMA DoneOK ==
    ASSUME NEW s, SearchOK(s), NEW c, Resting(c)
    PROVE  SearchOK(Done(s, c))
<1> DEFINE d == Done(s, c)
<1>1. d = [s EXCEPT !.c = c, !.done = TRUE]
  BY DEF Done
<1> HIDE DEF d
<1> QED BY <1>1 DEF SearchOK, d

LEMMA AgainOK ==
    ASSUME NEW s, SearchOK(s), NEW c, Resting(c), NEW start \in Nat
    PROVE  SearchOK(Again(s, c, start))
<1> DEFINE e == CurrentEnd(c.segs)
<1>1. e \in Nat /\ e <= Len(c.input) + 1
  <2>1. /\ c.segs \in Seq(Segment) /\ e <= Len(c.active) /\ c.input \in Texts
        /\ c.caret \in 0..Len(c.input) /\ c.active \in {c.input, SubSeq(c.input, 1, c.caret)}
    BY DEF Resting, Standing, Good, Whole, Chained, Follows
  <2>2. e \in Nat
    BY <2>1, EndOf
  <2> HIDE DEF e
  <2> QED BY <2>1, TextIsSeq, Prefix, <2>2
<1> HIDE DEF e
<1> QED BY DoneOK, <1>1, SearchBegins DEF Again, e

LEMMA TriedOK ==
    ASSUME NEW s, SearchOK(s), NEW c, Resting(c), s.end \in Nat
    PROVE  SearchOK(Tried(s, c))
<1>1. Good(c, {}) /\ Standing(c) /\ s.input \in Texts
  BY DEF Resting, Standing, SearchOK
<1>2. SearchOK([s EXCEPT !.c = c, !.end = @ - 1])
  <2> DEFINE k == s.end - 1
             d == [s EXCEPT !.c = c, !.end = @ - 1]
  <2>1. d = [s EXCEPT !.c = c, !.end = k]
    OBVIOUS
  <2>2. k \in Int /\ k <= Len(s.input) /\ s.start \in Nat
    BY <1>1, TextIsSeq DEF SearchOK
  <2> HIDE DEF k, d
  <2>3. SearchOK(d)
    BY <2>2, <2>1, <1>1 DEF SearchOK
  <2> QED BY <2>3 DEF d
<1>3. SearchOK(Again(s, SetInput(Commit(c), After(s.input, s.end)), 0))
  <2> DEFINE d == Commit(c)
             t == After(s.input, s.end)
  <2> HIDE DEF d, t
  <2> QED BY <1>1, CommitRests, AfterIsText, SetInputRests, AgainOK DEF d, t, Resting, Standing
<1>4. SearchOK(Again(s, SetInput(ConfirmCurrentSelection(c), s.input), s.end))
  <2> DEFINE d == ConfirmCurrentSelection(c)
             t == s.input
  <2> HIDE DEF d, t
  <2> QED BY <1>1, ConfirmSelectionRests, SetInputRests, AgainOK DEF d, t, Resting, Standing
<1> DEFINE e == [s EXCEPT !.c = c, !.end = @ - 1]
<1>5. Tried(s, c) \in {Done(s, SetInput(c, s.input)), e,
                       Again(s, SetInput(Commit(c), After(s.input, s.end)), 0),
                       Again(s, SetInput(ConfirmCurrentSelection(c), s.input), s.end)}
  BY DEF Tried
<1> HIDE DEF e
<1>6. SearchOK(e)
  BY <1>2 DEF e
<1> QED BY <1>1, SetInputRests, DoneOK, <1>3, <1>4, <1>5, <1>6

LEMMA TryMatchOK ==
    ASSUME NEW s, SearchOK(s)
    PROVE  SearchOK(TryMatch(s))
<1>1. /\ Resting(s.c) /\ Good(s.c, {}) /\ s.input \in Texts /\ Len(s.input) \in Nat
      /\ s.start \in Nat /\ s.end \in Int /\ s.end <= Len(s.input)
  BY TextIsSeq DEF SearchOK, Resting, Standing
<1>2. CASE s.done
  BY <1>2 DEF TryMatch
<1>3. CASE ~s.done /\ s.end <= s.start
  BY <1>3, <1>1, SetInputRests, DoneOK DEF TryMatch
<1>4. CASE ~s.done /\ ~(s.end <= s.start)
  <2> DEFINE t == SubSeq(s.input, 1, s.end)
             c == s.c
  <2>1. s.end \in Nat /\ 1 \in Nat \ {0}
    BY <1>1, <1>4
  <2>2. t \in Texts /\ Good(c, {})
    BY <1>1, <2>1, PartIsText
  <2>3. TryMatch(s) = Tried(s, SetInput(c, t))
    BY <1>4 DEF TryMatch
  <2> HIDE DEF t, c
  <2> QED BY <2>1, <2>3, <2>2, SetInputRests, TriedOK
<1> QED BY <1>2, <1>3, <1>4

(* The tries of a search, one after the other, are a function. *)
Tries(r, n, x) ==
    /\ r = [i \in 0..n |-> r[i]]
    /\ r[0] = x /\ \A i \in 0..n - 1 : r[i + 1] = TryMatch(r[i])

LEMMA TriesExist ==
    ASSUME NEW x, NEW n \in Nat
    PROVE  \E r : Tries(r, n, x)
<1> DEFINE Missing == {k \in Nat : ~\E r : Tries(r, k, x)}
<1> SUFFICES ASSUME Missing # {} PROVE FALSE
  OBVIOUS
<1>1. PICK m \in Missing : \A y \in Missing : m <= y
  <2>1. Missing \subseteq Nat
    OBVIOUS
  <2> HIDE DEF Missing
  <2> QED BY <2>1, LeastOf
<1>2. m # 0
  <2> DEFINE r == [i \in 0..0 |-> x]
  <2>1. r = [i \in 0..0 |-> r[i]] /\ r[0] = x /\ \A i \in 0..0 - 1 : FALSE
    OBVIOUS
  <2> HIDE DEF r
  <2> QED BY <2>1 DEF Tries
<1>3. m - 1 \in Nat /\ m \in Nat /\ m - 1 \notin Missing
  BY <1>1, <1>2
<1>4. PICK r : Tries(r, m - 1, x)
  BY <1>3
<1> DEFINE q == [i \in 0..m |-> IF i = m THEN TryMatch(r[m - 1]) ELSE r[i]]
<1>5. Tries(q, m, x)
  <2>1. q = [i \in 0..m |-> q[i]]
    OBVIOUS
  <2>2. q[0] = x
    BY <1>2, <1>3, <1>4 DEF Tries
  <2>3. ASSUME NEW i \in 0..m - 1 PROVE q[i + 1] = TryMatch(q[i])
    <3>1. i \in 0..m /\ i + 1 \in 0..m /\ i # m /\ (i + 1 = m <=> i = m - 1)
      BY <1>3
    <3>2. q[i] = r[i]
      BY <3>1
    <3>3. CASE i = m - 1
      BY <3>1, <3>3, <3>2
    <3>4. CASE i # m - 1
      <4>1. i \in 0..m - 1 - 1
        BY <1>3, <3>4
      <4> QED BY <3>1, <3>4, <1>4, <4>1, <3>2 DEF Tries
    <3> QED BY <3>3, <3>4
  <2> HIDE DEF q
  <2> QED BY <2>1, <2>2, <2>3 DEF Tries
<1> QED BY <1>3, <1>5, <1>1

LEMMA TriesAgree ==
    ASSUME NEW x, NEW n \in Nat, NEW m \in 0..n, NEW r, Tries(r, n, x), NEW q, Tries(q, m, x)
    PROVE  r[m] = q[m]
<1> DEFINE Differ == {i \in 0..m : r[i] # q[i]}
<1> SUFFICES ASSUME Differ # {} PROVE FALSE
  OBVIOUS
<1>1. PICK i \in Differ : \A j \in Differ : i <= j
  <2>1. Differ \subseteq Nat
    OBVIOUS
  <2> HIDE DEF Differ
  <2> QED BY <2>1, LeastOf
<1>2. i # 0
  BY DEF Tries
<1>3. i - 1 \in 0..m - 1 /\ i - 1 \in 0..n - 1 /\ i - 1 \notin Differ
  BY <1>1, <1>2
<1>4. r[i - 1 + 1] = TryMatch(r[i - 1]) /\ q[i - 1 + 1] = TryMatch(q[i - 1])
  BY <1>3 DEF Tries
<1>5. i - 1 + 1 = i /\ r[i - 1] = q[i - 1]
  BY <1>3
<1> QED BY <1>4, <1>5

LEMMA SearchesUnfold ==
    ASSUME NEW c, NEW start, NEW end
    PROVE  LET f == Searches(c, start, end)
           IN  f = [n \in Nat |-> IF n = 0 THEN Search(c, start, end) ELSE TryMatch(f[n - 1])]
<1> DEFINE x == Search(c, start, end)
           Run(n) == CHOOSE r : Tries(r, n, x)
           f == [n \in Nat |-> Run(n)[n]]
<1>1. Searches(c, start, end)
        = CHOOSE g : g = [n \in Nat |-> IF n = 0 THEN x ELSE TryMatch(g[n - 1])]
  BY Zenon DEF Searches
<1> HIDE DEF x
<1>2. \A n \in Nat : Tries(Run(n), n, x)
  <2> TAKE n \in Nat
  <2> QED BY TriesExist
<1> HIDE DEF Run
<1>3. f[0] = x
  BY <1>2 DEF Tries
<1>4. ASSUME NEW n \in Nat PROVE f[n + 1] = TryMatch(f[n])
  <2>1. n + 1 \in Nat /\ n \in 0..n + 1 /\ n \in 0..n + 1 - 1
    OBVIOUS
  <2>2. Run(n + 1)[n] = Run(n)[n]
    BY <2>1, <1>2, TriesAgree
  <2>3. Run(n + 1)[n + 1] = TryMatch(Run(n + 1)[n])
    <3>1. Tries(Run(n + 1), n + 1, x)
      BY <2>1, <1>2
    <3> QED BY <2>1, <3>1 DEF Tries
  <2> QED BY <2>1, <2>2, <2>3
<1>5. f = [n \in Nat |-> IF n = 0 THEN x ELSE TryMatch(f[n - 1])]
  <2>1. f = [n \in Nat |-> f[n]]
    OBVIOUS
  <2> HIDE DEF f
  <2>2. ASSUME NEW n \in Nat PROVE f[n] = IF n = 0 THEN x ELSE TryMatch(f[n - 1])
    BY <1>3, <1>4
  <2> QED BY <2>1, <2>2
<1> HIDE DEF f
<1>6. Searches(c, start, end) = [n \in Nat |->
         IF n = 0 THEN x ELSE TryMatch(Searches(c, start, end)[n - 1])]
  BY <1>1, <1>5, Zenon
<1> QED BY <1>6 DEF x

LEMMA FindEarlierMatchRests ==
    ASSUME NEW c, Resting(c), NEW start \in Nat, NEW end \in Nat, end <= Len(c.input) + 1
    PROVE  Resting(FindEarlierMatch(c, start, end))
<1> DEFINE f == Searches(c, start, end)
           Broken == {n \in Nat : ~SearchOK(f[n])}
<1>1. f = [n \in Nat |-> IF n = 0 THEN Search(c, start, end) ELSE TryMatch(f[n - 1])]
  BY SearchesUnfold
<1> HIDE DEF f
<1>2. Broken = {}
  <2> SUFFICES ASSUME Broken # {} PROVE FALSE
    OBVIOUS
  <2>1. PICK n \in Broken : \A m \in Broken : n <= m
    <3>1. Broken \subseteq Nat
      OBVIOUS
    <3> HIDE DEF Broken
    <3> QED BY <3>1, LeastOf
  <2>2. n # 0
    BY <1>1, SearchBegins
  <2>3. n - 1 \in Nat /\ n - 1 \notin Broken /\ n \in Nat
    BY <2>1, <2>2
  <2> QED BY <2>3, TryMatchOK, <1>1, <2>2
<1>3. MaxTries \in Nat
  BY EngineAssumption DEF MaxTries
<1> QED BY <1>2, <1>3 DEF SearchOK, FindEarlierMatch, f

------------------------------------------------------------------------------
(* A letter: the match before it is chosen, found or left. *)

(* The last segment confirmed, wherever it ends. *)
LEMMA ConfirmLastRests ==
    ASSUME NEW c, Standing(c), c.segs # <<>>, CanConfirm(c)
    PROVE  Resting(ConfirmCurrentSelection(c))
BY MarkedStands, OnSelectRests DEF ConfirmCurrentSelection

LEMMA ReuseMatchRests ==
    ASSUME NEW c, Resting(c), NEW seg \in Segment, Standing(WithLast(c, seg)), WithLast(c, seg).segs # <<>>,
           Last(WithLast(c, seg).segs) = seg, HasCandidate(seg), seg.end <= Len(c.input)
    PROVE  Resting(ReuseMatch(c, seg))
<1> DEFINE d == WithLast(c, seg)
           e == ConfirmCurrentSelection(d)
           t == SubSeq(c.input, 1, seg.end)
           u == After(c.input, seg.end)
           g == SetInput(e, t)
           h == Commit(g)
<1>1. Resting(e)
  <2> HIDE DEF d
  <2> QED BY ConfirmLastRests DEF d, CanConfirm
<1>2. t \in Texts /\ u \in Texts
  <2>1. c.input \in Texts /\ seg.end \in Nat /\ 1 \in Nat \ {0} /\ seg.end \in Int
    BY DEF Resting, Standing, Good, Segment
  <2> QED BY <2>1, PartIsText, AfterIsText
<1> HIDE DEF e, t, u
<1>3. Resting(g)
  BY <1>1, <1>2, SetInputRests DEF Resting, Standing
<1> HIDE DEF g
<1>4. Resting(h)
  BY <1>3, CommitRests DEF Resting
<1> HIDE DEF h
<1>5. Resting(SetInput(h, u))
  BY <1>2, <1>4, SetInputRests DEF Resting, Standing
<1> QED BY <1>1, <1>5 DEF ReuseMatch, d, e, t, u, g, h

(* pushed is c with a letter at the caret. *)
Pushes(pushed, c) ==
    /\ Resting(pushed) /\ Len(pushed.input) = Len(c.input) + 1 /\ pushed.caret = c.caret + 1
    /\ SubSeq(pushed.input, 1, c.caret) = SubSeq(c.input, 1, c.caret)

LEMMA PushedIs ==
    ASSUME NEW c, Resting(c), NEW ch \in Keys, Len(c.input) < MaxInput
    PROVE  Pushes(BeginEditing(PushInput(c, ch)), c)
<1> DEFINE d == PushInput(c, ch)
<1>1. /\ Resting(d)
      /\ Len(d.input) = Len(c.input) + 1 /\ d.caret = c.caret + 1
      /\ SubSeq(d.input, 1, c.caret) = SubSeq(c.input, 1, c.caret)
  BY PushRests DEF Resting, Standing
<1> HIDE DEF d
<1> QED BY <1>1, BeginEditingIs DEF Pushes, d

LEMMA PreviousFits ==
    ASSUME NEW c, Resting(c), c.segs # <<>>, NEW d, Pushes(d, c), Last(c.segs).end <= c.caret,
           CurrentStart(d.segs) = Last(c.segs).start
    PROVE  LET seg == Last(c.segs)
           IN  /\ seg \in Segment /\ Standing(WithLast(d, seg)) /\ WithLast(d, seg).segs # <<>>
               /\ Last(WithLast(d, seg).segs) = seg
               /\ seg.end <= Len(d.input)
<1> DEFINE seg == Last(c.segs)
           old == c.active
           text == d.active
           k == c.caret
           X == {}
           n == 1
<1>1. /\ Standing(c) /\ Standing(d) /\ CurrentEnd(d.segs) >= d.caret
      /\ old \in Texts /\ text \in Texts /\ d.caret = k + 1
      /\ SubSeq(d.input, 1, k) = SubSeq(c.input, 1, k)
  BY DEF Resting, Standing, Good, Pushes
<1>2. /\ seg \in Segment /\ seg.start <= seg.end /\ seg.end <= Len(old)
      /\ IsEmpty(seg) => seg.menu = <<>>
      /\ seg.status = kVoid => IsEmpty(seg)
      /\ Fitted(seg, old)
  BY <1>1, LastSegment
<1>3. k <= Len(old) /\ k + 1 <= Len(text)
  BY <1>1, CaretInActive
<1>4. /\ c.input \in Seq(Keys) /\ d.input \in Seq(Keys) /\ k \in 0..Len(c.input) /\ k + 1 \in 0..Len(d.input)
      /\ old \in {c.input, SubSeq(c.input, 1, k)} /\ text \in {d.input, SubSeq(d.input, 1, k + 1)}
      /\ Len(old) \in Nat /\ Len(text) \in Nat /\ Len(c.input) \in Nat /\ Len(d.input) \in Nat
      /\ Len(d.input) = Len(c.input) + 1
  <2>1. /\ c.input \in Texts /\ d.input \in Texts /\ k \in 0..Len(c.input) /\ d.caret \in 0..Len(d.input)
        /\ old \in {c.input, SubSeq(c.input, 1, k)} /\ text \in {d.input, SubSeq(d.input, 1, d.caret)}
    BY <1>1 DEF Standing, Good, Follows
  <2>2. Len(d.input) = Len(c.input) + 1
    BY DEF Pushes
  <2> HIDE DEF old, text, k
  <2> QED BY <1>1, <2>1, <2>2, TextIsSeq
<1>5. SubSeq(old, 1, k) = SubSeq(text, 1, k)
  <2>1. k \in Int /\ k \in Nat /\ 1 \in Nat \ {0} /\ k <= k + 1
    BY <1>4
  <2>2. SubSeq(SubSeq(c.input, 1, k), 1, k) = SubSeq(c.input, 1, k)
    BY <1>4, <2>1, PartOfPrefix
  <2>3. SubSeq(SubSeq(d.input, 1, k + 1), 1, k) = SubSeq(d.input, 1, k)
    <3> DEFINE j == k + 1
               s == d.input
    <3>1. s \in Seq(Keys) /\ j \in 0..Len(s) /\ k <= j
      BY <1>4, <2>1
    <3> HIDE DEF j, s
    <3> QED BY <2>1, <3>1, PartOfPrefix DEF j, s
  <2> HIDE DEF k
  <2> QED BY <1>1, <1>4, <2>2, <2>3
<1>6. Fitted(seg, text)
  <2>1. Sound(seg, n, old, X)
    BY <1>2 DEF Sound
  <2>2. k \in 0..Len(old) /\ k <= Len(text) /\ seg.end <= k
    BY <1>3, <1>4
  <2> HIDE DEF seg, old, text, k, X, n
  <2>3. Sound(seg, n, text, X)
    BY <1>1, <1>2, <1>5, <2>1, <2>2, MovedIsSound
  <2> QED BY <2>3 DEF Sound, X
<1>7. d.segs # <<>>
  BY <1>1, <1>4 DEF CurrentEnd
<1>8. seg.end \in Nat /\ seg.end <= Len(text) /\ seg.end <= Len(d.input)
  <2>1. seg.end \in Nat
    BY <1>2 DEF Segment
  <2> DEFINE e == seg.end
             m == Len(text)
             l == Len(d.input)
             j == Len(c.input)
  <2>2. e \in Nat /\ e <= k /\ k \in 0..j /\ k + 1 <= m /\ l = j + 1 /\ m \in Nat /\ l \in Nat /\ j \in Nat
    BY <1>3, <1>4, <2>1
  <2> HIDE DEF e, m, l, j
  <2> QED BY <2>1, <2>2 DEF e, m, l
<1> HIDE DEF seg, text
<1> QED BY <1>2, <1>8, <1>1, <1>6, <1>7, WithLastStands DEF seg, text, CurrentStart

(* Whether a letter puts the last segment where it does not fit. *)
MisplacedIn(pushed, c) ==
    /\ editor.auto_select /\ ~HasMenu(pushed) /\ HasMenu(c)
    /\ Selectable(Last(c.segs), Last(c.segs).end)
    /\ Last(c.segs).end > c.caret \/ CurrentStart(pushed.segs) # CurrentStart(c.segs)

LEMMA MatchedRests ==
    ASSUME NEW c, Resting(c), NEW d, Pushes(d, c), editor.auto_select, ~MisplacedIn(d, c)
    PROVE  Resting(Matched(d, c))
<1>1. Resting(d)
  BY DEF Pushes
<1>2. CASE HasMenu(d) \/ ~HasMenu(c)
  BY <1>1, <1>2 DEF Matched
<1>3. CASE ~HasMenu(d) /\ HasMenu(c)
  <2> DEFINE seg == Last(c.segs)
  <2>1. Matched(d, c) = AutoSelectPreviousMatch(d, seg)
    BY <1>3 DEF Matched
  <2>2. c.segs # <<>> /\ CurrentStart(c.segs) = seg.start
    BY <1>3 DEF HasMenu, CurrentStart
  <2>3. /\ seg \in Segment /\ seg.end <= Len(c.active) /\ seg.start \in Nat /\ seg.end \in Nat
        /\ c.caret \in Nat
    BY <2>2, LastSegment DEF Resting, Standing, Good, Segment
  <2>4. seg.end <= Len(c.input)
    <3> HIDE DEF seg
    <3> QED BY <2>3, TextIsSeq, Prefix DEF Resting, Standing, Good, Follows
  <2>5. CASE Selectable(seg, seg.end)
    <3>1. ~(seg.end > c.caret) /\ CurrentStart(d.segs) = seg.start
      BY <1>3, <2>2, <2>5 DEF MisplacedIn
    <3>2. /\ seg \in Segment /\ Standing(WithLast(d, seg)) /\ WithLast(d, seg).segs # <<>>
          /\ Last(WithLast(d, seg).segs) = seg
          /\ seg.end <= Len(d.input)
      BY <2>2, <3>1, <2>3, PreviousFits
    <3> HIDE DEF seg
    <3> QED BY <2>1, <2>5, <1>1, <3>2, ReuseMatchRests DEF AutoSelectPreviousMatch, Selectable
  <2>6. CASE ~Selectable(seg, seg.end)
    <3> HIDE DEF seg
    <3> DEFINE b == seg.start
               e == seg.end
    <3>1. b \in Nat /\ e \in Nat /\ e <= Len(d.input) + 1
      BY <2>3, <2>4, TextIsSeq DEF Pushes, Resting, Standing, Good
    <3> HIDE DEF b, e
    <3> QED BY <2>1, <2>6, <1>1, <3>1, FindEarlierMatchRests DEF AutoSelectPreviousMatch, b, e
  <2> QED BY <2>5, <2>6
<1> QED BY <1>2, <1>3

LEMMA SpellRests ==
    ASSUME NEW c, Resting(c), NEW ch \in Keys, Len(c.input) < MaxInput,
           ~MisplacedIn(BeginEditing(PushInput(c, ch)), c)
    PROVE  Resting(Spell(c, ch))
<1> DEFINE d == BeginEditing(PushInput(c, ch))
           m == Matched(d, c)
<1>1. Pushes(d, c)
  BY PushedIs
<1>2. Spell(c, ch) = Pushed(d, c)
  BY DEF Spell
<1> HIDE DEF d
<1>3. CASE ~editor.auto_select
  BY <1>1, <1>2, <1>3 DEF Pushed, Pushes
<1>4. CASE editor.auto_select
  <2>1. Resting(m)
    BY <1>1, <1>4, MatchedRests DEF d
  <2>2. Spell(c, ch) = AutoSelectUnique(m)
    BY <1>2, <1>4 DEF Pushed
  <2> HIDE DEF m
  <2> QED BY <2>1, <2>2, ConfirmSelectionRests DEF AutoSelectUnique
<1> QED BY <1>3, <1>4

------------------------------------------------------------------------------
(* A letter that puts a segment where it does not fit leaves a context     *)
(* with its type at least: segments of any menus, in any order.            *)

Piece(M) ==
    [status : kVoid..kConfirmed, start : Nat, end : Nat, length : Nat,
     tags : SUBSET Tags, menu : M, index : Nat]
Pieces(segs) == \E M : <<>> \in M /\ segs \in Seq(Piece(M))

LEMMA NewIsPiece ==
    ASSUME NEW M, <<>> \in M, NEW from \in Nat, NEW to \in Nat, from <= to, NEW tags \in SUBSET Tags
    PROVE  NewSegment(from, to, tags) \in Piece(M)
BY DEF NewSegment, Piece

LEMMA EndsOfPieces ==
    ASSUME NEW M, NEW segs \in Seq(Piece(M))
    PROVE  CurrentEnd(segs) \in Nat /\ CurrentStart(segs) \in Nat
<1>1. segs # <<>> => Last(segs) \in Piece(M)
  BY Ends
<1> QED BY <1>1 DEF CurrentEnd, CurrentStart, Piece

LEMMA ForwardPieces ==
    ASSUME NEW M, <<>> \in M, NEW segs \in Seq(Piece(M))
    PROVE  Forward(segs) \in Seq(Piece(M))
<1> DEFINE x == NewSegment(Last(segs).end, Last(segs).end, {})
<1>1. CASE segs = <<>> \/ IsEmpty(Last(segs))
  BY <1>1 DEF Forward
<1>2. CASE ~(segs = <<>> \/ IsEmpty(Last(segs)))
  <2>1. Last(segs) \in Piece(M)
    BY <1>2, Ends
  <2>2. x \in Piece(M)
    <3> DEFINE e == Last(segs).end
    <3> HIDE DEF e
    <3> QED BY <2>1, NewIsPiece DEF e, Piece
  <2>3. Forward(segs) = Append(segs, x)
    BY <1>2 DEF Forward
  <2> HIDE DEF x
  <2> QED BY <2>2, <2>3, AppendProperties
<1> QED BY <1>1, <1>2

LEMMA TrimPieces ==
    ASSUME NEW M, NEW segs \in Seq(Piece(M))
    PROVE  Trim(segs) \in Seq(Piece(M))
BY FrontOf DEF Trim, CanTrim

LEMMA AddSegmentPieces ==
    ASSUME NEW M, NEW segs \in Seq(Piece(M)), NEW seg \in Piece(M)
    PROVE  AddSegment(segs, seg) \in Seq(Piece(M))
<1>1. CASE segs = <<>>
  BY <1>1 DEF AddSegment
<1>2. CASE segs # <<>>
  <2> DEFINE last == Last(segs)
             tags == last.tags \union seg.tags
             x == [last EXCEPT !.tags = tags]
  <2>1. last \in Piece(M)
    BY <1>2, Ends
  <2> HIDE DEF last
  <2>2. tags \in SUBSET Tags
    BY <2>1 DEF Piece
  <2> HIDE DEF tags
  <2>3. x \in Piece(M)
    BY <2>1, <2>2 DEF Piece
  <2>4. AddSegment(segs, seg) \in {segs, Append(Front(segs), seg), Append(Front(segs), x)}
    BY <1>2 DEF AddSegment, tags, last
  <2> HIDE DEF x
  <2>5. Append(Front(segs), seg) \in Seq(Piece(M)) /\ Append(Front(segs), x) \in Seq(Piece(M))
    BY <1>2, <2>3, LastReplaced
  <2> QED BY <2>4, <2>5
<1> QED BY <1>1, <1>2

LEMMA AbcPieces ==
    ASSUME NEW M, <<>> \in M, NEW segs \in Seq(Piece(M)), NEW text \in Texts
    PROVE  AbcProceed(segs, text) \in Seq(Piece(M))
<1> DEFINE j == CurrentStart(segs)
           R == {j} \union {k \in j + 1..Len(text) : \A i \in j + 1..k : text[i] \in Alphabet}
           run == Max(R)
           x == NewSegment(j, run, {"abc"})
           m == j + Len(text)
<1>1. j \in Nat /\ Len(text) \in Nat
  BY EndsOfPieces, TextIsSeq
<1> HIDE DEF j
<1>2. m \in Nat /\ R \subseteq 0..m /\ j \in R
  BY <1>1
<1> HIDE DEF m, R
<1>3. run \in R /\ j <= run
  BY <1>2, MaxOf
<1> HIDE DEF run
<1>4. x \in Piece(M)
  BY <1>1, <1>3, <1>2, NewIsPiece DEF Tags
<1>5. AbcProceed(segs, text) \in {segs, AddSegment(segs, x)}
  BY DEF AbcProceed, run, R, j
<1> HIDE DEF x
<1> QED BY <1>4, <1>5, AddSegmentPieces

LEMMA FallbackPieces ==
    ASSUME NEW M, <<>> \in M, NEW segs \in Seq(Piece(M)), NEW text \in Texts
    PROVE  FallbackProceed(segs, text) \in Seq(Piece(M))
<1> DEFINE k == CurrentStart(segs)
           rest == Trim(segs)
           last == Last(rest)
           new == NewSegment(last.start, k + 1, {"raw"})
           x == [new EXCEPT !.length = last.length]
           y == NewSegment(k, k + 1, {"raw"})
<1>1. k \in Nat /\ k + 1 \in Nat /\ k <= k + 1 /\ {"raw"} \in SUBSET Tags
  BY EndsOfPieces DEF Tags
<1>2. rest \in Seq(Piece(M))
  BY TrimPieces
<1>3. FallbackProceed(segs, text) = segs
      \/ (rest # <<>> /\ FallbackProceed(segs, text) = Append(Front(rest), x))
      \/ FallbackProceed(segs, text) = AddSegment(Forward(rest), y)
  BY DEF FallbackProceed
<1> HIDE DEF k, rest
<1>4. AddSegment(Forward(rest), y) \in Seq(Piece(M))
  <2> DEFINE j == k + 1
  <2> HIDE DEF j
  <2>1. y \in Piece(M)
    BY <1>1, NewIsPiece DEF j
  <2> HIDE DEF y
  <2> QED BY <1>2, <2>1, ForwardPieces, AddSegmentPieces
<1>5. ASSUME rest # <<>> PROVE Append(Front(rest), x) \in Seq(Piece(M))
  <2>1. last \in Piece(M)
    BY <1>2, <1>5, Ends
  <2> HIDE DEF last
  <2> DEFINE e == k + 1
             b == last.start
             n == last.length
             l == e - b
  <2>2. new = [status |-> kVoid, start |-> b, end |-> e, length |-> l,
             tags |-> {"raw"}, menu |-> <<>>, index |-> 0]
    BY DEF NewSegment
  <2>3. x = [new EXCEPT !.length = n]
    OBVIOUS
  <2> HIDE DEF x, new, b, e, n, l
  <2>4. x = [status |-> kVoid, start |-> b, end |-> e, length |-> n,
             tags |-> {"raw"}, menu |-> <<>>, index |-> 0]
    BY <2>2, <2>3
  <2>5. b \in Nat /\ e \in Nat /\ n \in Nat
    BY <1>1, <2>1 DEF b, e, n, Piece
  <2> QED BY <1>2, <1>5, <1>1, <2>4, <2>5, LastReplaced DEF Piece
<1> HIDE DEF x, y
<1> QED BY <1>3, <1>4, <1>5

LEMMA NextRoundPieces ==
    ASSUME NEW M, <<>> \in M, NEW text \in Texts, NEW caret,
           NEW round \in [segs : Seq(Piece(M)), more : BOOLEAN]
    PROVE  NextRound(round, text, caret) \in [segs : Seq(Piece(M)), more : BOOLEAN]
<1> DEFINE s == FallbackProceed(AbcProceed(round.segs, text), text)
<1>1. s \in Seq(Piece(M))
  BY AbcPieces, FallbackPieces
<1>2. NextRound(round, text, caret) \in {round, AfterRound(CurrentStart(round.segs), s, text, caret)}
  BY DEF NextRound
<1> HIDE DEF s
<1> DEFINE f == Forward(s)
<1>3. [segs |-> s, more |-> FALSE] \in [segs : Seq(Piece(M)), more : BOOLEAN]
  BY <1>1
<1>4. [segs |-> f, more |-> TRUE] \in [segs : Seq(Piece(M)), more : BOOLEAN]
  <2>1. f \in Seq(Piece(M))
    BY <1>1, ForwardPieces
  <2> HIDE DEF f
  <2> QED BY <2>1
<1> QED BY <1>2, <1>3, <1>4, Zenon DEF AfterRound

LEMMA SegmentedPieces ==
    ASSUME NEW M, <<>> \in M, NEW segs \in Seq(Piece(M)), NEW text \in Texts, NEW caret
    PROVE  Segmented(segs, text, caret) \in Seq(Piece(M))
<1> DEFINE S == [segs : Seq(Piece(M)), more : BOOLEAN]
           first == [segs |-> segs, more |-> ~HasFinished(segs, text)]
           step == [r \in S |-> NextRound(r, text, caret)]
<1>1. first \in S
  <2>1. HasFinished(segs, text) \in BOOLEAN
    BY DEF HasFinished
  <2> DEFINE more == ~HasFinished(segs, text)
  <2>2. first = [segs |-> segs, more |-> more] /\ more \in BOOLEAN
    OBVIOUS
  <2> HIDE DEF more, first
  <2> QED BY <2>2
<1>2. step \in [S -> S]
  <2> SUFFICES ASSUME NEW r \in S PROVE NextRound(r, text, caret) \in S
    OBVIOUS
  <2> QED BY NextRoundPieces
<1>3. PICK f \in [Nat -> S] : IsRun(f, step, first)
  <2> HIDE DEF S, step, first
  <2> QED BY <1>1, <1>2, Iterates
<1>4. ASSUME NEW n \in Nat PROVE f[n + 1] = NextRound(f[n], text, caret)
  <2> HIDE DEF S
  <2> QED BY <1>3 DEF IsRun
<1> HIDE DEF S, step, first
<1>5. ASSUME NEW n \in Nat PROVE f[n] = IF n = 0 THEN first ELSE NextRound(f[n - 1], text, caret)
  BY <1>3, <1>4 DEF IsRun
<1> DEFINE rounds == Rounds(segs, text, caret)
<1>6. rounds = CHOOSE g : g = [n \in Nat |-> IF n = 0 THEN first ELSE NextRound(g[n - 1], text, caret)]
  BY Zenon DEF Rounds, first
<1> HIDE DEF rounds
<1>7. rounds = [n \in Nat |-> IF n = 0 THEN first ELSE NextRound(rounds[n - 1], text, caret)]
  BY <1>5, <1>6, Zenon
<1> DEFINE Broken == {n \in Nat : rounds[n] \notin S}
<1>8. Broken = {}
  <2> SUFFICES ASSUME Broken # {} PROVE FALSE
    OBVIOUS
  <2>1. PICK n \in Broken : \A m \in Broken : n <= m
    <3>1. Broken \subseteq Nat
      OBVIOUS
    <3> HIDE DEF Broken
    <3> QED BY <3>1, LeastOf
  <2>2. n # 0
    BY <1>1, <1>7
  <2>3. n - 1 \in Nat /\ n - 1 \notin Broken /\ n \in Nat
    BY <2>1, <2>2
  <2>4. NextRound(rounds[n - 1], text, caret) \in S
    BY <2>3, NextRoundPieces DEF S
  <2> QED BY <2>3, <2>4, <1>7, <2>2
<1>9. Len(text) \in Nat
  BY TextIsSeq
<1> QED BY <1>8, <1>9 DEF S, Segmented, rounds

LEMMA ComposedPieces ==
    ASSUME NEW segs, Pieces(segs), NEW text \in Texts, NEW caret
    PROVE  Pieces(TranslateSegments(CalculateSegmentation(segs, text, caret), text))
<1>1. PICK M : <<>> \in M /\ segs \in Seq(Piece(M))
  BY DEF Pieces
<1> DEFINE s == CalculateSegmentation(segs, text, caret)
           N == M \union {Covered(text, s[i]) : i \in DOMAIN s}
           t == TranslateSegments(s, text)
<1>2. s \in Seq(Piece(M))
  <2> DEFINE u == Trim(Segmented(segs, text, caret))
  <2>1. u \in Seq(Piece(M))
    BY <1>1, SegmentedPieces, TrimPieces
  <2>2. s \in {u, Forward(u)}
    BY DEF CalculateSegmentation, ForwardIfChosen
  <2> HIDE DEF u, s
  <2> QED BY <1>1, <2>1, <2>2, ForwardPieces
<1> HIDE DEF s
<1>3. /\ Len(s) \in Nat /\ DOMAIN s = 1..Len(s) /\ \A i \in 1..Len(s) : s[i] \in Piece(M)
      /\ t = [i \in DOMAIN s |-> t[i]]
  BY <1>2, Ends DEF TranslateSegments
<1>4. ASSUME NEW i \in 1..Len(s) PROVE t[i] \in Piece(N)
  <2> DEFINE menu == Covered(text, s[i])
             x == [s[i] EXCEPT !.status = kGuess, !.menu = menu, !.index = 0]
  <2>1. t[i] \in {s[i], x}
    BY <1>3 DEF TranslateSegments
  <2>2. s[i] \in Piece(M) /\ menu \in N /\ M \subseteq N
    BY <1>3
  <2> HIDE DEF menu, N
  <2>3. x \in Piece(N)
    <3> DEFINE seg == s[i]
    <3>1. seg = [status |-> seg.status, start |-> seg.start, end |-> seg.end, length |-> seg.length,
                 tags |-> seg.tags, menu |-> seg.menu, index |-> seg.index]
      BY <2>2 DEF Piece
    <3>2. /\ seg.start \in Nat /\ seg.end \in Nat /\ seg.length \in Nat /\ seg.tags \in SUBSET Tags
          /\ kGuess \in kVoid..kConfirmed /\ 0 \in Nat
      BY <2>2 DEF Piece
    <3>3. x = [seg EXCEPT !.status = kGuess, !.menu = menu, !.index = 0]
      OBVIOUS
    <3> HIDE DEF seg, x
    <3> QED BY <2>2, <3>2, <3>1, <3>3 DEF Piece
  <2> QED BY <2>1, <2>2, <2>3 DEF Piece
<1> HIDE DEF t, N
<1>5. <<>> \in N
  BY <1>1 DEF N
<1> QED BY <1>3, <1>4, SeqDef, <1>5 DEF Pieces, t, s

LEMMA PiecesGrow ==
    ASSUME NEW M, NEW N, M \subseteq N, NEW segs \in Seq(Piece(M))
    PROVE  segs \in Seq(Piece(N))
<1>1. Piece(M) \subseteq Piece(N)
  BY DEF Piece
<1> QED BY Ends, LenProperties, <1>1, SeqDef

LEMMA ResetPieces ==
    ASSUME NEW segs, Pieces(segs), NEW old, NEW text
    PROVE  Pieces(Reset(segs, old, text))
<1>1. PICK M : <<>> \in M /\ segs \in Seq(Piece(M))
  BY DEF Pieces
<1> DEFINE T == {n \in 0..Len(segs) : n = 0 \/ segs[n].end <= Kept(old, text)}
           n == Max(T)
           r == SubSeq(segs, 1, n)
<1>2. Len(segs) \in Nat
  BY <1>1, Ends
<1>3. T \subseteq 0..Len(segs) /\ 0 \in T
  BY <1>2
<1> HIDE DEF T
<1>4. n \in 0..Len(segs)
  BY <1>3, <1>2, MaxOf
<1> HIDE DEF n
<1>5. r \in Seq(Piece(M))
  BY <1>1, <1>4, Prefix
<1>6. Reset(segs, old, text) \in {segs, Forward(r)}
  BY DEF Reset, Dropped, n, T
<1> HIDE DEF r
<1> QED BY <1>1, <1>6, <1>5, ForwardPieces DEF Pieces

Typed(c) ==
    /\ IsContext(c)
    /\ c.input \in Texts /\ c.active \in Texts
    /\ c.caret \in 0..Len(c.input)
    /\ Pieces(c.segs)

LEMMA GoodIsTyped ==
    ASSUME NEW c, NEW X, Good(c, X)
    PROVE  Typed(c)
BY EmptyIsText DEF Good, Typed, Pieces, Whole, Segment, Piece

LEMMA ResetToTyped ==
    ASSUME NEW c, Typed(c), NEW text \in Texts
    PROVE  LET d == ResetTo(c, text)
           IN  Typed(d) /\ d.active = text /\ d.input = c.input /\ d.caret = c.caret
<1> DEFINE r == Reset(c.segs, c.active, text)
           d == ResetTo(c, text)
<1>1. d = [c EXCEPT !.segs = r, !.active = text]
  BY DEF ResetTo
<1>2. Pieces(r)
  BY ResetPieces DEF Typed
<1> HIDE DEF r, d
<1> QED BY <1>2, <1>1 DEF Typed, d, IsContext

LEMMA ConvertTyped ==
    ASSUME NEW c, Typed(c)
    PROVE  LET d == Convert(c)
           IN  Typed(d) /\ d.input = c.input /\ d.caret = c.caret
<1> DEFINE r == TranslateSegments(CalculateSegmentation(c.segs, c.active, c.caret), c.active)
           d == Convert(c)
<1>1. d = WithSegs(c, r)
  BY DEF Convert, WithSegs
<1>2. Pieces(r)
  BY ComposedPieces DEF Typed
<1> HIDE DEF r, d
<1> QED BY <1>2, <1>1, WithSegsIs DEF Typed, d

LEMMA ComposeTyped ==
    ASSUME NEW c, Typed(c)
    PROVE  Typed(Compose(c)) /\ Compose(c).input = c.input /\ Compose(c).caret = c.caret
<1> DEFINE p == SubSeq(c.input, 1, c.caret)
           d == ResetTo(c, p)
           e == PastCaret(d)
<1>1. p \in Texts
  BY TextIsSeq, PartIsText DEF Typed
<1>2. Typed(d) /\ d.input = c.input /\ d.caret = c.caret
  <2> HIDE DEF p
  <2> QED BY <1>1, ResetToTyped
<1>3. Compose(c) = Convert(e)
  BY DEF Compose
<1> HIDE DEF d
<1>4. Typed(e) /\ e.input = d.input /\ e.caret = d.caret
  <2>1. e \in {d, ResetTo(d, d.input)}
    BY DEF PastCaret
  <2> HIDE DEF e
  <2> QED BY <1>2, <2>1, ResetToTyped DEF Typed
<1> HIDE DEF e
<1> QED BY <1>2, <1>3, <1>4, ConvertTyped

LEMMA ChangedTyped ==
    ASSUME NEW c, Typed(c), NEW text \in Texts, NEW p \in 0..Len(text)
    PROVE  Typed(Compose(WithInput(c, text, p)))
<1> DEFINE d == WithInput(c, text, p)
<1>1. d = [c EXCEPT !.input = text, !.caret = p]
  BY DEF WithInput
<1> HIDE DEF d
<1>2. IsContext(d) /\ d.input = text /\ d.caret = p /\ d.active = c.active /\ d.segs = c.segs
  BY <1>1 DEF IsContext, Typed
<1> QED BY <1>2, ComposeTyped DEF d, Typed

LEMMA SetInputTyped ==
    ASSUME NEW c, Typed(c), NEW text \in Texts
    PROVE  Typed(SetInput(c, text))
<1> DEFINE p == Len(text)
<1>1. p \in 0..Len(text)
  BY TextIsSeq
<1>2. SetInput(c, text) = Compose(WithInput(c, text, p))
  BY DEF SetInput, WithInput
<1> HIDE DEF p
<1> QED BY <1>1, <1>2, ChangedTyped

LEMMA EndCaretTyped ==
    ASSUME NEW c, Typed(c)
    PROVE  Typed(SetCaret(c, Len(c.input)))
<1> DEFINE p == Len(c.input)
           text == c.input
<1>1. text \in Texts /\ IsContext(c) /\ p \in 0..Len(text)
  BY TextIsSeq DEF Typed
<1>2. SetCaret(c, p) = Compose(WithInput(c, text, p))
  BY <1>1 DEF SetCaret, WithInput, IsContext
<1> HIDE DEF p, text
<1> QED BY <1>2, <1>1, ChangedTyped DEF p

LEMMA WithSegsTyped ==
    ASSUME NEW c, Typed(c), NEW segs, Pieces(segs)
    PROVE  LET d == WithSegs(c, segs)
           IN  Typed(d) /\ d.segs = segs /\ d.input = c.input /\ d.caret = c.caret
<1> DEFINE d == WithSegs(c, segs)
<1> HIDE DEF d
<1> QED BY WithSegsIs DEF Typed, d

LEMMA ClearTyped ==
    ASSUME NEW c, IsContext(c), c.active \in Texts
    PROVE  Typed(Clear(c))
<1> DEFINE d == [c EXCEPT !.input = <<>>, !.caret = 0, !.segs = <<>>]
<1>1. Clear(c) = Compose(d)
  BY DEF Clear
<1>2. d = [c EXCEPT !.input = <<>>, !.caret = 0, !.segs = <<>>]
  OBVIOUS
<1> HIDE DEF d
<1>3. IsContext(d) /\ d.input = <<>> /\ d.caret = 0 /\ d.active = c.active /\ d.segs = <<>>
  BY <1>2 DEF IsContext
<1>4. Pieces(<<>>)
  <2>1. <<>> \in {<<>>} /\ <<>> \in Seq(Piece({<<>>}))
    OBVIOUS
  <2> QED BY <2>1 DEF Pieces
<1>5. Typed(d)
  BY <1>3, <1>4, EmptyIsText DEF Typed
<1> QED BY <1>1, <1>5, ComposeTyped

LEMMA CommitTyped ==
    ASSUME NEW c, Typed(c)
    PROVE  Typed(Commit(c))
<1> DEFINE text == CommitText(c)
           d == Sink(c, text)
           s == Append(c.sent, [typed |-> c.input, caret |-> c.caret, loose |-> Loose(c), text |-> text])
<1>1. d = [c EXCEPT !.sent = s]
  BY DEF Sink
<1>2. Commit(c) \in {c, Clear(d)}
  BY DEF Commit
<1> HIDE DEF d, s
<1>3. Typed(Clear(d))
  BY <1>1, ClearTyped DEF Typed, IsContext
<1> QED BY <1>2, <1>3

LEMMA WithLastTyped ==
    ASSUME NEW c, Typed(c), c.segs # <<>>, NEW M, <<>> \in M, NEW x \in Piece(M)
    PROVE  /\ Typed(WithLast(c, x)) /\ WithLast(c, x).segs # <<>> /\ Last(WithLast(c, x).segs) = x
           /\ WithLast(c, x).input = c.input /\ WithLast(c, x).caret = c.caret
<1>1. PICK K : <<>> \in K /\ c.segs \in Seq(Piece(K))
  BY DEF Typed, Pieces
<1> DEFINE N == M \union K
           segs == c.segs
           r == Append(Front(segs), x)
<1>2. <<>> \in N /\ segs \in Seq(Piece(N)) /\ x \in Piece(N)
  <2>1. K \subseteq N /\ M \subseteq N
    OBVIOUS
  <2>2. <<>> \in N
    BY <1>1
  <2> HIDE DEF N
  <2> QED BY <2>2, <1>1, <2>1, PiecesGrow DEF Piece
<1>3. segs # <<>>
  OBVIOUS
<1>4. WithLast(c, x) = WithSegs(c, r)
  BY DEF WithLast, WithSegs
<1> HIDE DEF N, segs
<1>5. r \in Seq(Piece(N)) /\ r # <<>> /\ Last(r) = x
  BY <1>2, <1>3, LastReplaced
<1> HIDE DEF r
<1> QED BY <1>4, <1>5, <1>2, WithSegsTyped DEF Pieces

LEMMA ForwardedTyped ==
    ASSUME NEW c, Typed(c)
    PROVE  Typed(Forwarded(c)) /\ Forwarded(c).input = c.input /\ Forwarded(c).caret = c.caret
<1>1. PICK K : <<>> \in K /\ c.segs \in Seq(Piece(K))
  BY DEF Typed, Pieces
<1> DEFINE r == Forward(c.segs)
<1>2. Pieces(r)
  BY <1>1, ForwardPieces DEF Pieces
<1>3. Forwarded(c) = WithSegs(c, r)
  BY DEF Forwarded, WithSegs
<1> HIDE DEF r
<1> QED BY <1>2, <1>3, WithSegsTyped

LEMMA OnClosedTyped ==
    ASSUME NEW c, Typed(c), c.segs # <<>>
    PROVE  Typed(OnClosed(c))
<1> DEFINE last == Last(c.segs)
           x == [last EXCEPT !.status = kConfirmed]
           d == Confirmed(c)
           f == Forwarded(c)
<1>1. PICK M : <<>> \in M /\ c.segs \in Seq(Piece(M))
  BY DEF Typed, Pieces
<1>2. x \in Piece(M)
  <2>1. last \in Piece(M)
    BY <1>1, Ends
  <2> HIDE DEF last
  <2> QED BY <2>1 DEF Piece
<1>3. d = WithLast(c, x)
  BY DEF Confirmed
<1> HIDE DEF x, d
<1>4. Typed(f) /\ f.input = c.input
  BY ForwardedTyped
<1>5. Typed(Commit(d)) /\ Typed(Forwarded(d))
  BY <1>1, <1>2, <1>3, WithLastTyped, CommitTyped, ForwardedTyped
<1> HIDE DEF f
<1>6. OnClosed(c) \in {Commit(d), Forwarded(d), SetCaret(f, Len(c.input)), Compose(f)}
  BY DEF OnClosed, d, f
<1> QED BY <1>5, <1>4, ComposeTyped, EndCaretTyped, <1>6

LEMMA ConfirmTyped ==
    ASSUME NEW c, Typed(c), c.segs # <<>>, CandidateEnd(Last(c.segs)) \in Nat
    PROVE  Typed(ConfirmCurrentSelection(c))
<1> DEFINE last == Last(c.segs)
           x == [last EXCEPT !.status = kSelected]
           d == Marked(c)
           y == Close(x)
<1>1. PICK M : <<>> \in M /\ c.segs \in Seq(Piece(M))
  BY DEF Typed, Pieces
<1>2. /\ x \in Piece(M) /\ x.start = last.start /\ x.menu = last.menu /\ x.index = last.index
      /\ x.tags \in SUBSET Tags
  <2>1. last \in Piece(M)
    BY <1>1, Ends
  <2> HIDE DEF last
  <2> QED BY <2>1 DEF Piece
<1>3. d = WithLast(c, x)
  BY DEF Marked
<1> HIDE DEF x, d
<1>4. Typed(d) /\ d.segs # <<>> /\ Last(d.segs) = x
  BY <1>1, <1>2, <1>3, WithLastTyped
<1>5. y \in Piece(M)
  <2> DEFINE e == CandidateEnd(x)
             tags == x.tags \union {"partial"}
             z == [x EXCEPT !.end = e, !.tags = tags]
  <2>1. y \in {x, z}
    BY DEF Close
  <2>2. e \in Nat /\ tags \in SUBSET Tags
    BY <1>2 DEF Tags, CandidateEnd, CandidateLength
  <2> HIDE DEF e, tags
  <2>3. z \in Piece(M)
    <3>1. z = [x EXCEPT !.end = e, !.tags = tags]
      OBVIOUS
    <3> HIDE DEF z
    <3> QED BY <2>2, <1>2, <3>1 DEF Piece
  <2> HIDE DEF y, z
  <2> QED BY <1>2, <2>1, <2>3
<1>6. OnSelect(d) = OnClosed(WithLast(d, y))
  BY <1>4 DEF OnSelect
<1> HIDE DEF y
<1>7. Typed(OnSelect(d))
  BY <1>6, <1>1, <1>4, <1>5, WithLastTyped, OnClosedTyped
<1> QED BY <1>4, <1>7 DEF ConfirmCurrentSelection, d

LEMMA SpellTyped ==
    ASSUME NEW c, Resting(c), NEW ch \in Keys, Len(c.input) < MaxInput,
           MisplacedIn(BeginEditing(PushInput(c, ch)), c)
    PROVE  Typed(Spell(c, ch))
<1> DEFINE d == BeginEditing(PushInput(c, ch))
           seg == Last(c.segs)
           w == WithLast(d, seg)
           e == ConfirmCurrentSelection(w)
           t == SubSeq(d.input, 1, seg.end)
           u == After(d.input, seg.end)
           h == Commit(SetInput(e, t))
           m == ReuseMatch(d, seg)
<1>1. Pushes(d, c)
  BY PushedIs
<1>2. /\ Resting(d) /\ Typed(d) /\ d.caret = c.caret + 1 /\ c.caret \in Nat
      /\ Len(d.input) = Len(c.input) + 1 /\ d.input \in Texts /\ Len(c.input) \in Nat
  <2> HIDE DEF d
  <2>1. Resting(d) /\ d.caret = c.caret + 1 /\ Len(d.input) = Len(c.input) + 1
    BY <1>1 DEF Pushes
  <2>2. Good(c, {}) /\ Good(d, {})
    BY <2>1 DEF Resting, Standing
  <2>3. Typed(d)
    BY <2>2, GoodIsTyped
  <2> QED BY <2>1, <2>3, <2>2, TextIsSeq DEF Good
<1>3. /\ editor.auto_select /\ ~HasMenu(d) /\ HasMenu(c) /\ Selectable(seg, seg.end)
  BY DEF MisplacedIn
<1>4. /\ seg \in Segment /\ seg.end <= Len(c.active) /\ c.segs # <<>>
  BY <1>3, LastSegment DEF Resting, HasMenu
<1>5. CandidateEnd(seg) \in Nat /\ seg \in Piece(Texts) /\ <<>> \in Texts /\ seg.end \in Nat
  BY <1>3, <1>4, CandidateOf, EmptyIsText DEF Selectable, Segment, Piece
<1>6. Spell(c, ch) = AutoSelectUnique(m)
  BY <1>3 DEF Spell, Pushed, Matched, AutoSelectPreviousMatch
<1>7. seg.end <= Len(d.input)
  <2>1. /\ c.input \in Seq(Keys) /\ c.caret \in 0..Len(c.input)
        /\ c.active \in {c.input, SubSeq(c.input, 1, c.caret)}
    BY TextIsSeq DEF Resting, Standing, Good, Follows
  <2> HIDE DEF seg, d
  <2> QED BY <1>2, <1>4, <1>5, <2>1, Prefix
<1> HIDE DEF d
<1> HIDE DEF seg
<1>8. Typed(w) /\ w.segs # <<>> /\ Last(w.segs) = seg
  BY <1>2, <1>5, WithLastTyped DEF CurrentEnd, Resting
<1> HIDE DEF w
<1>9. Typed(e)
  BY <1>5, <1>8, ConfirmTyped
<1>10. t \in Texts /\ u \in Texts
  <2>1. seg.end \in Int /\ 1 \in Nat \ {0}
    BY <1>5
  <2> QED BY <1>2, <1>5, <1>7, <2>1, PartIsText, AfterIsText
<1> HIDE DEF e, t, u
<1>11. Typed(h)
  BY <1>9, <1>10, SetInputTyped, CommitTyped
<1>12. m \in {e, SetInput(h, u)}
  BY DEF ReuseMatch, w, e, t, u, h
<1> HIDE DEF h, m
<1>13. Typed(m)
  BY <1>9, <1>10, <1>11, <1>12, SetInputTyped
<1>14. ASSUME HasMenu(m), Selectable(Last(m.segs), Len(m.input))
       PROVE  Typed(ConfirmCurrentSelection(m))
  BY <1>13, <1>14, TextIsSeq, ConfirmTyped DEF HasMenu, Selectable, Typed
<1> QED BY <1>6, <1>13, <1>14 DEF AutoSelectUnique

------------------------------------------------------------------------------
(* The inductive invariant: the context rests between two keys, while its  *)
(* candidates fit, and has its type in any case.                           *)

Inv == TypeOK /\ IsContext(ctx) /\ (Fits => Resting(ctx))

LEMMA NothingSent == SentInFull(<<>>)
<1> DEFINE S == {}
<1>1. <<>> \in Seq(S) /\ \A s \in S : InFull(s)
  OBVIOUS
<1> HIDE DEF S
<1> QED BY <1>1, Zenon DEF SentInFull

LEMMA NowIs ==
    ASSUME IsContext(ctx)
    PROVE  /\ IsContext(Now) /\ Now.sent = <<>> /\ Now.input = ctx.input /\ Now.caret = ctx.caret
           /\ Now.active = ctx.active /\ Now.segs = ctx.segs
<1> DEFINE d == Now
<1> HIDE DEF d
<1> QED BY DEF d, IsContext, Now

LEMMA NowRests ==
    ASSUME Resting(ctx)
    PROVE  /\ Resting(Now) /\ Standing(Now) /\ Now.sent = <<>> /\ Now.input = ctx.input /\ Now.caret = ctx.caret
           /\ Now.active = ctx.active /\ Now.segs = ctx.segs
BY NowIs, NothingSent DEF Resting, Standing, Good, Follows

LEMMA TypedIsOK ==
    ASSUME Typed(ctx), editor \in Editors, misfit \subseteq {"reused", "edited", "recut"}
    PROVE  TypeOK /\ IsContext(ctx)
<1>1. PICK M : ctx.segs \in Seq(Piece(M))
  BY DEF Typed, Pieces
<1>2. \A i \in DOMAIN ctx.segs : ctx.segs[i] \in Piece(M)
  <2> DEFINE segs == ctx.segs
  <2> HIDE DEF segs
  <2> QED BY <1>1, Ends DEF segs
<1> QED BY <1>2 DEF TypeOK, Typed, Piece

LEMMA InitOK ==
    ASSUME Init
    PROVE  Inv
<1> DEFINE d == Fresh
<1>1. d = [input |-> <<>>, caret |-> 0, active |-> <<>>, segs |-> <<>>, sent |-> <<>>]
  BY DEF Fresh
<1> HIDE DEF d
<1>2. IsContext(d) /\ d.input = <<>> /\ d.caret = 0 /\ d.active = <<>> /\ d.segs = <<>> /\ d.sent = <<>>
  BY <1>1 DEF IsContext
<1>3. Good(d, {})
  BY <1>2, NothingIsWhole, EmptyIsText, NothingSent DEF Good
<1>4. Resting(d)
  BY <1>2, <1>3 DEF Resting, Standing, Follows, VoidIsEmpty, LastIsOpen, CurrentEnd
<1> QED BY <1>4, <1>3, GoodIsTyped, TypedIsOK DEF Inv, Init, d

(* What a handler leaves rests, unless choices it took back do not fit.    *)
LEMMA BecomesOK ==
    ASSUME Inv, NEW d, Returns(d, Now), Becomes(d)
    PROVE  Inv'
<1>1. /\ ctx' = d /\ editor' = editor /\ misfit' = {WhyOutdated(seg) : seg \in Outdated(d)}
      /\ Resting(ctx) /\ editor \in Editors
  BY DEF Becomes, Inv, TypeOK
<1>2. Now.segs = ctx.segs
  BY <1>1, NowRests
<1>3. Typed(d)
  BY GoodIsTyped DEF Returns, ReopenedFrom, Composed, Resting, Standing
<1>4. (Fits => Resting(ctx))'
  <2> SUFFICES ASSUME misfit' = {} PROVE Resting(d)
    BY <1>1 DEF Fits
  <2> QED BY <1>2, <1>1, ReopenedFits DEF Returns, Outdated
<1>5. (Typed(ctx) /\ editor \in Editors /\ misfit \subseteq {"reused", "edited", "recut"})'
  BY <1>1, <1>3 DEF WhyOutdated
<1>6. (TypeOK /\ IsContext(ctx))'
  BY <1>5, TypedIsOK, PTL
<1> QED BY <1>4, <1>6 DEF Inv

LEMMA SpellKeyOK ==
    ASSUME Inv, NEW ch \in Keys, SpellKey(ch)
    PROVE  Inv'
<1> DEFINE d == Spell(Now, ch)
<1>1. /\ ctx' = d /\ misfit' = {m \in {"reused"} : Misplaced(ch)} /\ editor' = editor
      /\ Resting(ctx) /\ editor \in Editors /\ Len(ctx.input) < MaxInput
  BY DEF SpellKey, Inv, TypeOK
<1>2. Resting(Now) /\ Now.input = ctx.input /\ Now.caret = ctx.caret /\ Now.segs = ctx.segs
  BY <1>1, NowRests
<1>3. Misplaced(ch) <=> MisplacedIn(BeginEditing(PushInput(Now, ch)), Now)
  BY <1>2 DEF Misplaced, MisplacedIn, HasMenu
<1> DEFINE c == Now
<1>4. Resting(c) /\ Len(c.input) < MaxInput
  BY <1>1, <1>2
<1>5. ~Misplaced(ch) => Resting(d)
  <2>1. ~MisplacedIn(BeginEditing(PushInput(c, ch)), c) => Resting(Spell(c, ch))
    <3> HIDE DEF c
    <3> QED BY <1>4, SpellRests
  <2> QED BY <1>3, <2>1
<1>6. Misplaced(ch) => Typed(d)
  <2>1. MisplacedIn(BeginEditing(PushInput(c, ch)), c) => Typed(Spell(c, ch))
    <3> HIDE DEF c
    <3> QED BY <1>4, SpellTyped
  <2> QED BY <1>3, <2>1
<1> HIDE DEF c, d
<1>7. (Typed(ctx) /\ editor \in Editors /\ misfit \subseteq {"reused", "edited", "recut"})'
  BY <1>1, <1>5, <1>6, GoodIsTyped DEF Resting, Standing
<1>8. (TypeOK /\ IsContext(ctx))'
  BY <1>7, TypedIsOK, PTL
<1> QED BY <1>8, <1>1, <1>5 DEF Inv, Fits

LEMMA CharKeyOK ==
    ASSUME Inv, NEW ch \in Keys, CharKey(ch)
    PROVE  Inv'
<1>1. Resting(ctx) /\ Len(ctx.input) < MaxInput
  BY DEF CharKey, Becomes, Inv
<1> DEFINE d == IF editor.auto_commit THEN Commit(Now) ELSE BeginEditing(PushInput(Now, ch))
<1>2. Returns(d, Now) /\ Becomes(d)
  BY <1>1, NowRests, CommitRests, PushKeyRests DEF Returns, CharKey
<1> HIDE DEF d
<1> QED BY <1>2, BecomesOK

LEMMA EditorKeyOK ==
    ASSUME Inv, EditorKey
    PROVE  Inv'
<1>1. Resting(Now) /\ Standing(Now)
  BY NowRests DEF Inv, EditorKey, Becomes
<1>2. CASE Becomes(Confirm(Now))
  BY <1>1, <1>2, ConfirmRests, BecomesOK DEF Returns
<1>3. CASE Becomes(CommitComposition(Now))
  BY <1>1, <1>3, CommitCompositionRests, BecomesOK DEF Returns
<1>4. CASE Becomes(ToggleSelection(Now))
  BY <1>1, <1>4, ToggleReturns, BecomesOK
<1>5. CASE Becomes(CommitRawInput(Now))
  BY <1>1, <1>5, CommitRawRests, BecomesOK DEF Returns
<1>6. CASE Becomes(CommitScriptText(Now))
  BY <1>1, <1>6, CommitScriptTextRests, BecomesOK DEF Returns
<1>7. ASSUME NEW n \in 1..MaxInput, Becomes(RevertLastEdit(Now, n))
      PROVE  Inv'
  BY <1>7, <1>1, RevertReturns, BecomesOK
<1>8. CASE Becomes(BackToPreviousInput(Now))
  BY <1>1, <1>8, BackReturns, BecomesOK
<1>9. CASE Becomes(DeleteChar(Now))
  BY <1>1, <1>9, DeleteCharRests, BecomesOK DEF Returns
<1>10. CASE Becomes(CancelComposition(Now))
  BY <1>1, <1>10, CancelRests, BecomesOK DEF Returns
<1> QED BY <1>2, <1>3, <1>4, <1>5, <1>6, <1>7, <1>8, <1>9, <1>10 DEF EditorKey

LEMMA MoveOK ==
    ASSUME Inv, NEW p \in 0..MaxInput, Move(p)
    PROVE  Inv'
<1> DEFINE c == BeginEditing(Now)
           d == IF p = c.caret THEN c ELSE SetCaret(c, p)
<1>1. Becomes(d) /\ p <= Len(ctx.input)
  BY DEF Move
<1>2. Resting(d)
  BY <1>1, NowRests, MoveRests DEF Becomes, Inv
<1> HIDE DEF d
<1> QED BY <1>1, <1>2, BecomesOK DEF Returns

LEMMA ChooseOK ==
    ASSUME Inv, NEW i \in 0..MaxInput, SelectKey(i) \/ HighlightKey(i)
    PROVE  Inv'
<1>1. Resting(Now) /\ Now.segs = ctx.segs /\ i \in Nat
  BY NowRests DEF Inv, SelectKey, HighlightKey, Becomes
<1>2. CASE SelectKey(i)
  BY <1>1, <1>2, SelectRests, BecomesOK DEF Returns, SelectKey, CanSelect
<1>3. CASE HighlightKey(i)
  BY <1>1, <1>3, HighlightRests, BecomesOK DEF Returns, HighlightKey, CanHighlight, HighlightIndex,
    HasMenu
<1> QED BY <1>2, <1>3

LEMMA UpdateOK ==
    ASSUME Inv, OptionUpdate \/ SwitchCommitText \/ CommitCall
    PROVE  Inv'
BY NowRests, RefreshRests, CommitRests, SwitchRests, BecomesOK DEF OptionUpdate,
  SwitchCommitText, CommitCall, Returns, Inv, Becomes

LEMMA RestartOK ==
    ASSUME Inv, ClearCall \/ ApplySchema
    PROVE  Inv'
<1> DEFINE d == Clear(Now)
<1>1. Resting(d)
  BY NowIs, NothingSent, ClearRests DEF Inv, TypeOK
<1>2. ctx' = d /\ editor' \in Editors /\ misfit' = {}
  BY DEF ClearCall, ApplySchema, Inv, TypeOK
<1> HIDE DEF d
<1>3. (Typed(ctx) /\ editor \in Editors /\ misfit \subseteq {"reused", "edited", "recut"})'
  BY <1>2, <1>1, GoodIsTyped DEF Resting, Standing
<1>4. (TypeOK /\ IsContext(ctx))'
  BY <1>3, TypedIsOK, PTL
<1> QED BY <1>1, <1>2, <1>4 DEF Inv

LEMMA StutterOK ==
    ASSUME Inv, UNCHANGED vars
    PROVE  Inv'
BY DEF vars, Inv, TypeOK, Fits

LEMMA NextOK ==
    ASSUME Inv, [Next]_vars
    PROVE  Inv'
<1>1. ASSUME NEW ch \in Keys, SpellKey(ch) \/ CharKey(ch)
      PROVE  Inv'
  BY <1>1, SpellKeyOK, CharKeyOK
<1>2. CASE EditorKey
  BY <1>2, EditorKeyOK
<1>3. ASSUME NEW p \in 0..MaxInput, Move(p)
      PROVE  Inv'
  BY <1>3, MoveOK
<1>4. ASSUME NEW i \in 0..MaxInput, SelectKey(i) \/ HighlightKey(i)
      PROVE  Inv'
  BY <1>4, ChooseOK
<1>5. CASE OptionUpdate \/ SwitchCommitText \/ CommitCall
  BY <1>5, UpdateOK
<1>6. CASE ClearCall \/ ApplySchema
  BY <1>6, RestartOK
<1>7. CASE UNCHANGED vars
  BY <1>7, StutterOK
<1> QED BY <1>1, <1>2, <1>3, <1>4, <1>5, <1>6, <1>7 DEF Next

(* In every state the engine reaches, the context rests: its composition is *)
(* well formed, and what it shows, commits and keeps fits what was typed.   *)
THEOREM Invariance == Spec => []Inv
<1>1. Init => Inv
  BY InitOK
<1>2. Inv /\ [Next]_vars => Inv'
  BY NextOK
<1> QED BY <1>1, <1>2, PTL DEF Spec

LEMMA InvIsTiled == Inv => Tiled
<1> SUFFICES ASSUME Inv PROVE Tiled
  OBVIOUS
<1> DEFINE segs == ctx.segs
<1>1. ASSUME Fits
      PROVE  /\ \A i \in DOMAIN segs :
                  /\ segs[i].start = IF i = 1 THEN 0 ELSE segs[i - 1].end
                  /\ IsEmpty(segs[i]) => i = Len(segs)
             /\ CurrentEnd(segs) \in ctx.caret..Len(ctx.active)
             /\ ctx.active \in {ctx.input, SubSeq(ctx.input, 1, ctx.caret)}
  <2>1. Resting(ctx) /\ Standing(ctx) /\ Good(ctx, {})
    BY <1>1 DEF Inv, Resting, Standing
  <2>2. Chained(segs, Len(ctx.active)) /\ segs \in Seq(Segment)
    BY <2>1 DEF Good, Whole
  <2>3. CurrentEnd(segs) \in Nat
    BY <2>2, EndOf
  <2>4. CurrentEnd(segs) >= ctx.caret /\ CurrentEnd(segs) <= Len(ctx.active)
    BY <2>1, <2>2 DEF Resting, Chained
  <2>5. ctx.active \in {ctx.input, SubSeq(ctx.input, 1, ctx.caret)}
    BY <2>1 DEF Standing, Follows
  <2> HIDE DEF segs
  <2>6. CurrentEnd(segs) \in ctx.caret..Len(ctx.active)
    BY <2>3, <2>1, TextIsSeq, <2>4 DEF Good
  <2> QED BY <2>2, <2>5, <2>6 DEF Chained
<1> QED BY <1>1 DEF Tiled, Inv

LEMMA InvIsShown == Inv => ShownIsTyped
<1> SUFFICES ASSUME Inv, Fits, NEW i \in DOMAIN ctx.segs, HasCandidate(ctx.segs[i])
             PROVE  /\ CandidateEnd(ctx.segs[i]) <= Len(ctx.active)
                    /\ Converted(ctx.segs[i])
                         = SubSeq(ctx.active, ctx.segs[i].start + 1, CandidateEnd(ctx.segs[i]))
  BY DEF ShownIsTyped
<1> DEFINE segs == ctx.segs
           text == ctx.active
<1>1. text \in Texts /\ Whole(segs, text, {}) /\ VoidIsEmpty(segs) /\ i \in DOMAIN segs /\ Len(text) \in Nat
  BY TextIsSeq DEF Inv, Resting, Standing, Good
<1> HIDE DEF segs, text
<1>2. segs[i] \in Segment /\ segs[i].end <= Len(text) /\ ShownFits(segs[i], text)
  BY <1>1, WholeShown
<1>3. HasCandidate(segs[i])
  BY DEF segs
<1>4. CandidateEnd(segs[i]) \in Nat /\ segs[i].end \in Nat
  BY <1>2, <1>3, CandidateOf DEF Segment
<1> QED BY <1>1, <1>2, <1>3, <1>4 DEF segs, text, ShownFits

LEMMA InvIsInFull == Inv => CommittedInFull
<1> SUFFICES ASSUME Inv, Fits, NEW i \in DOMAIN ctx.sent PROVE InFull(ctx.sent[i])
  BY DEF CommittedInFull, InFull
<1>1. PICK S : ctx.sent \in Seq(S) /\ \A s \in S : InFull(s)
  BY DEF SentInFull, Inv, Resting, Standing, Good
<1> DEFINE sent == ctx.sent
<1>2. sent \in Seq(S) /\ i \in DOMAIN sent
  BY <1>1
<1> HIDE DEF sent
<1> QED BY <1>1, <1>2, Ends DEF sent

(* Whatever keys are typed in whatever order, and whatever the translators *)
(* offer, the segments lie end to end from the start of the text composed, *)
(* none but the last is empty, and they reach the caret.                   *)
THEOREM TiledAlways == Spec => []Tiled
BY Invariance, InvIsTiled, PTL

(* Every candidate shown or chosen converts the characters it stands for.  *)
THEOREM ShownIsTypedAlways == Spec => []ShownIsTyped
BY Invariance, InvIsShown, PTL

(* A commit from the end of the input sends all that was typed, unless a   *)
(* segment was passed over with a candidate for a part of it.              *)
THEOREM CommittedInFullAlways == Spec => []CommittedInFull
BY Invariance, InvIsInFull, PTL

------------------------------------------------------------------------------
(* Choices kept: those of s that end by k are those of t, place by place.  *)

Held(s, t, k) ==
    \A i \in 1..Len(s) - 1 : Lasting(s[i]) /\ s[i].end <= k =>
        i \in 1..Len(t) - 1 /\ Lasting(t[i]) /\ Choice(t[i]) = Choice(s[i])

LEMMA HeldTrans ==
    ASSUME NEW s, NEW t, NEW u, NEW k, Held(s, t, k), Held(t, u, k)
    PROVE  Held(s, u, k)
BY DEF Held, Choice

LEMMA KeepsHolds ==
    ASSUME NEW s, NEW t, NEW k, Keeps(s, t)
    PROVE  Held(s, t, k)
BY DEF Held, Keeps

LEMMA HeldLess ==
    ASSUME NEW s \in Seq(Segment), NEW t, NEW k \in Nat, NEW j \in Nat, j <= k, Held(s, t, k)
    PROVE  Held(s, t, j)
<1>1. \A i \in 1..Len(s) - 1 : s[i] \in Segment
  BY Ends
<1>2. \A i \in 1..Len(s) - 1 : s[i].end \in Nat
  BY <1>1 DEF Segment
<1> QED BY <1>2 DEF Held

LEMMA ResetHolds ==
    ASSUME NEW old \in Texts, NEW text \in Texts, NEW X, NEW segs, Whole(segs, old, X), NEW k \in Nat,
           k <= Len(old), k <= Len(text), SubSeq(old, 1, k) = SubSeq(text, 1, k)
    PROVE  Held(segs, Reset(segs, old, text), k)
<1> DEFINE kept == Kept(old, text)
           r == Reset(segs, old, text)
<1>1. Len(old) \in Nat /\ Len(text) \in Nat /\ segs \in Seq(Segment)
  BY TextIsSeq DEF Whole
<1>2. kept \in Nat /\ k <= kept
  <2>1. k \in 0..Len(old)
    BY <1>1
  <2> HIDE DEF kept
  <2> QED BY <1>1, KeptOf, <2>1 DEF kept
<1>3. \A i \in 1..Len(segs) - 1 : Lasting(segs[i]) /\ segs[i].end <= kept
         => i \in 1..Len(r) - 1 /\ r[i] = segs[i]
  BY ResetWhole
<1>4. \A i \in 1..Len(segs) - 1 : segs[i].end \in Nat
  <2>1. \A i \in 1..Len(segs) - 1 : segs[i] \in Segment
    BY <1>1, Ends
  <2> QED BY <2>1 DEF Segment
<1> HIDE DEF kept, r
<1>5. Held(segs, r, k)
  <2> SUFFICES ASSUME NEW i \in 1..Len(segs) - 1, Lasting(segs[i]), segs[i].end <= k
               PROVE  i \in 1..Len(r) - 1 /\ r[i] = segs[i]
    BY DEF Held
  <2> DEFINE e == segs[i].end
  <2>1. e \in Nat /\ e <= k
    BY <1>4
  <2> HIDE DEF e
  <2> QED BY <1>3, <1>2, <2>1 DEF e
<1> QED BY <1>5 DEF r

(* Composing keeps the choices in the text that both the composition and   *)
(* the input up to the caret begin with.                                   *)
LEMMA ComposeHolds ==
    ASSUME NEW c, NEW X, Good(c, X), NEW k \in Nat, k <= c.caret, k <= Len(c.active),
           SubSeq(c.active, 1, k) = SubSeq(c.input, 1, k)
    PROVE  Held(c.segs, Compose(c).segs, k)
<1> DEFINE p == SubSeq(c.input, 1, c.caret)
           c1 == ResetTo(c, p)
           c2 == PastCaret(c1)
           d == Convert(c2)
<1>1. /\ c.input \in Texts /\ c.input \in Seq(Keys) /\ c.caret \in 0..Len(c.input) /\ Len(c.input) \in Nat
      /\ c.active \in Texts /\ Whole(c.segs, c.active, X) /\ c.segs \in Seq(Segment)
  BY TextIsSeq DEF Good, Whole
<1>2. p \in Texts /\ Len(p) = c.caret /\ SubSeq(p, 1, k) = SubSeq(c.input, 1, k)
  <2>1. c.caret \in Int /\ c.caret <= Len(c.input) /\ 1 \in Nat \ {0} /\ k \in Int
    BY <1>1
  <2> QED BY <1>1, <2>1, PartIsText, Prefix, PartOfPrefix
<1> HIDE DEF p
<1>3. /\ Good(c1, X) /\ c1.active = p /\ c1.input = c.input /\ c1.caret = c.caret
      /\ c1.segs = Reset(c.segs, c.active, p)
  BY <1>2, ResetToGood
<1>4. Held(c.segs, c1.segs, k)
  BY <1>3, <1>1, <1>2, ResetHolds
<1> HIDE DEF c1
<1>5. /\ Good(c2, X) /\ c2.caret <= Len(c2.active)
  BY <1>2, <1>3, PastCaretGood DEF p
<1>6. Held(c1.segs, c2.segs, k)
  <2>1. CASE c2 = c1
    BY <2>1 DEF Held
  <2>2. CASE c2 = ResetTo(c1, c1.input)
    <3> DEFINE t == c.input
               s == c1.segs
    <3>1. c2.segs = Reset(s, p, t)
      BY <1>3, <2>2, <1>1, ResetToGood
    <3>2. /\ t \in Texts /\ Whole(s, p, X) /\ k <= Len(p) /\ k <= Len(t)
          /\ SubSeq(p, 1, k) = SubSeq(t, 1, k)
      BY <1>1, <1>2, <1>3 DEF Good
    <3> HIDE DEF s, t
    <3> QED BY <3>1, <1>2, <3>2, ResetHolds DEF s
  <2> QED BY <2>1, <2>2 DEF PastCaret
<1> HIDE DEF c2
<1>7. Held(c2.segs, d.segs, k)
  BY <1>5, ConvertGood, KeepsHolds
<1> HIDE DEF d
<1> QED BY <1>7, <1>4, <1>6, HeldTrans DEF Compose, d, c2, c1, p

(* The part composed and the input begin alike, up to the caret.           *)
LEMMA ActiveAgrees ==
    ASSUME NEW c, Standing(c), NEW k \in Nat, k <= c.caret
    PROVE  k <= Len(c.active) /\ SubSeq(c.active, 1, k) = SubSeq(c.input, 1, k)
<1>1. /\ c.input \in Seq(Keys) /\ c.caret \in 0..Len(c.input) /\ Len(c.input) \in Nat
      /\ c.active \in {c.input, SubSeq(c.input, 1, c.caret)}
  BY TextIsSeq DEF Standing, Good, Follows
<1> QED BY <1>1, CaretInActive, TextIsSeq, PartOfPrefix DEF Standing, Good

LEMMA ChangedHolds ==
    ASSUME NEW c, Standing(c), NEW text \in Texts, NEW p \in 0..Len(text),
           NEW k \in Nat, k <= c.caret, k <= p, SubSeq(c.input, 1, k) = SubSeq(text, 1, k)
    PROVE  Held(c.segs, Compose(WithInput(c, text, p)).segs, k)
<1> DEFINE d == WithInput(c, text, p)
<1>1. /\ Good(d, {}) /\ d.input = text /\ d.caret = p
      /\ d.active = c.active /\ d.segs = c.segs
  BY WithInputGood DEF Standing
<1> HIDE DEF d
<1> QED BY <1>1, ActiveAgrees, ComposeHolds DEF d

LEMMA SetInputHolds ==
    ASSUME NEW c, Standing(c), NEW text \in Texts,
           NEW k \in Nat, k <= c.caret, k <= Len(text), SubSeq(c.input, 1, k) = SubSeq(text, 1, k)
    PROVE  Held(c.segs, SetInput(c, text).segs, k)
<1> DEFINE p == Len(text)
<1>1. p \in 0..Len(text) /\ k <= p
  BY TextIsSeq
<1>2. SetInput(c, text) = Compose(WithInput(c, text, p))
  BY DEF SetInput, WithInput
<1> HIDE DEF p
<1> QED BY <1>1, <1>2, ChangedHolds

LEMMA SetCaretHolds ==
    ASSUME NEW c, Standing(c), NEW p \in 0..Len(c.input), NEW k \in Nat, k <= c.caret, k <= p
    PROVE  Held(c.segs, SetCaret(c, p).segs, k)
<1> DEFINE text == c.input
<1>1. text \in Texts /\ IsContext(c) /\ p \in 0..Len(text) /\ SubSeq(c.input, 1, k) = SubSeq(text, 1, k)
  BY DEF Standing, Good
<1>2. SetCaret(c, p) = Compose(WithInput(c, text, p))
  BY <1>1 DEF SetCaret, WithInput, IsContext
<1> HIDE DEF text
<1> QED BY <1>1, <1>2, ChangedHolds

LEMMA PushHolds ==
    ASSUME NEW c, Standing(c), NEW ch \in Keys, Len(c.input) < MaxInput
    PROVE  Held(c.segs, PushInput(c, ch).segs, c.caret)
<1> DEFINE r == SubSeq(c.input, 1, c.caret) \o <<ch>> \o After(c.input, c.caret)
           p == c.caret + 1
           k == c.caret
<1>1. c.input \in Texts /\ c.caret \in 0..Len(c.input) /\ Len(c.input) \in Nat
  BY TextIsSeq DEF Standing, Good
<1>2. r \in Texts /\ Len(r) = Len(c.input) + 1 /\ SubSeq(r, 1, c.caret) = SubSeq(c.input, 1, c.caret)
  BY <1>1, PushedIsText
<1>3. PushInput(c, ch) = Compose(WithInput(c, r, p))
  BY DEF PushInput, WithInput
<1> HIDE DEF r
<1>4. p \in 0..Len(r) /\ k \in Nat /\ k <= p /\ k <= c.caret
  BY <1>1, <1>2
<1> HIDE DEF p
<1>5. SubSeq(c.input, 1, k) = SubSeq(r, 1, k)
  BY <1>2
<1> HIDE DEF k
<1> QED BY <1>3, <1>2, <1>4, <1>5, ChangedHolds DEF k

LEMMA BeginEditingHolds ==
    ASSUME NEW c, Standing(c), NEW k
    PROVE  Held(c.segs, BeginEditing(c).segs, k)
<1> DEFINE n == LastChosen(c)
           segs == c.segs
           tags == segs[n].tags \union {"selected_before_editing"}
           x == [segs[n] EXCEPT !.tags = tags]
           r == [segs EXCEPT ![n] = x]
           d == WithSegs(c, r)
<1>1. CASE ~ChosenOnly(c)
  BY <1>1 DEF BeginEditing, Held
<1>2. CASE ChosenOnly(c)
  <2>1. BeginEditing(c) = d
    BY <1>2 DEF BeginEditing, WithSegs
  <2>2. IsContext(c) /\ segs \in Seq(Segment)
    BY DEF Standing, Good, Whole
  <2>3. d.segs = r
    BY <2>2, WithSegsIs
  <2>4. DOMAIN segs = 1..Len(segs) /\ Len(segs) \in Nat /\ n \in 0..Len(segs) /\ n # 0
    BY <1>2, <2>2, LastChosenOf, Ends DEF ChosenOnly
  <2> HIDE DEF n, d
  <2>5. segs[n] \in Segment
    <3> HIDE DEF segs
    <3> QED BY <2>2, <2>4, Ends
  <2>6. /\ x.status = segs[n].status /\ x.start = segs[n].start /\ x.end = segs[n].end
        /\ x.menu = segs[n].menu /\ x.index = segs[n].index /\ x.tags = tags
    <3> DEFINE seg == segs[n]
    <3> HIDE DEF seg, tags
    <3> QED BY <2>5 DEF seg, Segment
  <2>7. Lasting(segs[n]) => Lasting(x) /\ Choice(x) = Choice(segs[n])
    <3>1. "raw" \notin segs[n].tags => "raw" \notin tags
      OBVIOUS
    <3> HIDE DEF x, tags
    <3> QED BY <2>6, <3>1 DEF Lasting, Choice
  <2> HIDE DEF x
  <2>8. DOMAIN r = 1..Len(segs) /\ \A i \in 1..Len(segs) : r[i] = IF i = n THEN x ELSE segs[i]
    BY <2>4
  <2>9. Len(r) = Len(segs)
    <3> HIDE DEF segs
    <3> DEFINE S == Segment \union {x}
    <3> HIDE DEF r, S
    <3> QED BY <2>8, <2>2, Ends, <2>4, SeqDef, LenProperties
  <2> HIDE DEF r
  <2>10. Held(segs, r, k)
    <3> SUFFICES ASSUME NEW i \in 1..Len(segs) - 1, Lasting(segs[i])
                 PROVE  i \in 1..Len(r) - 1 /\ Lasting(r[i]) /\ Choice(r[i]) = Choice(segs[i])
      BY DEF Held
    <3> HIDE DEF segs
    <3> QED BY <2>9, <2>4, <2>7, <2>8
  <2> QED BY <2>1, <2>3, <2>10
<1> QED BY <1>1, <1>2

(* The choices of B that end by k are those of c, which begins with the    *)
(* text P up to k and has its caret there or further - or c has been sent. *)
Carried(B, k, P, c) ==
    c.sent # <<>> \/ (Held(B, c.segs, k) /\ k <= c.caret /\ SubSeq(c.input, 1, k) = P)

LEMMA HolderCarries ==
    ASSUME NEW B, NEW k, NEW P, NEW c, Carried(B, k, P, c),
           NEW d, d.sent = c.sent, d.input = c.input, d.caret = c.caret, Held(c.segs, d.segs, k)
    PROVE  Carried(B, k, P, d)
<1>1. CASE c.sent # <<>>
  BY <1>1 DEF Carried
<1>2. CASE c.sent = <<>>
  BY <1>2, HeldTrans DEF Carried
<1> QED BY <1>1, <1>2

LEMMA SetInputCarries ==
    ASSUME NEW B, NEW k \in Nat, NEW P, NEW c, Standing(c), Carried(B, k, P, c),
           NEW text \in Texts, k <= Len(text), SubSeq(text, 1, k) = P
    PROVE  Carried(B, k, P, SetInput(c, text))
<1> DEFINE p == Len(text)
           d == WithInput(c, text, p)
           e == Compose(d)
<1>1. p \in 0..Len(text)
  BY TextIsSeq
<1>2. SetInput(c, text) = e
  BY DEF SetInput, WithInput
<1> HIDE DEF p
<1>3. Good(d, {}) /\ d.input = text /\ d.caret = p /\ d.sent = c.sent
  BY <1>1, WithInputGood DEF Standing
<1> HIDE DEF d
<1>4. e.input = d.input /\ e.caret = d.caret /\ e.sent = d.sent
  BY <1>3, ComposeGood
<1> HIDE DEF e
<1>5. CASE c.sent # <<>>
  BY <1>2, <1>3, <1>4, <1>5 DEF Carried
<1>6. CASE c.sent = <<>>
  <2>1. Held(B, e.segs, k)
    BY <1>6, <1>2, SetInputHolds, HeldTrans DEF Carried
  <2> QED BY <1>2, <1>3, <1>4, <2>1 DEF Carried, p
<1> QED BY <1>5, <1>6

LEMMA SetCaretCarries ==
    ASSUME NEW B, NEW k \in Nat, NEW P, NEW c, Standing(c), Carried(B, k, P, c),
           NEW p \in 0..Len(c.input), k <= p
    PROVE  Carried(B, k, P, SetCaret(c, p))
<1> DEFINE text == c.input
           d == WithInput(c, text, p)
           e == Compose(d)
<1>1. text \in Texts /\ IsContext(c) /\ p \in 0..Len(text)
  BY DEF Standing, Good
<1>2. SetCaret(c, p) = e
  BY <1>1 DEF SetCaret, WithInput, IsContext
<1>3. Good(d, {}) /\ d.input = c.input /\ d.caret = p /\ d.sent = c.sent
  <2> HIDE DEF text
  <2> QED BY <1>1, WithInputGood DEF text, Standing
<1> HIDE DEF d
<1>4. e.input = d.input /\ e.caret = d.caret /\ e.sent = d.sent
  BY <1>3, ComposeGood
<1> HIDE DEF e
<1>5. CASE c.sent # <<>>
  BY <1>2, <1>3, <1>4, <1>5 DEF Carried
<1>6. CASE c.sent = <<>>
  <2>1. Held(B, c.segs, k) /\ k <= c.caret /\ SubSeq(c.input, 1, k) = P
    BY <1>6 DEF Carried
  <2> QED BY <1>2, <1>3, <1>4, <2>1, SetCaretHolds, HeldTrans DEF Carried
<1> QED BY <1>5, <1>6

LEMMA ComposeCarries ==
    ASSUME NEW B, NEW k \in Nat, NEW P, NEW c, Standing(c), Carried(B, k, P, c)
    PROVE  Carried(B, k, P, Compose(c))
<1> DEFINE e == Compose(c)
<1>1. e.input = c.input /\ e.caret = c.caret /\ e.sent = c.sent
  BY ComposeGood DEF Standing
<1> HIDE DEF e
<1>2. CASE c.sent # <<>>
  BY <1>1, <1>2 DEF Carried, e
<1>3. CASE c.sent = <<>>
  <2>1. Held(B, c.segs, k) /\ k <= c.caret /\ SubSeq(c.input, 1, k) = P
    BY <1>3 DEF Carried
  <2> QED BY <1>1, <2>1, ActiveAgrees, ComposeHolds, HeldTrans DEF Carried, e, Standing
<1> QED BY <1>2, <1>3

LEMMA WithLastCarries ==
    ASSUME NEW B, NEW k, NEW P, NEW c, Standing(c), c.segs # <<>>, Carried(B, k, P, c), NEW x \in Segment
    PROVE  Carried(B, k, P, WithLast(c, x))
<1> DEFINE r == Append(Front(c.segs), x)
           d == WithSegs(c, r)
<1>1. IsContext(c) /\ c.segs \in Seq(Segment)
  BY DEF Standing, Good, Whole
<1>2. Keeps(c.segs, r)
  <2> DEFINE segs == c.segs
  <2>1. segs \in Seq(Segment) /\ segs # <<>>
    BY <1>1
  <2> HIDE DEF segs
  <2> QED BY <2>1, LastKeeps DEF segs
<1>3. WithLast(c, x) = d
  BY DEF WithLast, WithSegs
<1> HIDE DEF r
<1>4. d.segs = r /\ d.input = c.input /\ d.caret = c.caret /\ d.sent = c.sent
  BY <1>1, WithSegsIs
<1> HIDE DEF d
<1> QED BY <1>3, <1>4, <1>2, KeepsHolds, HolderCarries

LEMMA ForwardedCarries ==
    ASSUME NEW B, NEW k, NEW P, NEW c, Standing(c), Carried(B, k, P, c)
    PROVE  Carried(B, k, P, Forwarded(c))
<1> DEFINE r == Forward(c.segs)
           d == WithSegs(c, r)
<1>1. IsContext(c) /\ Whole(c.segs, c.active, {}) /\ c.active \in Texts
  BY DEF Standing, Good
<1>2. Keeps(c.segs, r)
  BY <1>1, ForwardWhole
<1>3. Forwarded(c) = d
  BY DEF Forwarded, WithSegs
<1> HIDE DEF r
<1>4. d.segs = r /\ d.input = c.input /\ d.caret = c.caret /\ d.sent = c.sent
  BY <1>1, WithSegsIs
<1> HIDE DEF d
<1> QED BY <1>3, <1>4, <1>2, KeepsHolds, HolderCarries

(* A text sent makes the list of what was sent longer.                     *)
LEMMA SinkSends ==
    ASSUME NEW c, Standing(c), NEW text
    PROVE  Sink(c, text).sent # <<>>
<1> DEFINE x == [typed |-> c.input, caret |-> c.caret, loose |-> Loose(c), text |-> text]
           d == Sink(c, text)
           s == c.sent
           a == Append(s, x)
<1>1. IsContext(c) /\ SentInFull(c.sent)
  BY DEF Standing, Good
<1>2. d = [c EXCEPT !.sent = Append(@, x)]
  BY DEF Sink
<1> HIDE DEF x, d
<1>3. d.sent = a
  BY <1>1, <1>2 DEF IsContext
<1>4. PICK S : s \in Seq(S)
  BY <1>1 DEF SentInFull
<1> HIDE DEF s
<1>5. Len(a) = Len(s) + 1 /\ Len(s) \in Nat
  BY <1>4
<1> HIDE DEF a
<1>6. a # <<>>
  BY <1>5
<1> QED BY <1>3, <1>6 DEF d

(* What is committed is sent. *)
LEMMA CommitSends ==
    ASSUME NEW c, Standing(c), IsComposing(c) \/ c.sent # <<>>
    PROVE  Commit(c).sent # <<>>
<1>1. CASE IsComposing(c)
  <2> DEFINE t == CommitText(c)
             d == Sink(c, t)
  <2>1. c.caret = Len(c.input) /\ ~Loose(c) => t = c.input
    BY CommitTextInFull
  <2>2. Commit(c) = Clear(d)
    BY <1>1 DEF Commit
  <2> HIDE DEF t
  <2>3. IsContext(d) /\ d.active = c.active /\ SentInFull(d.sent)
    BY <2>1, SinkInFull
  <2>4. d.sent # <<>>
    BY SinkSends
  <2> HIDE DEF d
  <2>5. Clear(d).sent = d.sent
    BY <2>3, ClearRests DEF Standing, Good
  <2> QED BY <2>2, <2>4, <2>5
<1>2. CASE ~IsComposing(c)
  BY <1>2 DEF Commit
<1> QED BY <1>1, <1>2

LEMMA OnClosedCarries ==
    ASSUME NEW B, NEW k \in Nat, NEW P, NEW c, Standing(c), c.segs # <<>>, Carried(B, k, P, c)
    PROVE  Carried(B, k, P, OnClosed(c))
<1> DEFINE x == [Last(c.segs) EXCEPT !.status = kConfirmed]
           conf == WithLast(c, x)
           n == Len(c.input)
<1>1. /\ Standing(conf) /\ conf.segs # <<>> /\ Last(conf.segs) = x
  BY LastMarked
<1>2. x \in Segment
  <2> HIDE DEF x, conf
  <2> QED BY <1>1, LastSegment
<1>3. conf = Confirmed(c)
  BY DEF Confirmed
<1> HIDE DEF x
<1>4. Carried(B, k, P, conf)
  BY <1>2, WithLastCarries
<1> HIDE DEF conf
<1>5. CASE Last(c.segs).end = n
  <2>1. CASE editor.auto_commit
    BY <1>3, <1>5, <2>1, <1>1, CommitSends DEF Carried, OnClosed, IsComposing
  <2>2. CASE ~editor.auto_commit
    BY <1>3, <1>5, <2>2, <1>1, <1>4, ForwardedCarries DEF OnClosed
  <2> QED BY <2>1, <2>2
<1>6. CASE Last(c.segs).end # n
  <2> DEFINE d == Forwarded(c)
  <2>1. Standing(d) /\ d.input = c.input /\ d.caret = c.caret /\ d.sent = c.sent
    BY ForwardedStands
  <2>2. Carried(B, k, P, d)
    BY ForwardedCarries
  <2>3. n \in 0..Len(d.input) /\ c.caret <= n /\ c.caret \in Nat /\ n \in Nat
    BY <2>1, TextIsSeq DEF Standing, Good
  <2>4. OnClosed(c) = SetCaret(d, n) \/ OnClosed(c) = Compose(d)
    BY <1>6 DEF OnClosed
  <2> HIDE DEF d, n
  <2>5. CASE d.sent # <<>>
    BY <2>1, <2>3, <2>5, SetCaretRests, ComposeRests, <2>4 DEF Carried, Standing
  <2>6. CASE d.sent = <<>>
    <3>1. k <= n
      BY <2>1, <2>2, <2>3, <2>6 DEF Carried
    <3> QED BY <2>1, <2>2, <2>3, <3>1, SetCaretCarries, ComposeCarries, <2>4
  <2> QED BY <2>5, <2>6
<1> QED BY <1>5, <1>6

LEMMA OnSelectCarries ==
    ASSUME NEW B, NEW k \in Nat, NEW P, NEW c, Standing(c), c.segs # <<>>, Last(c.segs).status >= kSelected,
           Carried(B, k, P, c)
    PROVE  Carried(B, k, P, OnSelect(c))
<1> DEFINE x == Close(Last(c.segs))
           d == WithLast(c, x)
<1>1. x \in Segment /\ Standing(d) /\ d.segs # <<>>
  BY ClosedStands
<1>2. OnSelect(c) = OnClosed(d)
  BY DEF OnSelect
<1> HIDE DEF x
<1>3. Carried(B, k, P, d)
  BY <1>1, WithLastCarries
<1> HIDE DEF d
<1> QED BY <1>1, <1>2, <1>3, OnClosedCarries

LEMMA ConfirmCarries ==
    ASSUME NEW B, NEW k \in Nat, NEW P, NEW c, Standing(c), Carried(B, k, P, c)
    PROVE  Carried(B, k, P, ConfirmCurrentSelection(c))
<1> DEFINE m == Marked(c)
<1>1. /\ Standing(m)
      /\ c.segs # <<>> => m.segs # <<>> /\ Last(m.segs).status = kSelected
      /\ c.segs = <<>> => m = c
  BY MarkedStands
<1>2. Carried(B, k, P, m)
  <2>1. CASE c.segs = <<>>
    BY <1>1, <2>1
  <2>2. CASE c.segs # <<>>
    <3> DEFINE x == [Last(c.segs) EXCEPT !.status = kSelected]
               d == WithLast(c, x)
    <3>1. Standing(d) /\ d.segs # <<>> /\ Last(d.segs) = x
      BY <2>2, LastMarked
    <3>2. m = d
      BY <2>2 DEF Marked
    <3>3. x \in Segment
      <4> HIDE DEF x, d
      <4> QED BY <3>1, LastSegment
    <3> HIDE DEF x, m
    <3> QED BY <3>2, <2>2, <3>3, WithLastCarries
  <2> QED BY <2>1, <2>2
<1>3. CASE CanConfirm(c)
  <2>1. ConfirmCurrentSelection(c) = OnSelect(m) /\ c.segs # <<>>
    BY <1>3 DEF ConfirmCurrentSelection, CanConfirm
  <2> HIDE DEF m
  <2> QED BY <2>1, <1>1, <1>2, OnSelectCarries
<1>4. CASE ~CanConfirm(c)
  BY <1>4, <1>2 DEF ConfirmCurrentSelection
<1> QED BY <1>3, <1>4

LEMMA SelectCarries ==
    ASSUME NEW B, NEW k \in Nat, NEW P, NEW c, Resting(c), Carried(B, k, P, c), NEW i \in Nat, CanSelect(c, i)
    PROVE  Carried(B, k, P, Select(c, i))
<1> DEFINE x == [Last(c.segs) EXCEPT !.index = i, !.status = kSelected]
           d == WithLast(c, x)
<1>1. x \in Segment /\ x.status = kSelected /\ Standing(d) /\ d.segs # <<>> /\ Last(d.segs) = x
  BY SelectedStands
<1>2. Select(c, i) = OnSelect(d) /\ c.segs # <<>> /\ Standing(c)
  BY DEF Select, CanSelect, Resting
<1> HIDE DEF x
<1>3. Carried(B, k, P, d)
  BY <1>1, <1>2, WithLastCarries
<1> HIDE DEF d
<1> QED BY <1>1, <1>2, <1>3, OnSelectCarries

LEMMA CommitCarries ==
    ASSUME NEW B, NEW k, NEW P, NEW c, Standing(c), Carried(B, k, P, c)
    PROVE  Carried(B, k, P, Commit(c))
<1>1. CASE IsComposing(c)
  BY <1>1, CommitSends DEF Carried
<1>2. CASE ~IsComposing(c)
  BY <1>2 DEF Commit
<1> QED BY <1>1, <1>2

(* Nothing is carried from a text that no input begins with, so that what  *)
(* carries it has been sent.                                               *)
LEMMA ConfirmSends ==
    ASSUME NEW c, Standing(c), c.sent # <<>>
    PROVE  ConfirmCurrentSelection(c).sent # <<>>
<1> DEFINE P == <<0>>
           B == <<>>
           k == 0
           d == ConfirmCurrentSelection(c)
<1> HIDE DEF k, P
<1>1. SubSeq(d.input, 1, k) = <<>> /\ P # <<>>
  BY NoPart DEF k, P
<1> HIDE DEF d
<1> QED BY ConfirmCarries, <1>1 DEF Carried, d

(* The segments not chosen, cleared, are all at the end.                   *)
LEMMA ClearNonConfirmedCarries ==
    ASSUME NEW B, NEW k, NEW P, NEW c, Standing(c), Carried(B, k, P, c)
    PROVE  Carried(B, k, P, ClearNonConfirmed(c))
<1> DEFINE n == LastChosen(c)
           segs == c.segs
           r == SubSeq(segs, 1, n)
           d == WithSegs(c, r)
<1>1. CASE AllConfirmed(c)
  BY <1>1 DEF ClearNonConfirmed
<1>2. CASE ~AllConfirmed(c)
  <2>1. /\ IsContext(c) /\ segs \in Seq(Segment) /\ n \in 0..Len(segs) /\ Len(segs) \in Nat
        /\ DOMAIN segs = 1..Len(segs)
        /\ \A i \in DOMAIN segs : segs[i].status >= kSelected => i <= n
        /\ \A i \in DOMAIN segs : IsEmpty(segs[i]) => i = Len(segs)
    BY LastChosenOf, Ends DEF Standing, Good, Whole, Chained
  <2>2. ClearNonConfirmed(c) = Forwarded(d)
    BY <1>2 DEF ClearNonConfirmed, WithSegs
  <2>3. Standing(d) /\ d.segs = r /\ d.input = c.input /\ d.caret = c.caret /\ d.sent = c.sent
    <3> HIDE DEF n
    <3> QED BY <2>1, PrefixStands
  <2>4. n # Len(segs)
    BY <1>2 DEF AllConfirmed
  <2> HIDE DEF n, d, segs
  <2> DEFINE e == Forward(r)
  <2>5. Len(r) = n /\ \A i \in 1..n : r[i] = segs[i]
    BY <2>1, Prefix
  <2>6. Whole(r, d.active, {}) /\ d.active \in Texts /\ r \in Seq(Segment)
    BY <2>3 DEF Standing, Good, Whole
  <2>7. /\ \A i \in 1..Len(r) : e[i] = r[i]
        /\ r # <<>> /\ ~IsEmpty(Last(r)) => Len(e) = Len(r) + 1
    <3> DEFINE text == d.active
               X == {}
    <3> HIDE DEF r, text, X
    <3> QED BY <2>6, ForwardWhole, ForwardAdds
  <2>8. n # 0 => r # <<>> /\ Last(r) = segs[n] /\ ~IsEmpty(segs[n])
    <3> SUFFICES ASSUME n # 0 PROVE r # <<>> /\ Last(r) = segs[n] /\ ~IsEmpty(segs[n])
      OBVIOUS
    <3>1. r # <<>> /\ Last(r) = r[n]
      <4> HIDE DEF r
      <4> QED BY <2>5, <2>6, Ends
    <3> QED BY <2>1, <3>1, <2>4, <2>5
  <2> HIDE DEF r, e
  <2>9. Held(segs, e, k)
    <3> SUFFICES ASSUME NEW i \in 1..Len(segs) - 1, Lasting(segs[i])
                 PROVE  i \in 1..Len(e) - 1 /\ e[i] = segs[i]
      BY DEF Held
    <3>1. n # 0 /\ i \in 1..n
      BY <2>1 DEF Lasting
    <3> QED BY <2>1, <3>1, <2>5, <2>7, <2>8
  <2> DEFINE f == Forwarded(d)
  <2>10. f.input = d.input /\ f.caret = d.caret /\ f.sent = d.sent
    BY <2>3, ForwardedStands
  <2>11. f.segs = e
    <3>1. IsContext(d)
      BY <2>3 DEF Standing, Good
    <3>2. f = WithSegs(d, Forward(d.segs))
      BY DEF Forwarded, WithSegs
    <3> HIDE DEF f
    <3> QED BY <3>1, <3>2, WithSegsIs, <2>3 DEF e
  <2> HIDE DEF f
  <2>12. Carried(B, k, P, f)
    BY <2>3, <2>10, <2>9, <2>11, HolderCarries DEF segs
  <2> QED BY <2>2, <2>12 DEF f
<1> QED BY <1>1, <1>2

LEMMA RefreshCarries ==
    ASSUME NEW B, NEW k \in Nat, NEW P, NEW c, Standing(c), Carried(B, k, P, c)
    PROVE  Carried(B, k, P, Refresh(c))
<1> DEFINE d == ClearNonConfirmed(c)
<1>1. Standing(d) /\ Carried(B, k, P, d)
  BY ClearNonConfirmedStands, ClearNonConfirmedCarries
<1> HIDE DEF d
<1> QED BY <1>1, ComposeCarries DEF Refresh, d

LEMMA BeginEditingCarries ==
    ASSUME NEW B, NEW k, NEW P, NEW c, Resting(c), Carried(B, k, P, c)
    PROVE  Carried(B, k, P, BeginEditing(c))
<1> DEFINE d == BeginEditing(c)
<1>1. d.input = c.input /\ d.caret = c.caret /\ d.sent = c.sent
  BY BeginEditingIs
<1>2. Held(c.segs, d.segs, k)
  BY BeginEditingHolds DEF Resting
<1> HIDE DEF d
<1>3. Carried(B, k, P, d)
  BY <1>1, <1>2, HolderCarries
<1> QED BY <1>3 DEF d

(* The search for an earlier match stands past k, in a text that begins    *)
(* with P.                                                                 *)
Within(s, k, P) == k <= s.start /\ k <= Len(s.input) /\ SubSeq(s.input, 1, k) = P
Searching(s, B, k, P) ==
    /\ SearchOK(s) /\ Carried(B, k, P, s.c)
    /\ s.c.sent # <<>> \/ Within(s, k, P)

LEMMA DoneIs ==
    ASSUME NEW s, SearchOK(s), NEW c
    PROVE  LET d == Done(s, c)
           IN  d.c = c /\ d.input = s.input /\ d.start = s.start
BY DEF Done, SearchOK

LEMMA AgainIs ==
    ASSUME NEW s, SearchOK(s), NEW c, NEW start
    PROVE  LET d == Again(s, c, start)
           IN  /\ d.c = c
               /\ \/ d.input = c.input /\ d.start = start
                  \/ d.input = s.input /\ d.start = s.start
BY DoneIs DEF Again, Search

LEMMA TriedSends ==
    ASSUME NEW s, SearchOK(s), NEW c, Resting(c), c.sent # <<>>, s.end \in Nat
    PROVE  Tried(s, c).c.sent # <<>>
<1>1. Good(c, {}) /\ Standing(c) /\ s.input \in Texts
  BY DEF Resting, Standing, SearchOK
<1> DEFINE d1 == SetInput(c, s.input)
           m == Commit(c)
           t == After(s.input, s.end)
           d2 == SetInput(m, t)
           f == ConfirmCurrentSelection(c)
           d3 == SetInput(f, s.input)
           e == [s EXCEPT !.c = c, !.end = @ - 1]
<1>2. d1.sent # <<>>
  BY <1>1, SetInputRests
<1>3. d2.sent # <<>>
  <2>1. Resting(m) /\ m.sent # <<>> /\ t \in Texts
    BY <1>1, CommitRests, CommitSends, AfterIsText
  <2> HIDE DEF m, t
  <2> QED BY <2>1, SetInputRests DEF Resting, Standing
<1>4. d3.sent # <<>>
  <2>1. Resting(f) /\ f.sent # <<>>
    BY <1>1, ConfirmSelectionRests, ConfirmSends
  <2> HIDE DEF f
  <2> QED BY <1>1, <2>1, SetInputRests DEF Resting, Standing
<1>5. e.c = c
  BY DEF SearchOK
<1>6. Tried(s, c) \in {Done(s, d1), e, Again(s, d2, 0), Again(s, d3, s.end)}
  BY DEF Tried
<1> HIDE DEF d1, d2, d3, e
<1> QED BY <1>2, <1>3, <1>4, <1>5, <1>6, DoneIs, AgainIs

LEMMA TriedCarries ==
    ASSUME NEW B, NEW k \in Nat, NEW P, NEW s, SearchOK(s), NEW c, Resting(c), s.end \in Nat, s.start < s.end,
           Carried(B, k, P, c), Within(s, k, P)
    PROVE  LET d == Tried(s, c)
           IN  Carried(B, k, P, d.c) /\ (d.c.sent # <<>> \/ Within(d, k, P))
<1>1. Good(c, {}) /\ Standing(c) /\ s.input \in Texts /\ s.start \in Nat
  BY DEF Resting, Standing, SearchOK
<1>2. k <= s.start /\ k <= Len(s.input) /\ SubSeq(s.input, 1, k) = P /\ k <= s.end
  BY <1>1 DEF Within
<1>3. CASE ~HasMenu(c)
  <2> DEFINE d1 == SetInput(c, s.input)
  <2>1. Carried(B, k, P, d1)
    BY <1>1, <1>2, SetInputCarries
  <2>2. Tried(s, c) = Done(s, d1)
    BY <1>3 DEF Tried
  <2> HIDE DEF d1
  <2> QED BY <2>1, <2>2, DoneIs, <1>2 DEF Within
<1>4. CASE HasMenu(c) /\ ~Selectable(Last(c.segs), s.end)
  <2> DEFINE e == [s EXCEPT !.c = c, !.end = @ - 1]
  <2>1. Tried(s, c) = e
    BY <1>4 DEF Tried
  <2>2. e.c = c /\ e.input = s.input /\ e.start = s.start
    BY DEF SearchOK
  <2> HIDE DEF e
  <2> QED BY <2>1, <2>2, <1>2 DEF Within
<1>5. CASE HasMenu(c) /\ Selectable(Last(c.segs), s.end) /\ editor.auto_commit
  <2> DEFINE m == Commit(c)
             t == After(s.input, s.end)
             d2 == SetInput(m, t)
  <2>1. Resting(m) /\ m.sent # <<>> /\ t \in Texts
    BY <1>1, <1>5, CommitRests, CommitSends, AfterIsText DEF HasMenu, IsComposing
  <2>2. Tried(s, c) = Again(s, d2, 0)
    BY <1>5 DEF Tried
  <2> HIDE DEF m, t
  <2>3. d2.sent # <<>>
    BY <2>1, SetInputRests DEF Resting, Standing
  <2> HIDE DEF d2
  <2> QED BY <2>2, <2>3, AgainIs DEF Carried
<1>6. CASE HasMenu(c) /\ Selectable(Last(c.segs), s.end) /\ ~editor.auto_commit
  <2> DEFINE f == ConfirmCurrentSelection(c)
             d3 == SetInput(f, s.input)
             r == Again(s, d3, s.end)
  <2>1. Resting(f) /\ Carried(B, k, P, f)
    BY <1>1, ConfirmSelectionRests, ConfirmCarries
  <2>2. Tried(s, c) = r
    BY <1>6 DEF Tried
  <2> HIDE DEF f
  <2>3. Carried(B, k, P, d3) /\ d3.input = s.input
    BY <1>1, <1>2, <2>1, SetInputCarries, SetInputRests DEF Resting, Standing
  <2> HIDE DEF d3
  <2>4. /\ r.c = d3
        /\ \/ r.input = d3.input /\ r.start = s.end
           \/ r.input = s.input /\ r.start = s.start
    BY AgainIs
  <2> HIDE DEF r
  <2> QED BY <2>2, <2>3, <2>4, <1>2 DEF Within
<1> QED BY <1>3, <1>4, <1>5, <1>6

LEMMA TryMatchCarries ==
    ASSUME NEW B, NEW k \in Nat, NEW P, NEW s, Searching(s, B, k, P)
    PROVE  Searching(TryMatch(s), B, k, P)
<1>1. /\ SearchOK(s) /\ Resting(s.c) /\ Good(s.c, {}) /\ Standing(s.c)
      /\ s.input \in Texts /\ Len(s.input) \in Nat
      /\ s.start \in Nat /\ s.end \in Int /\ s.end <= Len(s.input)
      /\ Carried(B, k, P, s.c) /\ (s.c.sent # <<>> \/ Within(s, k, P))
  BY TextIsSeq DEF Searching, SearchOK, Resting, Standing
<1> DEFINE r == TryMatch(s)
<1>2. Carried(B, k, P, r.c) /\ (r.c.sent # <<>> \/ Within(r, k, P))
  <2>1. CASE s.done
    BY <1>1, <2>1 DEF TryMatch
  <2>2. CASE ~s.done /\ s.end <= s.start
    <3> DEFINE c == s.c
               d == SetInput(c, s.input)
    <3>1. r = Done(s, d)
      BY <2>2 DEF TryMatch
    <3> HIDE DEF r
    <3>2. Good(c, {}) /\ Standing(c) /\ Carried(B, k, P, c)
      BY <1>1
    <3>3. c.sent # <<>> \/ Within(s, k, P)
      BY <1>1
    <3> HIDE DEF c
    <3>4. d.sent = c.sent
      BY <1>1, <3>2, SetInputRests
    <3>5. Within(s, k, P) => Carried(B, k, P, d)
      BY <1>1, <3>2, SetInputCarries DEF Within
    <3> HIDE DEF d
    <3>6. r.c = d /\ r.input = s.input /\ r.start = s.start
      BY <1>1, <3>1, DoneIs
    <3>7. Within(s, k, P) => Within(r, k, P)
      BY <3>6 DEF Within
    <3> QED BY <3>3, <3>4, <3>5, <3>6, <3>7 DEF Carried
  <2>3. CASE ~s.done /\ ~(s.end <= s.start)
    <3> DEFINE t == SubSeq(s.input, 1, s.end)
               c == s.c
               d == SetInput(c, t)
    <3>1. s.end \in Nat /\ 1 \in Nat \ {0} /\ s.start < s.end
      BY <1>1, <2>3
    <3>2. t \in Texts /\ Good(c, {}) /\ Standing(c) /\ Carried(B, k, P, c)
      BY <1>1, <3>1, PartIsText
    <3>3. r = Tried(s, d)
      BY <2>3 DEF TryMatch
    <3>4. c.sent # <<>> \/ Within(s, k, P)
      BY <1>1
    <3>5. Within(s, k, P) => k <= Len(t) /\ SubSeq(t, 1, k) = P
      <4> SUFFICES ASSUME Within(s, k, P) PROVE k <= Len(t) /\ SubSeq(t, 1, k) = P
        OBVIOUS
      <4> DEFINE text == s.input
                 n == s.end
      <4>1. k <= s.start /\ SubSeq(text, 1, k) = P /\ k \in Int
        BY DEF Within
      <4>2. text \in Seq(Keys) /\ n \in 0..Len(text) /\ k <= n
        BY <1>1, <3>1, <4>1, TextIsSeq
      <4>3. t = SubSeq(text, 1, n)
        OBVIOUS
      <4> HIDE DEF t, text, n
      <4> QED BY <4>1, <4>2, <4>3, Prefix, <3>1, PartOfPrefix
    <3> HIDE DEF t, c, r
    <3>6. Resting(d) /\ d.sent = c.sent
      BY <3>2, SetInputRests
    <3>7. Within(s, k, P) => Carried(B, k, P, d)
      BY <3>2, <3>5, SetInputCarries
    <3> HIDE DEF d
    <3>8. CASE c.sent # <<>>
      BY <3>3, <1>1, <3>1, <3>6, <3>8, TriedSends DEF Carried
    <3>9. CASE Within(s, k, P)
      BY <3>3, <1>1, <3>1, <3>6, <3>7, <3>9, TriedCarries
    <3> QED BY <3>4, <3>8, <3>9
  <2> QED BY <2>1, <2>2, <2>3
<1> QED BY <1>1, TryMatchOK, <1>2 DEF Searching

LEMMA FindEarlierMatchCarries ==
    ASSUME NEW B, NEW k \in Nat, NEW P, NEW c, Resting(c), NEW start \in Nat, NEW end \in Nat,
           end <= Len(c.input) + 1, k <= start, k <= Len(c.input), SubSeq(c.input, 1, k) = P,
           Carried(B, k, P, c)
    PROVE  Carried(B, k, P, FindEarlierMatch(c, start, end))
<1> DEFINE f == Searches(c, start, end)
           Broken == {n \in Nat : ~Searching(f[n], B, k, P)}
<1>1. f = [n \in Nat |-> IF n = 0 THEN Search(c, start, end) ELSE TryMatch(f[n - 1])]
  BY SearchesUnfold
<1> HIDE DEF f
<1>2. Broken = {}
  <2> SUFFICES ASSUME Broken # {} PROVE FALSE
    OBVIOUS
  <2>1. PICK n \in Broken : \A m \in Broken : n <= m
    <3>1. Broken \subseteq Nat
      OBVIOUS
    <3> HIDE DEF Broken
    <3> QED BY <3>1, LeastOf
  <2>2. n # 0
    <3> DEFINE s == Search(c, start, end)
    <3>1. SearchOK(s)
      BY SearchBegins
    <3>2. s.c = c /\ s.input = c.input /\ s.start = start
      BY DEF Search
    <3> HIDE DEF s
    <3>3. f[0] = s
      BY <1>1 DEF s
    <3> QED BY <3>1, <3>2, <3>3 DEF Searching, Within
  <2>3. n - 1 \in Nat /\ n - 1 \notin Broken /\ n \in Nat
    BY <2>1, <2>2
  <2> QED BY <2>3, TryMatchCarries, <1>1, <2>2
<1>3. MaxTries \in Nat
  BY EngineAssumption DEF MaxTries
<1> QED BY <1>2, <1>3 DEF Searching, FindEarlierMatch, f

LEMMA ReuseMatchCarries ==
    ASSUME NEW B, NEW k \in Nat, NEW P, NEW c, Resting(c), Carried(B, k, P, c), c.segs # <<>>,
           NEW seg \in Segment, Standing(WithLast(c, seg)), WithLast(c, seg).segs # <<>>,
           Last(WithLast(c, seg).segs) = seg, HasCandidate(seg), seg.end <= Len(c.input), 0 < seg.end
    PROVE  Carried(B, k, P, ReuseMatch(c, seg))
<1> DEFINE d == WithLast(c, seg)
           e == ConfirmCurrentSelection(d)
           t == SubSeq(c.input, 1, seg.end)
           u == After(c.input, seg.end)
           g == SetInput(e, t)
           h == Commit(g)
<1>1. Carried(B, k, P, e) /\ Resting(e)
  <2>1. CanConfirm(d)
    BY DEF CanConfirm
  <2> HIDE DEF d
  <2> QED BY WithLastCarries, <2>1, ConfirmCarries, ConfirmLastRests DEF d, Resting
<1>2. t \in Texts /\ u \in Texts /\ Len(t) = seg.end
  <2> DEFINE n == seg.end
  <2>1. c.input \in Texts /\ n \in Nat /\ 1 \in Nat \ {0} /\ n \in Int
    BY DEF Resting, Standing, Good, Segment
  <2>2. c.input \in Seq(Keys) /\ n \in 0..Len(c.input)
    BY <2>1, TextIsSeq
  <2> HIDE DEF n
  <2>3. SubSeq(c.input, 1, n) \in Texts /\ After(c.input, n) \in Texts
    <3> DEFINE s == c.input
    <3>1. s \in Texts /\ n <= Len(s)
      BY <2>1, <2>2
    <3> HIDE DEF s
    <3> QED BY <2>1, <3>1, PartIsText, AfterIsText DEF s
  <2> QED BY <2>2, Prefix, <2>3 DEF n
<1>3. ReuseMatch(c, seg) = IF editor.auto_commit THEN SetInput(h, u) ELSE e
  BY DEF ReuseMatch
<1> HIDE DEF e, t, u
<1>4. Resting(g) /\ g.input = t
  BY <1>1, <1>2, SetInputRests DEF Resting, Standing
<1>5. IsComposing(g)
  BY <1>4, <1>2 DEF IsComposing
<1> HIDE DEF g
<1>6. Resting(h) /\ h.sent # <<>>
  BY <1>4, <1>5, CommitRests, CommitSends DEF Resting
<1> HIDE DEF h
<1> QED BY <1>1, <1>3, <1>2, <1>6, SetInputRests DEF Carried, Resting, Standing

LEMMA MatchedCarries ==
    ASSUME NEW c, Resting(c), NEW d, Pushes(d, c), d.sent = <<>>, editor.auto_select, ~MisplacedIn(d, c),
           NEW B, NEW k \in Nat, k <= c.caret, k <= CurrentStart(c.segs), NEW P, Carried(B, k, P, d)
    PROVE  Carried(B, k, P, Matched(d, c))
<1>1. Resting(d)
  BY DEF Pushes
<1>2. CASE HasMenu(d) \/ ~HasMenu(c)
  BY <1>1, <1>2 DEF Matched
<1>3. CASE ~HasMenu(d) /\ HasMenu(c)
  <2> DEFINE seg == Last(c.segs)
  <2>1. Matched(d, c) = AutoSelectPreviousMatch(d, seg)
    BY <1>3 DEF Matched
  <2>2. c.segs # <<>> /\ CurrentStart(c.segs) = seg.start
    BY <1>3 DEF HasMenu, CurrentStart
  <2>3. /\ seg \in Segment /\ seg.start <= seg.end /\ seg.start \in Nat /\ seg.end \in Nat
        /\ IsEmpty(seg) => Count(seg) = 0
        /\ c.caret \in Nat /\ c.caret <= Len(c.input) /\ Len(c.input) \in Nat /\ Len(d.input) = Len(c.input) + 1
        /\ c.caret <= Len(c.active) /\ seg.end <= Len(c.active) /\ Len(c.active) <= Len(c.input)
    <3>1. /\ seg \in Segment /\ seg.start <= seg.end
          /\ seg.end <= Len(c.active) /\ (IsEmpty(seg) => Count(seg) = 0)
      BY <2>2, LastSegment DEF Resting
    <3>2. /\ c.input \in Seq(Keys) /\ Len(c.input) \in Nat /\ c.caret \in 0..Len(c.input)
          /\ c.active \in {c.input, SubSeq(c.input, 1, c.caret)} /\ Len(d.input) = Len(c.input) + 1
      BY TextIsSeq DEF Resting, Standing, Good, Follows, Pushes
    <3>3. c.caret <= Len(c.active)
      BY CaretInActive DEF Resting, Standing, Good
    <3>4. Len(c.active) <= Len(c.input)
      BY <3>2, Prefix
    <3> HIDE DEF seg
    <3> QED BY <3>1, <3>2, <3>3, <3>4 DEF Segment
  <2>4. k <= seg.start
    BY <2>2
  <2>5. CASE Selectable(seg, seg.end)
    <3>1. ~(seg.end > c.caret) /\ CurrentStart(d.segs) = seg.start
      BY <1>3, <2>2, <2>5 DEF MisplacedIn
    <3>2. /\ seg \in Segment /\ Standing(WithLast(d, seg)) /\ WithLast(d, seg).segs # <<>>
          /\ Last(WithLast(d, seg).segs) = seg
          /\ seg.end <= Len(d.input)
      BY <2>2, <3>1, <2>3, PreviousFits
    <3>3. d.segs # <<>>
      BY <1>1, <2>3 DEF CurrentEnd, Resting, Pushes
    <3> HIDE DEF seg
    <3>4. 0 < seg.end /\ HasCandidate(seg)
      BY <2>5, <2>3 DEF IsEmpty, HasCandidate, Segment, Selectable
    <3> QED BY <2>1, <2>5, <1>1, <3>2, <3>3, <3>4, ReuseMatchCarries DEF AutoSelectPreviousMatch
  <2>6. CASE ~Selectable(seg, seg.end)
    <3> HIDE DEF seg
    <3> DEFINE b == seg.start
               e == seg.end
    <3>1. b \in Nat /\ e \in Nat /\ e <= Len(d.input) + 1 /\ k <= b /\ k <= Len(d.input)
      BY <2>3, <2>4, SMTT(30)
    <3>2. SubSeq(d.input, 1, k) = P
      BY DEF Carried
    <3> HIDE DEF b, e
    <3> QED BY <2>1, <2>6, <1>1, <3>1, <3>2, FindEarlierMatchCarries DEF AutoSelectPreviousMatch, b,
      e
  <2> QED BY <2>5, <2>6
<1> QED BY <1>2, <1>3

LEMMA PushKeyCarries ==
    ASSUME NEW c, Resting(c), NEW ch \in Keys, Len(c.input) < MaxInput, NEW k \in Nat, k <= c.caret
    PROVE  Carried(c.segs, k, SubSeq(c.input, 1, k), BeginEditing(PushInput(c, ch)))
<1> DEFINE d == PushInput(c, ch)
           n == c.caret
           P == SubSeq(c.input, 1, k)
<1>1. Good(c, {}) /\ Standing(c) /\ n \in 0..Len(c.input) /\ n \in Nat
      /\ c.segs \in Seq(Segment) /\ c.input \in Seq(Keys)
  BY TextIsSeq DEF Resting, Standing, Good, Whole
<1>2. /\ Resting(d) /\ d.sent = c.sent /\ d.caret = n + 1
      /\ Len(d.input) = Len(c.input) + 1 /\ SubSeq(d.input, 1, n) = SubSeq(c.input, 1, n)
  BY <1>1, PushRests
<1>3. Held(c.segs, d.segs, n)
  BY <1>1, PushHolds
<1> HIDE DEF d
<1>4. Held(c.segs, d.segs, k)
  BY <1>1, <1>3, HeldLess
<1>5. SubSeq(d.input, 1, k) = P
  <2>1. d.input \in Seq(Keys) /\ n \in 0..Len(d.input) /\ k \in Int /\ 1 \in Nat \ {0}
    BY <1>2, <1>1, TextIsSeq DEF Resting, Standing, Good
  <2>2. SubSeq(SubSeq(d.input, 1, n), 1, k) = SubSeq(d.input, 1, k)
    <3> DEFINE s == d.input
    <3> HIDE DEF s, n
    <3> QED BY <2>1, PartOfPrefix DEF s, n
  <2> QED BY <1>2, <2>2, <1>1, <2>1, PartOfPrefix
<1> HIDE DEF P
<1>6. Carried(c.segs, k, P, d)
  BY <1>4, <1>5, <1>1, <1>2 DEF Carried
<1> QED BY <1>2, <1>6, BeginEditingCarries DEF d, P

LEMMA SpellCarries ==
    ASSUME NEW c, Resting(c), c.sent = <<>>, NEW ch \in Keys, Len(c.input) < MaxInput,
           ~MisplacedIn(BeginEditing(PushInput(c, ch)), c),
           NEW k \in Nat, k <= c.caret, k <= CurrentStart(c.segs)
    PROVE  Carried(c.segs, k, SubSeq(c.input, 1, k), Spell(c, ch))
<1> DEFINE q == PushInput(c, ch)
           d == BeginEditing(q)
           B == c.segs
           P == SubSeq(c.input, 1, k)
           m == Matched(d, c)
<1>1. Pushes(d, c) /\ Carried(B, k, P, d)
  BY PushedIs, PushKeyCarries
<1>2. d.sent = <<>>
  <2>1. Resting(q) /\ q.sent = c.sent
    BY PushRests DEF Resting, Standing
  <2> HIDE DEF q
  <2> QED BY <2>1, BeginEditingIs
<1>3. Spell(c, ch) = Pushed(d, c) /\ ~MisplacedIn(d, c)
  BY DEF Spell
<1> HIDE DEF d, P, B
<1>4. CASE ~editor.auto_select
  BY <1>1, <1>3, <1>4 DEF Pushed, P, B
<1>5. CASE editor.auto_select
  <2>1. Resting(m) /\ Carried(B, k, P, m)
    BY <1>1, <1>2, <1>3, <1>5, MatchedRests, MatchedCarries
  <2>2. Spell(c, ch) = AutoSelectUnique(m)
    BY <1>3, <1>5 DEF Pushed
  <2> HIDE DEF m
  <2> QED BY <2>1, <2>2, ConfirmCarries DEF AutoSelectUnique, P, B, Resting
<1> QED BY <1>4, <1>5

------------------------------------------------------------------------------
(* What each handler spares: the choices before the caret, unless all is   *)
(* sent, or nothing was typed nor the caret moved.                         *)

Still(d, c) == Len(d.input) <= Len(c.input) /\ (d.input = c.input => d.caret = c.caret)
Spares(d, c) ==
    \/ d.sent # <<>>
    \/ Still(d, c)
    \/ \A k \in Nat : k <= c.caret /\ k <= d.caret => Held(c.segs, d.segs, k)

(* c carries all its choices. *)
CarriesAll(d, c) == \A k \in Nat : k <= c.caret => Carried(c.segs, k, SubSeq(c.input, 1, k), d)

LEMMA CarriesSpares ==
    ASSUME NEW c, NEW d, CarriesAll(d, c)
    PROVE  Spares(d, c)
<1>1. CASE d.sent # <<>>
  BY <1>1 DEF Spares
<1>2. CASE d.sent = <<>>
  <2> SUFFICES ASSUME NEW k \in Nat, k <= c.caret, k <= d.caret
               PROVE  Held(c.segs, d.segs, k)
    BY DEF Spares
  <2> QED BY <1>2 DEF Carried, CarriesAll
<1> QED BY <1>1, <1>2

LEMMA CarriesItself ==
    ASSUME NEW c
    PROVE  CarriesAll(c, c)
BY DEF CarriesAll, Carried, Held

LEMMA ConfirmCarriesAll ==
    ASSUME NEW c, NEW d, Standing(d), CarriesAll(d, c)
    PROVE  CarriesAll(ConfirmCurrentSelection(d), c)
<1> SUFFICES ASSUME NEW k \in Nat, k <= c.caret
             PROVE  Carried(c.segs, k, SubSeq(c.input, 1, k), ConfirmCurrentSelection(d))
  BY DEF CarriesAll
<1> QED BY ConfirmCarries DEF CarriesAll

LEMMA CommitCarriesAll ==
    ASSUME NEW c, NEW d, Standing(d), CarriesAll(d, c)
    PROVE  CarriesAll(Commit(d), c)
<1> SUFFICES ASSUME NEW k \in Nat, k <= c.caret
             PROVE  Carried(c.segs, k, SubSeq(c.input, 1, k), Commit(d))
  BY DEF CarriesAll
<1> QED BY CommitCarries DEF CarriesAll

LEMMA ConfirmSpares ==
    ASSUME NEW c, Resting(c), IsComposing(c)
    PROVE  Spares(Confirm(c), c)
<1>1. CASE CanConfirm(c)
  BY <1>1, CarriesItself, ConfirmCarriesAll, CarriesSpares DEF Confirm, Resting
<1>2. CASE ~CanConfirm(c)
  <2> DEFINE m == Marked(c)
  <2>1. Standing(m) /\ (c.segs # <<>> => m.segs # <<>>) /\ (c.segs = <<>> => m = c)
    BY MarkedStands DEF Resting
  <2>2. Confirm(c) = Commit(m)
    BY <1>2 DEF Confirm
  <2> HIDE DEF m
  <2>3. Commit(m).sent # <<>>
    BY <2>1, CommitSends DEF IsComposing
  <2> QED BY <2>2, <2>3 DEF Spares
<1> QED BY <1>1, <1>2

LEMMA CommitCompositionSpares ==
    ASSUME NEW c, Resting(c)
    PROVE  Spares(CommitComposition(c), c)
<1> DEFINE d == ConfirmCurrentSelection(c)
<1>1. Standing(d) /\ CarriesAll(d, c)
  BY ConfirmSelectionRests, CarriesItself, ConfirmCarriesAll DEF Resting
<1>2. CommitComposition(c) \in {d, Commit(d)}
  BY DEF CommitComposition, CommitUnlessOpen
<1> HIDE DEF d
<1> QED BY <1>1, <1>2, CommitCarriesAll, CarriesSpares

LEMMA CommitRawSpares ==
    ASSUME NEW c, Resting(c)
    PROVE  Spares(CommitRawInput(c), c)
<1> DEFINE d == ClearNonConfirmed(c)
<1>1. CarriesAll(d, c)
  <2> SUFFICES ASSUME NEW k \in Nat, k <= c.caret
               PROVE  Carried(c.segs, k, SubSeq(c.input, 1, k), d)
    BY DEF CarriesAll
  <2> QED BY CarriesItself, ClearNonConfirmedCarries DEF Resting, CarriesAll
<1> HIDE DEF d
<1> QED BY ClearNonConfirmedStands, <1>1, CommitCarriesAll, CarriesSpares DEF CommitRawInput, d,
  Resting

LEMMA SwitchSpares ==
    ASSUME NEW c, Resting(c)
    PROVE  Spares(Refresh(ConfirmCurrentSelection(c)), c)
<1> DEFINE d == ConfirmCurrentSelection(c)
<1>1. Standing(d) /\ CarriesAll(d, c)
  BY ConfirmSelectionRests, CarriesItself, ConfirmCarriesAll DEF Resting
<1> HIDE DEF d
<1>2. CarriesAll(Refresh(d), c)
  <2> SUFFICES ASSUME NEW k \in Nat, k <= c.caret
               PROVE  Carried(c.segs, k, SubSeq(c.input, 1, k), Refresh(d))
    BY DEF CarriesAll
  <2> QED BY <1>1, RefreshCarries DEF CarriesAll
<1> QED BY <1>2, CarriesSpares DEF d

LEMMA SelectSpares ==
    ASSUME NEW c, Resting(c), NEW i \in Nat, CanSelect(c, i)
    PROVE  Spares(Select(c, i), c)
<1>1. CarriesAll(Select(c, i), c)
  <2> SUFFICES ASSUME NEW k \in Nat, k <= c.caret
               PROVE  Carried(c.segs, k, SubSeq(c.input, 1, k), Select(c, i))
    BY DEF CarriesAll
  <2> QED BY CarriesItself, SelectCarries DEF CarriesAll
<1> QED BY <1>1, CarriesSpares

LEMMA PushKeySpares ==
    ASSUME NEW c, Resting(c), NEW ch \in Keys, Len(c.input) < MaxInput
    PROVE  Spares(BeginEditing(PushInput(c, ch)), c)
BY PushKeyCarries, CarriesSpares DEF CarriesAll

(* All the choices of a context at rest end by where its last segment      *)
(* begins.                                                                 *)
LEMMA HeldToStart ==
    ASSUME NEW c, Resting(c), NEW t, NEW k \in Nat, NEW m \in {k, CurrentStart(c.segs)}, Held(c.segs, t, m)
    PROVE  Held(c.segs, t, k)
<1> DEFINE segs == c.segs
           n == Len(segs)
<1>1. segs \in Seq(Segment) /\ n \in Nat /\ DOMAIN segs = 1..n /\ Chained(segs, Len(c.active))
  BY Ends DEF Resting, Standing, Good, Whole
<1>2. CASE m = k
  BY <1>2
<1>3. CASE m = CurrentStart(segs)
  <2> HIDE DEF segs
  <2> SUFFICES ASSUME NEW i \in 1..n - 1, Lasting(segs[i])
               PROVE  i \in 1..Len(t) - 1 /\ Lasting(t[i]) /\ Choice(t[i]) = Choice(segs[i])
    BY DEF Held, segs
  <2>1. i \in DOMAIN segs /\ n \in DOMAIN segs /\ i < n /\ segs # <<>>
    BY <1>1
  <2>2. segs[i].end <= m
    BY <1>1, <1>3, <2>1, Ends DEF Chained, CurrentStart
  <2> QED BY <2>2 DEF Held, segs
<1> QED BY <1>2, <1>3 DEF segs

LEMMA SpellSpares ==
    ASSUME NEW c, Resting(c), c.sent = <<>>, NEW ch \in Keys, Len(c.input) < MaxInput,
           ~MisplacedIn(BeginEditing(PushInput(c, ch)), c)
    PROVE  Spares(Spell(c, ch), c)
<1> DEFINE d == Spell(c, ch)
           b == CurrentStart(c.segs)
<1>1. b \in Nat
  BY LastSegment DEF CurrentStart, Segment, Resting
<1>2. CASE d.sent # <<>>
  BY <1>2 DEF Spares
<1>3. CASE d.sent = <<>>
  <2>1. ASSUME NEW m \in Nat, m <= c.caret, m <= b
        PROVE  Held(c.segs, d.segs, m)
    BY <1>3, <2>1, SpellCarries DEF Carried
  <2> HIDE DEF d, b
  <2> SUFFICES ASSUME NEW k \in Nat, k <= c.caret
               PROVE  Held(c.segs, d.segs, k)
    BY DEF Spares, d
  <2>2. c.caret \in Nat
    BY DEF Resting, Standing, Good
  <2>3. CASE k <= b
    BY <2>1, <2>3
  <2>4. CASE ~(k <= b)
    <3>1. Held(c.segs, d.segs, b)
      BY <1>1, <2>1, <2>2, <2>4
    <3> QED BY <3>1, HeldToStart DEF b
  <2> QED BY <2>3, <2>4
<1> QED BY <1>2, <1>3

LEMMA MoveSpares ==
    ASSUME NEW c, Resting(c), NEW p \in Nat, p <= Len(c.input)
    PROVE  LET e == BeginEditing(c)
           IN  Spares(IF p = e.caret THEN e ELSE SetCaret(e, p), c)
<1> DEFINE e == BeginEditing(c)
           d == IF p = e.caret THEN e ELSE SetCaret(e, p)
<1>1. Resting(e) /\ e.input = c.input /\ e.caret = c.caret
  BY BeginEditingIs
<1>2. \A k : Held(c.segs, e.segs, k)
  BY BeginEditingHolds DEF Resting
<1> HIDE DEF e
<1>3. CASE p = e.caret
  BY <1>3, <1>2 DEF e, Spares
<1>4. CASE p # e.caret
  <2>1. p \in 0..Len(e.input) /\ Standing(e)
    BY <1>1, TextIsSeq DEF Resting, Standing, Good
  <2>2. SetCaret(e, p).caret = p
    BY <2>1, SetCaretRests DEF Standing
  <2> DEFINE f == SetCaret(e, p)
  <2> HIDE DEF f
  <2>3. Spares(f, c)
    BY <1>2, <2>2, <1>1, <2>1, SetCaretHolds, HeldTrans DEF Spares, f
  <2> QED BY <1>4, <2>3 DEF f, e
<1> QED BY <1>3, <1>4

(* The handlers that only shorten the input, or leave it and the caret.    *)
SameText(d, c) == IsContext(d) /\ d.input = c.input /\ d.caret = c.caret

LEMMA ComposeSame ==
    ASSUME NEW c, IsContext(c)
    PROVE  SameText(Compose(c), c)
<1> DEFINE c1 == ResetTo(c, SubSeq(c.input, 1, c.caret))
           c2 == PastCaret(c1)
           c3 == Convert(c2)
<1>1. ASSUME NEW d, NEW text, IsContext(d)
      PROVE  SameText(ResetTo(d, text), d)
  <2> DEFINE segs == Reset(d.segs, d.active, text)
             e == ResetTo(d, text)
  <2>1. e = [d EXCEPT !.segs = segs, !.active = text]
    BY DEF ResetTo
  <2> HIDE DEF segs, e
  <2>2. SameText(e, d)
    BY <1>1, <2>1 DEF SameText, IsContext
  <2> QED BY <2>2 DEF e
<1>2. Compose(c) = c3
  BY DEF Compose
<1>3. SameText(c1, c)
  BY <1>1
<1> HIDE DEF c1
<1>4. SameText(c2, c1)
  BY <1>1, <1>3 DEF SameText, PastCaret
<1> HIDE DEF c2
<1> QED BY <1>2, <1>3, <1>4 DEF SameText, Convert, IsContext

LEMMA ReopenLastSame ==
    ASSUME NEW c, IsContext(c)
    PROVE  SameText(ReopenLast(c), c)
BY DEF ReopenLast, WithLast, SameText, IsContext

LEMMA ReopenSame ==
    ASSUME NEW c, IsContext(c)
    PROVE  SameText(ReopenPreviousSegment(c), c) /\ SameText(ReopenPreviousSelection(c), c)
<1>1. ASSUME NEW segs
      PROVE  SameText(Compose(ReopenLast(WithSegs(c, segs))), c)
  <2> DEFINE d == WithSegs(c, segs)
             e == ReopenLast(d)
  <2>1. IsContext(d) /\ d.input = c.input /\ d.caret = c.caret
    BY WithSegsIs
  <2> HIDE DEF d
  <2>2. SameText(e, d)
    BY <2>1, ReopenLastSame
  <2> HIDE DEF e
  <2> QED BY <2>1, <2>2, ComposeSame DEF d, e, SameText
<1> DEFINE r == Trim(c.segs)
           q == SubSeq(c.segs, 1, LastChosen(c))
<1> HIDE DEF r, q
<1> QED BY <1>1 DEF ReopenPreviousSelection, WithSegs, ReopenPreviousSegment

(* Shorter after some characters before the caret, or the one after it,    *)
(* are taken out.                                                          *)
LEMMA ReplacedLength ==
    ASSUME NEW text \in Texts, NEW n \in Nat, NEW m \in Nat, n <= m, m <= Len(text)
    PROVE  Len(SubSeq(text, 1, n) \o After(text, m)) = Len(text) - (m - n)
<1>1. text \in Seq(Keys) /\ Len(text) \in Nat /\ n \in 0..Len(text)
  BY TextIsSeq
<1>2. SubSeq(text, 1, n) \in Seq(Keys) /\ Len(SubSeq(text, 1, n)) = n
  BY <1>1, Prefix
<1>3. After(text, m) \in Seq(Keys) /\ Len(After(text, m)) = Len(text) - m
  BY AfterIsText, TextIsSeq
<1>4. Len(SubSeq(text, 1, n) \o After(text, m)) = n + Len(After(text, m))
  BY <1>2, <1>3, ConcatProperties
<1> QED BY <1>1, <1>3, <1>4

LEMMA PopStill ==
    ASSUME NEW c, Resting(c), NEW n \in Nat \ {0}, CanPop(c, n)
    PROVE  IsContext(PopInput(c, n)) /\ Len(PopInput(c, n).input) < Len(c.input)
<1> DEFINE k == c.caret - n
           m == c.caret
           text == c.input
           r == SubSeq(text, 1, k) \o After(text, m)
           d == WithInput(c, r, k)
<1>1. IsContext(c) /\ text \in Texts /\ m \in 0..Len(text) /\ Len(text) \in Nat /\ n <= m
  BY TextIsSeq DEF Resting, Standing, Good, CanPop
<1>2. k \in Nat /\ m \in Nat /\ k < m /\ m <= Len(text) /\ m - k = n
  BY <1>1
<1>3. PopInput(c, n) = Compose(d)
  BY DEF PopInput, WithInput
<1> HIDE DEF k, m, text
<1>4. Len(r) < Len(text)
  BY <1>1, <1>2, ReplacedLength
<1> HIDE DEF r
<1>5. IsContext(d) /\ d.input = r
  <2>1. d = [c EXCEPT !.input = r, !.caret = k]
    BY DEF WithInput
  <2> HIDE DEF d
  <2> QED BY <1>1, <2>1 DEF IsContext
<1> HIDE DEF d
<1> QED BY <1>3, <1>4, <1>5, ComposeSame DEF text, SameText

LEMMA DeleteStill ==
    ASSUME NEW c, Resting(c), CanDelete(c)
    PROVE  Len(DeleteInput(c).input) < Len(c.input)
<1> DEFINE k == c.caret
           m == c.caret + 1
           text == c.input
           r == SubSeq(text, 1, k) \o After(text, m)
           d == [c EXCEPT !.input = r]
<1>1. IsContext(c) /\ text \in Texts /\ k \in 0..Len(text) /\ Len(text) \in Nat /\ k < Len(text)
  BY TextIsSeq DEF Resting, Standing, Good, CanDelete
<1>2. k \in Nat /\ m \in Nat /\ k <= m /\ m <= Len(text) /\ m - k = 1
  BY <1>1
<1>3. DeleteInput(c) = Compose(d)
  BY DEF DeleteInput
<1> HIDE DEF k, m, text
<1>4. Len(r) < Len(text)
  BY <1>1, <1>2, ReplacedLength
<1> HIDE DEF r
<1>5. IsContext(d) /\ d.input = r
  BY <1>1 DEF IsContext
<1> HIDE DEF d
<1> QED BY <1>3, <1>4, <1>5, ComposeSame DEF text, SameText

LEMMA StillIf ==
    ASSUME NEW c, Resting(c), NEW d, SameText(d, c) \/ Len(d.input) < Len(c.input)
    PROVE  Still(d, c)
<1>1. Len(c.input) \in Nat
  BY TextIsSeq DEF Resting, Standing, Good
<1>2. CASE SameText(d, c)
  BY <1>1, <1>2 DEF SameText, Still
<1>3. CASE Len(d.input) < Len(c.input)
  BY <1>1, <1>3 DEF Still
<1> QED BY <1>2, <1>3

LEMMA PopThenReopenStill ==
    ASSUME NEW c, Resting(c), NEW n \in Nat \ {0}
    PROVE  Still(PopThenReopen(c, n), c)
<1>1. CASE ~CanPop(c, n)
  BY <1>1, StillIf DEF PopThenReopen, SameText, Resting, Standing, Good
<1>2. CASE CanPop(c, n)
  <2> DEFINE d == PopInput(c, n)
  <2>1. IsContext(d) /\ Len(d.input) < Len(c.input)
    BY <1>2, PopStill
  <2>2. PopThenReopen(c, n) = ReopenIfEmpty(d)
    BY <1>2 DEF PopThenReopen
  <2> HIDE DEF d
  <2> QED BY <2>1, <2>2, ReopenSame, StillIf DEF ReopenIfEmpty, SameText
<1> QED BY <1>1, <1>2

LEMMA RevertStill ==
    ASSUME NEW c, Resting(c), NEW n \in Nat \ {0}
    PROVE  Still(RevertLastEdit(c, n), c)
BY ReopenSame, StillIf, PopThenReopenStill DEF RevertLastEdit, Resting, Standing, Good

LEMMA BackStill ==
    ASSUME NEW c, Resting(c)
    PROVE  Still(BackToPreviousInput(c), c)
BY ReopenSame, PopStill, StillIf DEF BackToPreviousInput, Resting, Standing, Good, SameText

LEMMA ToggleSpares ==
    ASSUME NEW c, Resting(c)
    PROVE  Spares(ToggleSelection(c), c)
BY ReopenSame, StillIf, CarriesItself, ConfirmCarriesAll, CarriesSpares DEF ToggleSelection,
  Spares, Resting, Standing, Good

LEMMA DeleteCharStill ==
    ASSUME NEW c, Resting(c)
    PROVE  Still(DeleteChar(c), c)
BY DeleteStill, StillIf DEF DeleteChar, SameText, Resting, Standing, Good

(* Cleared, the input is empty and the caret at its start.                 *)
LEMMA ClearStill ==
    ASSUME NEW c, IsContext(c), c.input \in Texts, c.caret \in 0..Len(c.input)
    PROVE  Still(Clear(c), c)
<1> DEFINE e == [c EXCEPT !.input = <<>>, !.caret = 0, !.segs = <<>>]
<1>1. e = [c EXCEPT !.input = <<>>, !.caret = 0, !.segs = <<>>]
  OBVIOUS
<1> HIDE DEF e
<1>2. IsContext(e) /\ e.input = <<>> /\ e.caret = 0
  BY <1>1 DEF IsContext
<1>3. Clear(c) = Compose(e)
  BY DEF Clear, e
<1>4. Len(<<>>) = 0 /\ Len(c.input) \in Nat
  BY TextIsSeq
<1> QED BY <1>2, <1>3, ComposeSame, <1>4 DEF Still, SameText

LEMMA CancelStill ==
    ASSUME NEW c, Resting(c)
    PROVE  Still(CancelComposition(c), c)
<1>1. IsContext(c) /\ c.input \in Texts /\ c.caret \in 0..Len(c.input) /\ Good(c, {}) /\ Len(c.input) \in Nat
      /\ c.input \in Seq(Keys) /\ Standing(c)
  BY TextIsSeq DEF Resting, Standing, Good
<1>2. CASE CanClearSegment(c)
  <2> DEFINE k == Last(c.segs).start
             t == SubSeq(c.input, 1, k)
  <2>1. c.segs # <<>> /\ k < Len(c.input) /\ k \in Nat
    BY <1>1, <1>2, LastSegment DEF CanClearSegment, Segment
  <2>2. CancelComposition(c) = SetInput(c, t)
    BY <1>2 DEF CancelComposition, ClearPreviousSegment
  <2> HIDE DEF k
  <2>3. t \in Texts /\ Len(t) = k
    BY <1>1, <2>1, PartIsText, Prefix
  <2> HIDE DEF t
  <2> QED BY <2>2, <2>1, <2>3, <1>1, SetInputRests, StillIf
<1>3. CASE ~CanClearSegment(c)
  BY <1>1, <1>3, ClearStill DEF CancelComposition
<1> QED BY <1>2, <1>3

LEMMA HighlightStill ==
    ASSUME NEW c, Resting(c), NEW i
    PROVE  Still(Highlight(c, i), c)
<1> DEFINE d == WithLast(c, [Last(c.segs) EXCEPT !.index = HighlightIndex(c, i)])
<1>1. SameText(d, c)
  BY SMTT(30) DEF WithLast, SameText, IsContext, Resting, Standing, Good
<1>2. Highlight(c, i) = Compose(d)
  BY DEF Highlight
<1> HIDE DEF d
<1>3. SameText(Highlight(c, i), c)
  BY <1>1, <1>2, ComposeSame DEF SameText
<1> QED BY <1>3, StillIf

LEMMA RefreshStill ==
    ASSUME NEW c, Resting(c)
    PROVE  Still(Refresh(c), c)
<1> DEFINE d == ClearNonConfirmed(c)
<1>1. SameText(c, c)
  BY DEF SameText, Resting, Standing, Good
<1>2. SameText(d, c)
  <2> DEFINE r == Forward(SubSeq(c.segs, 1, LastChosen(c)))
  <2>1. d = c \/ d = [[c EXCEPT !.segs = SubSeq(@, 1, LastChosen(c))] EXCEPT !.segs = Forward(@)]
    BY DEF ClearNonConfirmed, Forwarded
  <2>2. IsContext(c)
    BY <1>1 DEF SameText
  <2> HIDE DEF d
  <2> QED BY <2>1, <2>2 DEF SameText, IsContext
<1> HIDE DEF d
<1> QED BY <1>1, <1>2, ComposeSame, StillIf DEF Refresh, d, SameText

(* A commit of the script text sends something too.                        *)
LEMMA CommitScriptSends ==
    ASSUME NEW c, Standing(c)
    PROVE  CommitScriptText(c).sent # <<>>
<1> DEFINE t == ScriptText(c)
           d == Sink(c, t)
<1>1. c.caret = Len(c.input) /\ ~Loose(c) => t = c.input
  BY ScriptTextInFull
<1>2. CommitScriptText(c) = Clear(d)
  BY DEF CommitScriptText
<1> HIDE DEF t
<1>3. d.sent # <<>>
  BY SinkSends
<1>4. IsContext(d) /\ d.active = c.active /\ SentInFull(d.sent)
  BY <1>1, SinkInFull
<1> HIDE DEF d
<1> QED BY <1>2, <1>3, <1>4, ClearRests DEF Standing, Good


(* Each action spares the choices before the caret.                        *)
LEMMA BecomesSpares ==
    ASSUME Inv, [Next]_vars
    PROVE  Fits' => ctx' = ctx \/ Still(ctx', Now) \/ (Fits /\ Spares(ctx', Now))
<1> SUFFICES ASSUME Fits' PROVE ctx' = ctx \/ Still(ctx', Now) \/ (Fits /\ Spares(ctx', Now))
  OBVIOUS
<1> DEFINE c == Now
<1>1. Fits => /\ Resting(c) /\ Standing(c) /\ c.sent = <<>> /\ c.input = ctx.input /\ c.caret = ctx.caret
              /\ c.segs = ctx.segs
  BY NowRests DEF Inv
<1>2. ASSUME NEW ch \in Keys, SpellKey(ch)
      PROVE  Fits /\ Spares(ctx', c)
  <2>1. Fits /\ ctx' = Spell(c, ch) /\ Len(ctx.input) < MaxInput /\ misfit' = {m \in {"reused"} : Misplaced(ch)}
    BY <1>2 DEF SpellKey
  <2>2. ~MisplacedIn(BeginEditing(PushInput(c, ch)), c)
    BY <1>1, <2>1 DEF Misplaced, MisplacedIn, HasMenu, Fits
  <2> HIDE DEF c
  <2> QED BY <1>1, <2>1, <2>2, SpellSpares
<1>3. ASSUME NEW ch \in Keys, CharKey(ch)
      PROVE  Fits /\ Spares(ctx', c)
  <2>1. /\ Fits /\ Len(ctx.input) < MaxInput
        /\ ctx' = Commit(c) \/ ctx' = BeginEditing(PushInput(c, ch))
    BY <1>3 DEF CharKey, Becomes
  <2> HIDE DEF c
  <2> QED BY <2>1, <1>1, CarriesItself, CommitCarriesAll, CarriesSpares, PushKeySpares
<1>4. CASE EditorKey
  <2>1. Fits /\ IsComposing(c)
    BY <1>1, <1>4 DEF EditorKey, Becomes, IsComposing
  <2> DEFINE Spared(d) == Still(d, c) \/ Spares(d, c)
  <2> HIDE DEF c
  <2>2. Spared(Confirm(c)) /\ Spared(CommitComposition(c)) /\ Spared(ToggleSelection(c)) /\ Spared(CommitRawInput(c))
    BY <1>1, <2>1, ConfirmSpares, CommitCompositionSpares, ToggleSpares, CommitRawSpares
  <2>3. Spared(CommitScriptText(c))
    BY <1>1, <2>1, CommitScriptSends DEF Spares
  <2>4. \A n \in 1..MaxInput : Spared(RevertLastEdit(c, n))
    <3> TAKE n \in 1..MaxInput
    <3> QED BY <1>1, <2>1, RevertStill
  <2>5. Spared(BackToPreviousInput(c)) /\ Spared(DeleteChar(c)) /\ Spared(CancelComposition(c))
    BY <1>1, <2>1, BackStill, DeleteCharStill, CancelStill
  <2> HIDE DEF Spared
  <2>6. Spared(ctx')
    BY <1>4, <2>2, <2>3, <2>4, <2>5 DEF EditorKey, Becomes, c
  <2> QED BY <2>1, <2>6 DEF Spared, c
<1>5. ASSUME NEW p \in 0..MaxInput, Move(p)
      PROVE  Fits /\ Spares(ctx', c)
  <2>1. LET e == BeginEditing(c)
        IN  /\ Fits /\ p <= Len(ctx.input)
            /\ ctx' = IF p = e.caret THEN e ELSE SetCaret(e, p)
    BY <1>5 DEF Move, Becomes
  <2> HIDE DEF c
  <2> QED BY <1>1, <2>1, MoveSpares
<1>6. ASSUME NEW i \in 0..MaxInput, SelectKey(i)
      PROVE  Fits /\ Spares(ctx', c)
  <2>1. Fits /\ ctx' = Select(c, i) /\ i \in Nat
    BY <1>6 DEF SelectKey, Becomes
  <2> HIDE DEF c
  <2> QED BY <1>1, <2>1, <1>6, SelectSpares DEF SelectKey, CanSelect
<1>7. ASSUME NEW i \in 0..MaxInput, HighlightKey(i)
      PROVE  Still(ctx', c)
  <2>1. Fits /\ ctx' = Highlight(c, i)
    BY <1>7 DEF HighlightKey, Becomes
  <2> HIDE DEF c
  <2> QED BY <1>1, <2>1, HighlightStill
<1>8. CASE OptionUpdate
  <2>1. Fits /\ ctx' = Refresh(c)
    BY <1>8 DEF OptionUpdate, Becomes
  <2> HIDE DEF c
  <2> QED BY <1>1, <2>1, RefreshStill DEF c
<1>9. CASE SwitchCommitText
  <2> HIDE DEF c
  <2> QED BY <1>9, <1>1, SwitchSpares DEF c, SwitchCommitText, Becomes
<1>10. CASE CommitCall
  <2> HIDE DEF c
  <2> QED BY <1>10, <1>1, CarriesItself, CommitCarriesAll, CarriesSpares DEF c, CommitCall, Becomes
<1>11. CASE ClearCall \/ ApplySchema
  <2>1. ctx' = Clear(c)
    BY <1>11 DEF ClearCall, ApplySchema
  <2>2. IsContext(c) /\ c.input \in Texts /\ c.caret \in 0..Len(c.input)
    BY NowIs DEF Inv, TypeOK
  <2> HIDE DEF c
  <2>3. Still(ctx', c)
    BY <2>1, <2>2, ClearStill
  <2> QED BY <2>3 DEF c
<1>12. CASE UNCHANGED vars
  BY <1>12 DEF vars
<1> QED BY <1>2, <1>3, <1>4, <1>5, <1>6, <1>7, <1>8, <1>9, <1>10, <1>11, <1>12 DEF Next

(* What is spared is kept: the choices are those of ChoicesKept.           *)
LEMMA SparedIsKept ==
    ASSUME Inv, Inv', Fits, Fits', ctx'.sent = <<>>, Spares(ctx', Now), ~Still(ctx', Now)
    PROVE  \A i \in DOMAIN ctx.segs :
             Chosen(ctx.segs[i]) /\ ctx.segs[i].end <= Min({ctx.caret, ctx'.caret}) =>
                 i \in DOMAIN ctx'.segs /\ Choice(ctx'.segs[i]) = Choice(ctx.segs[i])
<1> DEFINE s == ctx.segs
           t == ctx'.segs
           k == Min({ctx.caret, ctx'.caret})
<1>1. Resting(ctx) /\ Resting(ctx')
  BY DEF Inv
<1>2. /\ s \in Seq(Segment) /\ Len(s) \in Nat /\ DOMAIN s = 1..Len(s) /\ LastIsOpen(s) /\ ctx.caret \in Nat
      /\ t \in Seq(Segment) /\ Len(t) \in Nat /\ DOMAIN t = 1..Len(t) /\ ctx'.caret \in Nat
  BY <1>1, Ends DEF Resting, Standing, Good, Whole
<1>3. k \in Nat /\ k <= ctx.caret /\ k <= ctx'.caret
  BY <1>2, MinOf
<1> HIDE DEF k
<1>4. Held(s, t, k)
  BY <1>3, <1>1, NowRests DEF Spares
<1> SUFFICES ASSUME NEW i \in DOMAIN s, Chosen(s[i]), s[i].end <= k
             PROVE  i \in DOMAIN t /\ Choice(t[i]) = Choice(s[i])
  BY DEF k
<1> HIDE DEF s, t
<1>5. i # Len(s)
  <2> SUFFICES ASSUME i = Len(s) PROVE FALSE
    OBVIOUS
  <2> QED BY <1>2, Ends DEF LastIsOpen, Chosen
<1> QED BY <1>2, <1>4, <1>5 DEF Held, Lasting, Chosen

(* Typing on and moving the caret keep every choice made before the caret, *)
(* whatever is cut and translated anew (segmentation.cc, engine.cc).       *)
THEOREM ChoicesKeptAlways == Spec => ChoicesKept
<1>1. Inv /\ Inv' /\ [Next]_vars =>
        [Fits' /\ ctx'.sent = <<>> /\ (Lengthened \/ CaretMoved) =>
            \A i \in DOMAIN ctx.segs :
                Chosen(ctx.segs[i]) /\ ctx.segs[i].end <= Min({ctx.caret, ctx'.caret}) =>
                    i \in DOMAIN ctx'.segs /\ Choice(ctx'.segs[i]) = Choice(ctx.segs[i])]_vars
  <2> SUFFICES ASSUME Inv, Inv', [Next]_vars, Fits', ctx'.sent = <<>>, Lengthened \/ CaretMoved,
                      ctx' # ctx
               PROVE  \A i \in DOMAIN ctx.segs :
                        Chosen(ctx.segs[i]) /\ ctx.segs[i].end <= Min({ctx.caret, ctx'.caret}) =>
                            i \in DOMAIN ctx'.segs /\ Choice(ctx'.segs[i]) = Choice(ctx.segs[i])
    BY DEF Lengthened, CaretMoved
  <2>1. ~Still(ctx', Now)
    BY NowIs, TextIsSeq DEF Still, Lengthened, CaretMoved, Inv, TypeOK
  <2> QED BY <2>1, BecomesSpares, SparedIsKept
<1> QED BY <1>1, Invariance, PTL DEF Spec, ChoicesKept

------------------------------------------------------------------------------
(* Under automatic commit only letters are in the input, and the segments  *)
(* are packed: each but the last is chosen, and a chosen one ends where    *)
(* its candidate does.  So none is loose, and a commit sends all.          *)

Letters(text) == \A i \in DOMAIN text : text[i] \in Alphabet
Shut(seg) == seg.status >= kSelected => ~(SegmentEnd(seg) < seg.end)
Interior(segs) == \A i \in 1..Len(segs) - 1 : segs[i].status >= kSelected /\ Shut(segs[i])
Packed(segs) == Interior(segs) /\ (segs # <<>> => Shut(Last(segs)))

LEMMA PackedAt ==
    ASSUME NEW segs \in Seq(Segment), Packed(segs)
    PROVE  \A i \in 1..Len(segs) : Shut(segs[i]) /\ (i # Len(segs) => segs[i].status >= kSelected)
<1> TAKE i \in 1..Len(segs)
<1>1. Len(segs) \in Nat /\ Last(segs) = segs[Len(segs)] /\ (segs # <<>> <=> Len(segs) > 0)
  BY Ends
<1>2. CASE i = Len(segs)
  BY <1>1, <1>2 DEF Packed
<1>3. CASE i # Len(segs)
  BY <1>1, <1>3 DEF Packed, Interior
<1> QED BY <1>2, <1>3

LEMMA PackedFrom ==
    ASSUME NEW segs \in Seq(Segment),
           \A i \in 1..Len(segs) : Shut(segs[i]) /\ (i # Len(segs) => segs[i].status >= kSelected)
    PROVE  Packed(segs)
<1>1. Len(segs) \in Nat /\ Last(segs) = segs[Len(segs)] /\ (segs # <<>> <=> Len(segs) > 0)
  BY Ends
<1> QED BY <1>1 DEF Packed, Interior

LEMMA PackedPrefix ==
    ASSUME NEW segs \in Seq(Segment), Packed(segs), NEW n \in 0..Len(segs)
    PROVE  Packed(SubSeq(segs, 1, n))
<1> DEFINE p == SubSeq(segs, 1, n)
<1>1. p \in Seq(Segment) /\ Len(p) = n /\ \A i \in 1..n : p[i] = segs[i]
  BY Prefix
<1> HIDE DEF p
<1>2. \A i \in 1..n : i \in 1..Len(segs) /\ (i # n => i # Len(segs))
  BY Ends
<1>3. Packed(p)
  BY <1>1, <1>2, PackedAt, PackedFrom
<1> QED BY <1>3 DEF p

(* The last segment replaced by one that is shut. *)
LEMMA PackedReplaced ==
    ASSUME NEW segs \in Seq(Segment), segs # <<>>, Interior(segs), NEW x \in Segment
    PROVE  /\ Interior(Append(Front(segs), x))
           /\ Shut(x) => Packed(Append(Front(segs), x))
<1> DEFINE r == Append(Front(segs), x)
<1>1. /\ r \in Seq(Segment) /\ Len(r) = Len(segs) /\ Last(r) = x
      /\ \A i \in 1..Len(segs) - 1 : r[i] = segs[i]
  BY LastReplaced
<1> HIDE DEF r
<1> QED BY <1>1 DEF r, Packed, Interior

LEMMA OpenIsShut ==
    ASSUME NEW seg \in Segment, seg.status < kSelected
    PROVE  Shut(seg)
BY DEF Shut, Segment

LEMMA PackedForward ==
    ASSUME NEW segs \in Seq(Segment), Interior(segs),
           segs # <<>> => Shut(Last(segs)) /\ (IsEmpty(Last(segs)) \/ Last(segs).status >= kSelected)
    PROVE  Packed(Forward(segs))
<1>1. CASE segs = <<>> \/ IsEmpty(Last(segs))
  BY <1>1 DEF Packed, Forward
<1>2. CASE segs # <<>> /\ ~IsEmpty(Last(segs))
  <2> DEFINE x == NewSegment(Last(segs).end, Last(segs).end, {})
             r == Append(segs, x)
  <2>1. Forward(segs) = r
    BY <1>2 DEF Forward
  <2>2. Last(segs) \in Segment /\ Last(segs) = segs[Len(segs)] /\ Len(segs) \in Nat
    BY <1>2, Ends
  <2>3. x \in Segment /\ x.status = kVoid
    BY <2>2, NewIsSegment DEF Segment
  <2> HIDE DEF x
  <2>4. r \in Seq(Segment) /\ Len(r) = Len(segs) + 1 /\ r[Len(segs) + 1] = x
        /\ \A i \in 1..Len(segs) : r[i] = segs[i]
    BY <2>3, AppendProperties
  <2> HIDE DEF r
  <2>5. Shut(x)
    BY <2>3, OpenIsShut
  <2>6. ASSUME NEW i \in 1..Len(segs) PROVE Shut(segs[i]) /\ segs[i].status >= kSelected
    BY <2>2, <1>2 DEF Interior
  <2>7. Packed(r)
    BY <2>4, <2>5, <2>6, <2>2, PackedFrom
  <2> QED BY <2>1, <2>7
<1> QED BY <1>1, <1>2

LEMMA PackedTrim ==
    ASSUME NEW segs \in Seq(Segment), Packed(segs)
    PROVE  Packed(Trim(segs))
<1>1. CASE CanTrim(segs)
  <2>1. segs # <<>> /\ Trim(segs) = Front(segs)
    BY <1>1 DEF CanTrim, Trim
  <2> DEFINE n == Len(segs) - 1
             f == Front(segs)
  <2>2. f \in Seq(Segment) /\ Len(f) = n /\ \A i \in 1..n : f[i] = segs[i]
    BY <2>1, FrontOf
  <2>3. \A i \in 1..n : i \in 1..Len(segs) /\ i # Len(segs)
    BY <2>1, Ends
  <2> HIDE DEF f, n
  <2>4. Packed(f)
    BY <2>2, <2>3, PackedAt, PackedFrom
  <2> QED BY <2>1, <2>4 DEF f
<1>2. CASE ~CanTrim(segs)
  BY <1>2 DEF Trim
<1> QED BY <1>1, <1>2

LEMMA PackedReset ==
    ASSUME NEW old \in Texts, NEW text \in Texts, NEW X, NEW segs, Whole(segs, old, X), Packed(segs)
    PROVE  Packed(Reset(segs, old, text))
<1> DEFINE kept == Kept(old, text)
           S == {k \in 0..Len(segs) : k = 0 \/ segs[k].end <= kept}
           m == Max(S)
           p == SubSeq(segs, 1, m)
<1>1. segs \in Seq(Segment) /\ Len(segs) \in Nat
  BY Ends DEF Whole
<1>2. m \in 0..Len(segs)
  <2>1. S \subseteq 0..Len(segs) /\ S # {}
    BY <1>1
  <2> HIDE DEF S
  <2> QED BY <2>1, <1>1, MaxOf
<1>3. Reset(segs, old, text) = Dropped(segs, m)
  BY DEF Reset
<1> HIDE DEF m, S
<1>4. CASE m = Len(segs)
  BY <1>3, <1>4 DEF Dropped
<1>5. CASE m # Len(segs)
  <2>1. Reset(segs, old, text) = Forward(p)
    BY <1>3, <1>5 DEF Dropped
  <2>2. Packed(p) /\ p \in Seq(Segment) /\ Len(p) = m /\ \A i \in 1..m : p[i] = segs[i]
    BY <1>1, <1>2, PackedPrefix, Prefix
  <2> HIDE DEF p
  <2>3. Packed(Forward(p))
    BY <2>2, <1>1, <1>2, Ends, <1>5, PackedAt, PackedForward DEF Packed
  <2> QED BY <2>1, <2>3
<1> QED BY <1>4, <1>5

(* In a text of letters the abc segmentor reaches the end at once, and the *)
(* fallback segmentor has nothing to add.                                  *)
LEMMA AbcReaches ==
    ASSUME NEW text \in Texts, Letters(text), NEW X, NEW segs, Whole(segs, text, X), Packed(segs)
    PROVE  LET new == AbcProceed(segs, text)
           IN  /\ Packed(new) /\ CurrentEnd(new) = Len(text)
               /\ FallbackProceed(new, text) = new
<1> DEFINE j == CurrentStart(segs)
           S == {j} \union {k \in j + 1..Len(text) : \A i \in j + 1..k : text[i] \in Alphabet}
           run == Max(S)
           seg == NewSegment(j, run, {"abc"})
           new == AbcProceed(segs, text)
<1>1. segs \in Seq(Segment) /\ Chained(segs, Len(text)) /\ Len(text) \in Nat /\ DOMAIN text = 1..Len(text)
  BY TextIsSeq, Ends DEF Whole
<1>2. j \in Nat /\ CurrentEnd(segs) \in Nat /\ j <= CurrentEnd(segs) /\ CurrentEnd(segs) <= Len(text)
  BY <1>1, Ends, EndOf DEF Chained
<1>3. run = Len(text)
  <2>1. Len(text) \in S
    BY <1>1, <1>2 DEF Letters
  <2>2. S \subseteq 0..Len(text)
    BY <1>1, <1>2
  <2> HIDE DEF S
  <2>3. run \in 0..Len(text) /\ Len(text) <= run
    BY <2>1, <2>2, <1>1, MaxOf
  <2>4. Len(text) \in Nat
    BY <1>1
  <2> HIDE DEF run, seg, new
  <2> QED BY <2>3, <2>4
<1>4. new = IF run = j THEN segs ELSE AddSegment(segs, seg)
  BY DEF AbcProceed
<1>5. Whole(new, text, X) /\ CurrentEnd(new) >= CurrentEnd(segs) /\ CurrentStart(new) = j
  BY AbcWhole
<1> HIDE DEF run, S, new
<1>6. run # j => seg \in Segment /\ seg.start = j /\ seg.end = Len(text) /\ seg.menu = <<>> /\ seg.status = kVoid
  BY <1>1, <1>2, <1>3, NewIsSegment DEF Tags
<1>7. CurrentEnd(new) \in Nat /\ CurrentEnd(new) <= Len(text)
  BY <1>5, EndOf DEF Whole, Chained
<1> HIDE DEF seg
<1>8. CurrentEnd(new) = Len(text)
  <2>1. CASE run = j
    <3>1. new = segs /\ j = Len(text)
      BY <2>1, <1>3, <1>4
    <3> QED BY <3>1, <1>1, <1>2
  <2>2. CASE run # j
    BY <2>2, <1>1, <1>2, <1>3, <1>6, AddSegmentWhole, <1>4, <1>7
  <2> QED BY <2>1, <2>2
<1>9. Packed(new)
  <2>1. CASE run = j
    BY <2>1, <1>4
  <2>2. CASE run # j
    <3>1. seg \in Segment /\ seg.start = j /\ seg.end = Len(text) /\ seg.status = kVoid
      BY <2>2, <1>6
    <3>2. Shut(seg)
      BY <3>1, OpenIsShut
    <3>3. CASE segs = <<>>
      <4>1. new = <<seg>>
        BY <2>2, <3>1, <3>3, <1>4 DEF AddSegment
      <4>2. <<seg>> \in Seq(Segment) /\ Len(<<seg>>) = 1 /\ \A i \in 1..1 : i = 1 /\ <<seg>>[i] = seg
        BY <3>1
      <4> QED BY <4>1, <4>2, <3>2, PackedFrom
    <3>4. CASE segs # <<>>
      <4>1. Last(segs) \in Segment /\ Last(segs).end = CurrentEnd(segs) /\ Interior(segs) /\ Shut(Last(segs))
        BY <3>4, <1>1, Ends DEF CurrentEnd, Packed
      <4>2. CASE Last(segs).end < Len(text)
        <5>1. new = Append(Front(segs), seg)
          BY <2>2, <3>1, <3>4, <4>1, <4>2, <1>1, <1>2, <1>4 DEF AddSegment
        <5> QED BY <5>1, <3>1, <3>2, <3>4, <4>1, <1>1, PackedReplaced
      <4>3. CASE Last(segs).end = Len(text)
        <5> DEFINE last == Last(segs)
                   tags == last.tags \union seg.tags
                   x == [last EXCEPT !.tags = tags]
        <5>1. new = Append(Front(segs), x)
          BY <2>2, <3>1, <3>4, <4>1, <4>3, <1>1, <1>2, <1>4 DEF AddSegment
        <5>2. tags \in SUBSET Tags
          BY <4>1, <3>1 DEF Segment
        <5> HIDE DEF tags
        <5>3. /\ x \in Segment /\ x.start = last.start /\ x.end = last.end /\ x.status = last.status
              /\ x.menu = last.menu /\ x.index = last.index
          BY <4>1, <5>2, RetaggedIsSound
        <5> HIDE DEF x
        <5> QED BY <5>1, <5>3, <4>1, <3>4, <1>1, PackedReplaced DEF Shut, SegmentEnd, HasCandidate,
          CandidateEnd, CandidateLength, Count
      <4> QED BY <4>1, <4>2, <4>3, <1>1, <1>2
    <3> QED BY <3>3, <3>4
  <2> QED BY <2>1, <2>2
<1> QED BY <1>8, <1>9, <1>1, <1>2, <1>5 DEF new, FallbackProceed

(* So there is one round at most. *)
LEMMA PackedSegmented ==
    ASSUME NEW text \in Texts, Letters(text), NEW X, NEW segs, Whole(segs, text, X), Packed(segs),
           NEW caret \in 0..Len(text)
    PROVE  Packed(Segmented(segs, text, caret))
<1> DEFINE rounds == Rounds(segs, text, caret)
           new == AbcProceed(segs, text)
           first == [segs |-> segs, more |-> ~HasFinished(segs, text)]
           second == [segs |-> new, more |-> FALSE]
           Broken == {n \in Nat : ~(rounds[n] = first \/ rounds[n] = second)}
<1>1. /\ RoundOK(first, segs, 0, text, caret, X)
      /\ rounds = [n \in Nat |-> IF n = 0 THEN first ELSE NextRound(rounds[n - 1], text, caret)]
  BY RoundsUnfold
<1>2. Packed(new) /\ CurrentEnd(new) = Len(text) /\ FallbackProceed(new, text) = new
  BY AbcReaches
<1>3. first.segs = segs /\ second.segs = new /\ second.more = FALSE
  OBVIOUS
<1>4. NextRound(first, text, caret) \in {first, second}
  <2>1. CASE ~first.more
    <3> HIDE DEF first
    <3> QED BY <2>1 DEF NextRound
  <2>2. CASE first.more
    <3>1. NextRound(first, text, caret) = AfterRound(CurrentStart(segs), new, text, caret)
      <4> HIDE DEF new
      <4>1. first.segs = segs /\ FallbackProceed(new, text) = new
        BY <1>2
      <4> HIDE DEF first
      <4> QED BY <2>2, <4>1 DEF NextRound, new
    <3>2. HasFinished(new, text)
      <4> HIDE DEF new
      <4> QED BY TextIsSeq, <1>2 DEF HasFinished
    <3> HIDE DEF new, first
    <3> QED BY <3>1, <3>2 DEF AfterRound
  <2> QED BY <2>1, <2>2
<1>5. NextRound(second, text, caret) = second
  <2> HIDE DEF second
  <2> QED BY <1>3 DEF NextRound
<1> HIDE DEF rounds, first, second
<1>6. Broken = {}
  <2> SUFFICES ASSUME Broken # {} PROVE FALSE
    OBVIOUS
  <2>1. PICK n \in Broken : \A m \in Broken : n <= m
    BY LeastOf
  <2>2. n # 0
    BY <1>1
  <2>3. n - 1 \in Nat /\ n - 1 \notin Broken /\ n \in Nat
    BY <2>1, <2>2
  <2>4. rounds[n] = first \/ rounds[n] = second
    BY <2>3, <1>1, <2>2, <1>4, <1>5
  <2> QED BY <2>4, <2>1
<1> QED BY <1>2, <1>3, <1>6, TextIsSeq DEF Segmented, rounds

LEMMA PackedForwardIfChosen ==
    ASSUME NEW segs \in Seq(Segment), Packed(segs)
    PROVE  Packed(ForwardIfChosen(segs))
<1>1. CASE segs # <<>> /\ Last(segs).status >= kSelected
  BY <1>1, PackedForward DEF ForwardIfChosen, Packed
<1>2. CASE ~(segs # <<>> /\ Last(segs).status >= kSelected)
  BY <1>2 DEF ForwardIfChosen
<1> QED BY <1>1, <1>2

LEMMA PackedTranslated ==
    ASSUME NEW text \in Texts, NEW X, NEW segs, Whole(segs, text, X), Packed(segs)
    PROVE  Packed(TranslateSegments(segs, text))
<1> DEFINE new == TranslateSegments(segs, text)
<1>1. Whole(new, text, X) /\ Translated(segs, new)
  BY TranslateWhole
<1> HIDE DEF new
<1>2. /\ segs \in Seq(Segment) /\ new \in Seq(Segment) /\ Len(new) = Len(segs)
      /\ \A i \in 1..Len(segs) : segs[i] \in Segment /\ new[i] \in Segment
  BY <1>1, Ends DEF Whole, Translated
<1>3. ASSUME NEW i \in 1..Len(segs)
      PROVE  Shut(new[i]) /\ (i # Len(segs) => new[i].status >= kSelected)
  <2>1. Shut(segs[i]) /\ (i # Len(segs) => segs[i].status >= kSelected)
    BY <1>2, PackedAt
  <2>2. segs[i].status \in kVoid..kConfirmed
    BY <1>2 DEF Segment
  <2>3. CASE segs[i].status >= kGuess
    BY <2>3, <1>1, <2>1 DEF Translated
  <2>4. CASE ~(segs[i].status >= kGuess)
    BY <2>2, <2>4, <1>1, <1>2, OpenIsShut, <2>1 DEF Translated
  <2> QED BY <2>3, <2>4
<1> QED BY <1>2, <1>3, PackedFrom DEF new

LEMMA PackedCalculated ==
    ASSUME NEW text \in Texts, Letters(text), NEW X, NEW segs, Whole(segs, text, X), Packed(segs),
           NEW caret \in 0..Len(text)
    PROVE  Packed(TranslateSegments(CalculateSegmentation(segs, text, caret), text))
<1> DEFINE s == Segmented(segs, text, caret)
           t == Trim(s)
           u == ForwardIfChosen(t)
<1>1. Whole(s, text, X) /\ Packed(s)
  BY SegmentedWhole, PackedSegmented
<1> HIDE DEF s
<1>2. Whole(t, text, X) /\ Packed(t)
  BY <1>1, TrimWhole, PackedTrim DEF Whole
<1> HIDE DEF t
<1>3. Whole(u, text, X) /\ Packed(u)
  BY <1>2, ForwardIfChosenWhole, PackedForwardIfChosen DEF Whole
<1> HIDE DEF u
<1> QED BY <1>3, PackedTranslated DEF CalculateSegmentation, s, t, u

LEMMA LettersIs ==
    ASSUME NEW text \in Seq(Keys)
    PROVE  Letters(text) <=> text \in Seq(Alphabet)
<1>1. ASSUME Letters(text) PROVE text \in Seq(Alphabet)
  BY LenProperties, <1>1, SeqDef DEF Letters
<1>2. ASSUME text \in Seq(Alphabet) PROVE Letters(text)
  BY <1>2 DEF Letters
<1> QED BY <1>1, <1>2

LEMMA LettersParts ==
    ASSUME NEW text \in Texts, Letters(text), NEW n \in 0..Len(text)
    PROVE  Letters(SubSeq(text, 1, n)) /\ Letters(After(text, n))
<1>1. text \in Seq(Keys) /\ Len(text) \in Nat
  BY TextIsSeq
<1>2. text \in Seq(Alphabet)
  BY <1>1, LettersIs
<1>3. SubSeq(text, 1, n) \in Seq(Alphabet)
  BY <1>2, Prefix
<1> DEFINE m == n + 1
           k == Len(text)
<1>4. m \in Nat \ {0} /\ k \in Int /\ k <= Len(text)
  BY <1>1
<1>5. After(text, n) = SubSeq(text, m, k)
  BY DEF After
<1> HIDE DEF m, k
<1>6. SubSeq(text, m, k) \in Seq(Alphabet)
  BY <1>2, <1>4, Part
<1> QED BY <1>3, <1>5, <1>6, SMTT(30) DEF Letters

(* What Lettered says of a context, Compose keeps. *)
Lettered(c) == Letters(c.input) /\ Packed(c.segs)

LEMMA ComposePacks ==
    ASSUME NEW c, NEW X, Good(c, X), Lettered(c)
    PROVE  Packed(Compose(c).segs)
<1> DEFINE p == SubSeq(c.input, 1, c.caret)
           c1 == ResetTo(c, p)
           c2 == PastCaret(c1)
           d == Convert(c2)
<1>1. Letters(c.input) /\ Packed(c.segs)
  BY DEF Lettered
<1>2. p \in Texts /\ Letters(p)
  BY TextIsSeq, <1>1, PartIsText, LettersParts DEF Good
<1>3. /\ Good(c1, X) /\ c1.active = p
      /\ c1.input = c.input /\ c1.caret = c.caret
      /\ c1.segs = Reset(c.segs, c.active, p)
  <2> HIDE DEF p
  <2> QED BY <1>2, ResetToGood
<1>4. Packed(c1.segs)
  <2> HIDE DEF p, c1
  <2> QED BY <1>1, <1>2, <1>3, PackedReset DEF Good
<1> HIDE DEF c1
<1>5. Good(c2, X) /\ c2.caret <= Len(c2.active)
  BY <1>3, PastCaretGood
<1>6. Packed(c2.segs) /\ Letters(c2.active)
  <2>1. CASE c1.caret < Len(c1.input) /\ c1.caret = ConfirmedPosition(c1.segs)
    <3> DEFINE t == c1.input
    <3>1. c2 = ResetTo(c1, t) /\ t \in Texts /\ t = c.input
      BY <2>1, <1>3 DEF PastCaret, Good
    <3> HIDE DEF t, c2
    <3>2. c2.active = t /\ c2.segs = Reset(c1.segs, c1.active, t)
      BY <3>1, <1>3, ResetToGood
    <3> QED BY <3>1, <3>2, <1>3, <1>1, <1>4, PackedReset DEF Good
  <2>2. CASE ~(c1.caret < Len(c1.input) /\ c1.caret = ConfirmedPosition(c1.segs))
    BY <2>2, <1>2, <1>3, <1>4 DEF PastCaret
  <2> QED BY <2>1, <2>2
<1> HIDE DEF c2
<1>7. c2.active \in Texts /\ Whole(c2.segs, c2.active, X) /\ c2.caret \in 0..Len(c2.active) /\ IsContext(c2)
  BY <1>5, TextIsSeq DEF Good
<1>8. d.segs = TranslateSegments(CalculateSegmentation(c2.segs, c2.active, c2.caret), c2.active)
  BY <1>7 DEF Convert, IsContext
<1> HIDE DEF d
<1>9. Compose(c) = d
  BY DEF Compose, c1, c2, d
<1> QED BY <1>6, <1>7, PackedCalculated, <1>8, <1>9

LEMMA ComposeLettered ==
    ASSUME NEW c, NEW X, Good(c, X), Lettered(c)
    PROVE  Lettered(Compose(c))
BY ComposeGood, ComposePacks DEF Lettered

LEMMA ChangedLettered ==
    ASSUME NEW c, Good(c, {}), Packed(c.segs), NEW text \in Texts, Letters(text), NEW p \in 0..Len(text)
    PROVE  Lettered(Compose(WithInput(c, text, p)))
<1> DEFINE e == WithInput(c, text, p)
<1> HIDE DEF e
<1> QED BY WithInputGood, ComposeLettered DEF e, Lettered

LEMMA SetInputLettered ==
    ASSUME NEW c, Good(c, {}), Packed(c.segs), NEW text \in Texts, Letters(text)
    PROVE  Lettered(SetInput(c, text))
<1> DEFINE p == Len(text)
<1>1. p \in 0..Len(text)
  BY TextIsSeq
<1>2. SetInput(c, text) = Compose(WithInput(c, text, p))
  BY DEF SetInput, WithInput
<1> HIDE DEF p
<1> QED BY <1>1, <1>2, ChangedLettered

LEMMA SetCaretLettered ==
    ASSUME NEW c, Good(c, {}), Lettered(c), NEW p \in 0..Len(c.input)
    PROVE  Lettered(SetCaret(c, p))
<1>1. c.input \in Texts /\ IsContext(c) /\ Letters(c.input) /\ Packed(c.segs)
  BY DEF Good, Lettered
<1>2. [c EXCEPT !.caret = p] = [c EXCEPT !.input = c.input, !.caret = p]
  BY <1>1 DEF IsContext
<1>3. SetCaret(c, p) = Compose(WithInput(c, c.input, p))
  BY <1>2 DEF SetCaret, WithInput
<1> DEFINE text == c.input
<1>4. text \in Texts /\ p \in 0..Len(text) /\ SetCaret(c, p) = Compose(WithInput(c, text, p)) /\ Letters(text)
  BY <1>1, <1>3
<1> HIDE DEF text
<1> QED BY <1>1, <1>4, ChangedLettered

LEMMA LettersJoined ==
    ASSUME NEW text \in Texts, Letters(text), NEW n \in 0..Len(text), NEW m \in Nat, n <= m
    PROVE  Letters(SubSeq(text, 1, n) \o After(text, m))
<1> DEFINE p == SubSeq(text, 1, n)
           q == After(text, m)
           k == m + 1
           e == Len(text)
<1>1. text \in Seq(Keys) /\ e \in Nat
  BY TextIsSeq
<1>2. text \in Seq(Alphabet)
  BY <1>1, LettersIs
<1>3. p \in Seq(Alphabet)
  BY <1>2, Prefix
<1>4. q = SubSeq(text, k, e) /\ k \in Nat \ {0} /\ e \in Int /\ e <= Len(text)
  BY <1>1 DEF After
<1> HIDE DEF p, q, k, e
<1>5. q \in Seq(Alphabet)
  BY <1>2, <1>4, Part
<1>6. p \o q \in Seq(Alphabet)
  BY <1>3, <1>5, ConcatProperties
<1> QED BY <1>6 DEF Letters, p, q

LEMMA LettersPushed ==
    ASSUME NEW text \in Texts, Letters(text), NEW n \in 0..Len(text), NEW ch \in Alphabet
    PROVE  Letters(SubSeq(text, 1, n) \o <<ch>> \o After(text, n))
<1> DEFINE p == SubSeq(text, 1, n)
           q == After(text, n)
           k == n + 1
           e == Len(text)
<1>1. text \in Seq(Keys) /\ e \in Nat
  BY TextIsSeq
<1>2. text \in Seq(Alphabet)
  BY <1>1, LettersIs
<1>3. p \in Seq(Alphabet)
  BY <1>2, Prefix
<1>4. q = SubSeq(text, k, e) /\ k \in Nat \ {0} /\ e \in Int /\ e <= Len(text)
  BY <1>1 DEF After
<1> HIDE DEF p, q, k, e
<1>5. (p \o <<ch>>) \o q \in Seq(Alphabet)
  BY <1>2, <1>4, Part, <1>3, ConcatProperties
<1> QED BY <1>5 DEF Letters, p, q

LEMMA PushLettered ==
    ASSUME NEW c, Good(c, {}), Lettered(c), NEW ch \in Alphabet, Len(c.input) < MaxInput
    PROVE  Lettered(PushInput(c, ch))
<1> DEFINE r == SubSeq(c.input, 1, c.caret) \o <<ch>> \o After(c.input, c.caret)
           p == c.caret + 1
<1>1. c.input \in Texts /\ c.caret \in 0..Len(c.input) /\ Len(c.input) \in Nat /\ ch \in Keys
      /\ Letters(c.input) /\ Packed(c.segs)
  BY TextIsSeq, EngineAssumption DEF Good, Lettered
<1>2. r \in Texts /\ Len(r) = Len(c.input) + 1
  BY <1>1, PushedIsText
<1>3. Letters(r)
  BY <1>1, LettersPushed
<1>4. PushInput(c, ch) = Compose(WithInput(c, r, p))
  BY DEF PushInput, WithInput
<1> HIDE DEF r
<1>5. p \in 0..Len(r)
  BY <1>1, <1>2
<1> HIDE DEF p
<1> QED BY <1>1, <1>2, <1>3, <1>4, <1>5, ChangedLettered

LEMMA PopLettered ==
    ASSUME NEW c, Good(c, {}), Lettered(c), NEW n \in Nat, CanPop(c, n)
    PROVE  Lettered(PopInput(c, n))
<1> DEFINE k == c.caret - n
           r == SubSeq(c.input, 1, k) \o After(c.input, c.caret)
<1>1. c.input \in Texts /\ c.caret \in 0..Len(c.input) /\ Len(c.input) \in Nat /\ n <= c.caret
      /\ Letters(c.input) /\ Packed(c.segs)
  BY TextIsSeq DEF Good, CanPop, Lettered
<1>2. k \in 0..Len(c.input) /\ k <= c.caret /\ c.caret \in Nat
  BY <1>1
<1>3. PopInput(c, n) = Compose(WithInput(c, r, k))
  BY DEF PopInput, WithInput
<1> HIDE DEF k
<1>4. r \in Texts /\ k <= Len(r) /\ Letters(r)
  BY <1>1, <1>2, ReplacedIsText, LettersJoined
<1> HIDE DEF r
<1> QED BY <1>1, <1>3, <1>4, <1>2, TextIsSeq, ChangedLettered

LEMMA DeleteLettered ==
    ASSUME NEW c, Good(c, {}), Lettered(c), CanDelete(c)
    PROVE  Lettered(DeleteInput(c))
<1> DEFINE k == c.caret
           m == c.caret + 1
           r == SubSeq(c.input, 1, k) \o After(c.input, m)
<1>1. IsContext(c) /\ c.input \in Texts /\ k \in 0..Len(c.input) /\ Len(c.input) \in Nat
      /\ Letters(c.input) /\ Packed(c.segs)
  BY TextIsSeq DEF Good, Lettered
<1>2. m \in Nat /\ k <= m
  BY <1>1
<1>3. DeleteInput(c) = Compose(WithInput(c, r, k))
  <2>1. DeleteInput(c) = Compose([c EXCEPT !.input = r])
    BY DEF DeleteInput
  <2> HIDE DEF r
  <2> QED BY <2>1, <1>1 DEF WithInput, IsContext
<1> HIDE DEF k, m
<1>4. r \in Texts /\ k <= Len(r) /\ Letters(r)
  BY <1>1, <1>2, ReplacedIsText, LettersJoined
<1> HIDE DEF r
<1> QED BY <1>1, <1>3, <1>4, <1>2, TextIsSeq, ChangedLettered

(* A composition of nothing is packed: all it may hold is an empty segment. *)
LEMMA EmptyIsShut ==
    ASSUME NEW x \in Segment, x.start <= x.end, x.end <= 0, IsEmpty(x) => Count(x) = 0
    PROVE  Shut(x) /\ IsEmpty(x)
<1>1. x.start \in Nat /\ x.end \in Nat /\ x.index \in Nat
  BY DEF Segment
<1>2. x.start = x.end
  BY <1>1
<1>3. IsEmpty(x)
  BY <1>2, Zenon DEF IsEmpty
<1>4. ~HasCandidate(x)
  BY <1>1, <1>3 DEF HasCandidate
<1>5. ~(x.end < x.end)
  BY <1>1
<1> QED BY <1>3, <1>4, <1>5, Zenon DEF Shut, SegmentEnd

LEMMA NothingLettered ==
    ASSUME NEW d, Resting(d), d.input = <<>>
    PROVE  Lettered(d)
<1> DEFINE segs == d.segs
           n == Len(segs)
<1>1. d.active \in Texts /\ Whole(segs, d.active, {}) /\ VoidIsEmpty(segs) /\ d.caret = 0
      /\ d.active \in {d.input, SubSeq(d.input, 1, d.caret)}
  BY DEF Resting, Standing, Good, Follows
<1>2. Len(d.active) = 0
  BY <1>1, Prefix
<1>3. segs \in Seq(Segment) /\ n \in Nat /\ DOMAIN segs = 1..n /\ Chained(segs, 0)
  BY <1>1, <1>2, Ends DEF Whole
<1> HIDE DEF segs, n
<1>4. ASSUME NEW i \in 1..n PROVE Shut(segs[i]) /\ i = n
  <2>1. /\ segs[i] \in Segment /\ segs[i].start <= segs[i].end /\ segs[i].end <= 0
        /\ IsEmpty(segs[i]) => Count(segs[i]) = 0
    BY <1>1, <1>2, <1>3, WholeShown
  <2>2. Shut(segs[i]) /\ IsEmpty(segs[i])
    BY <2>1, EmptyIsShut
  <2> QED BY <2>2, <1>3 DEF Chained, n
<1>5. Packed(segs)
  BY <1>3, <1>4, PackedFrom DEF n
<1> QED BY <1>5 DEF Lettered, segs, Letters

------------------------------------------------------------------------------
(* Under automatic commit the handlers keep the context lettered. *)

LEMMA ClosedIsShut ==
    ASSUME NEW seg \in Segment
    PROVE  Shut(Close(seg))
<1>1. seg.end \in Nat
  BY DEF Segment
<1>2. CASE HasCandidate(seg) /\ CandidateEnd(seg) < seg.end
  <2> DEFINE tags == seg.tags \union {"partial"}
             e == CandidateEnd(seg)
             x == [seg EXCEPT !.end = e, !.tags = tags]
  <2>1. Close(seg) = x
    BY <1>2 DEF Close
  <2>2. e \in Nat /\ e = CandidateEnd(seg)
    BY <1>2, CandidateOf
  <2> HIDE DEF tags, e
  <2>3. x.start = seg.start /\ x.end = e /\ x.menu = seg.menu /\ x.index = seg.index
    BY DEF Segment
  <2> HIDE DEF x
  <2> QED BY <2>1, <2>2, <2>3 DEF Shut, SegmentEnd, CandidateEnd, CandidateLength
<1>3. CASE ~(HasCandidate(seg) /\ CandidateEnd(seg) < seg.end)
  BY <1>3, <1>1 DEF Shut, SegmentEnd, Close
<1> QED BY <1>2, <1>3

LEMMA WithLastPacked ==
    ASSUME NEW c, Standing(c), c.segs # <<>>, Interior(c.segs), NEW x \in Segment
    PROVE  Interior(WithLast(c, x).segs) /\ (Shut(x) => Packed(WithLast(c, x).segs))
<1>1. c.segs \in Seq(Segment) /\ IsContext(c)
  BY DEF Standing, Good, Whole
<1> DEFINE segs == c.segs
           r == Append(Front(segs), x)
<1>2. WithLast(c, x) = WithSegs(c, r)
  BY DEF WithLast, WithSegs
<1>3. segs \in Seq(Segment) /\ segs # <<>> /\ Interior(segs)
  BY <1>1
<1> HIDE DEF segs
<1>4. Interior(r) /\ (Shut(x) => Packed(r))
  BY <1>3, PackedReplaced
<1> HIDE DEF r
<1>5. WithSegs(c, r).segs = r
  BY <1>1, WithSegsIs
<1> QED BY <1>2, <1>4, <1>5

LEMMA NothingIsLettered ==
    ASSUME NEW c, c.input = <<>>, c.segs = <<>>
    PROVE  Lettered(c)
BY DEF Lettered, Letters, Packed, Interior

(* What was sent leaves nothing. *)
LEMMA CommitLettered ==
    ASSUME NEW c, Standing(c)
    PROVE  Lettered(Commit(c))
<1>1. CASE IsComposing(c)
  <2> DEFINE t == CommitText(c)
             d == Sink(c, t)
  <2>1. c.caret = Len(c.input) /\ ~Loose(c) => t = c.input
    BY CommitTextInFull
  <2> HIDE DEF t
  <2>2. IsContext(d) /\ d.active = c.active /\ SentInFull(d.sent)
    BY <2>1, SinkInFull
  <2>3. Commit(c) = Clear(d)
    BY <1>1 DEF Commit, t
  <2> HIDE DEF d
  <2> QED BY <2>3, <2>2, ClearRests, NothingLettered DEF Standing, Good
<1>2. CASE ~IsComposing(c)
  BY <1>2, NothingIsLettered DEF Commit, IsComposing
<1> QED BY <1>1, <1>2

LEMMA CommitScriptLettered ==
    ASSUME NEW c, Standing(c)
    PROVE  Lettered(CommitScriptText(c))
<1> DEFINE t == ScriptText(c)
           d == Sink(c, t)
<1>1. c.caret = Len(c.input) /\ ~Loose(c) => t = c.input
  BY ScriptTextInFull
<1> HIDE DEF t
<1>2. IsContext(d) /\ d.active = c.active /\ SentInFull(d.sent)
  BY <1>1, SinkInFull
<1>3. d.active \in Texts
  BY <1>2 DEF Standing, Good
<1>4. CommitScriptText(c) = Clear(d)
  BY DEF CommitScriptText, t
<1> HIDE DEF d
<1> QED BY <1>4, <1>2, <1>3, ClearRests, NothingLettered

LEMMA ForwardedLettered ==
    ASSUME NEW c, Standing(c), Letters(c.input), Interior(c.segs),
           c.segs # <<>> => Shut(Last(c.segs)) /\ (IsEmpty(Last(c.segs)) \/ Last(c.segs).status >= kSelected)
    PROVE  Lettered(Forwarded(c))
<1> DEFINE segs == c.segs
           r == Forward(segs)
<1>1. IsContext(c) /\ segs \in Seq(Segment)
  BY DEF Standing, Good, Whole
<1>2. Forwarded(c) = WithSegs(c, r)
  BY DEF Forwarded, WithSegs
<1>3. Interior(segs)
      /\ (segs # <<>> => Shut(Last(segs)) /\ (IsEmpty(Last(segs)) \/ Last(segs).status >= kSelected))
  OBVIOUS
<1> HIDE DEF segs
<1>4. Packed(r)
  BY <1>1, <1>3, PackedForward
<1> HIDE DEF r
<1> QED BY <1>2, <1>4, <1>1, WithSegsIs DEF Lettered

LEMMA OnClosedLettered ==
    ASSUME editor.auto_commit, NEW c, Standing(c), c.segs # <<>>, Lettered(c), Last(c.segs).status >= kSelected
    PROVE  Lettered(OnClosed(c))
<1> DEFINE seg == Last(c.segs)
<1>1. c.input \in Texts /\ c.caret \in 0..Len(c.input) /\ Len(c.input) \in Nat
      /\ Letters(c.input) /\ Packed(c.segs) /\ Interior(c.segs) /\ Shut(seg)
  BY TextIsSeq DEF Standing, Good, Lettered, Packed
<1>2. CASE seg.end = Len(c.input)
  <2> DEFINE x == [Last(c.segs) EXCEPT !.status = kConfirmed]
             d == WithLast(c, x)
  <2>1. Standing(d) /\ d.segs # <<>> /\ d.input = c.input
    BY LastMarked
  <2>2. OnClosed(c) = Commit(d)
    BY <1>2 DEF OnClosed, Confirmed
  <2> HIDE DEF x, d
  <2> QED BY <2>1, <2>2, CommitLettered
<1>3. CASE seg.end # Len(c.input)
  <2> DEFINE d == Forwarded(c)
             p == Len(c.input)
  <2>1. Standing(d) /\ d.input = c.input
    BY ForwardedStands
  <2>2. Lettered(d)
    BY <1>1, ForwardedLettered
  <2>3. OnClosed(c) = SetCaret(d, p) \/ OnClosed(c) = Compose(d)
    BY <1>3 DEF OnClosed
  <2> HIDE DEF d
  <2>4. Good(d, {}) /\ p \in 0..Len(d.input)
    BY <2>1, <1>1 DEF Standing
  <2> HIDE DEF p
  <2> QED BY <2>3, <2>2, <2>4, SetCaretLettered, ComposeLettered
<1> QED BY <1>2, <1>3

LEMMA OnSelectLettered ==
    ASSUME editor.auto_commit, NEW c, Standing(c), c.segs # <<>>, Letters(c.input), Interior(c.segs),
           Last(c.segs).status >= kSelected
    PROVE  Lettered(OnSelect(c))
<1> DEFINE seg == Last(c.segs)
           x == Close(seg)
           d == WithLast(c, x)
<1>1. x \in Segment /\ Standing(d) /\ d.segs # <<>>
  BY ClosedStands
<1>2. seg \in Segment /\ seg.start <= seg.end /\ Fitted(seg, c.active) /\ (IsEmpty(seg) => seg.menu = <<>>)
      /\ seg.end <= Len(c.active)
  BY LastSegment
<1>3. Shut(x) /\ x.start = seg.start /\ x.start <= x.end /\ x.end <= seg.end /\ x.status = seg.status
      /\ Fitted(x, c.active) /\ (IsEmpty(x) => x.menu = <<>>)
  <2>1. seg.status >= kSelected
    OBVIOUS
  <2> HIDE DEF seg
  <2> QED BY <1>2, <2>1, ClosedIsShut, ClosedFits
<1>4. OnSelect(c) = OnClosed(d) /\ seg = Last(c.segs) /\ seg.status >= kSelected
  BY DEF OnSelect
<1>5. x.end <= Len(c.active)
  <2>1. x.end \in Nat /\ seg.end \in Nat /\ Len(c.active) \in Nat
    <3> HIDE DEF x, seg
    <3> QED BY <1>1, <1>2, TextIsSeq DEF Segment, Standing, Good
  <2> HIDE DEF x, seg
  <2> QED BY <2>1, <1>2, <1>3
<1> HIDE DEF x, seg
<1>6. Packed(d.segs)
  BY <1>1, <1>3, WithLastPacked
<1>7. Last(d.segs) = x /\ d.input = c.input
  BY <1>1, <1>3, <1>4, <1>5, WithLastStands
<1> HIDE DEF d
<1> QED BY <1>1, <1>4, <1>3, <1>6, <1>7, OnClosedLettered DEF Lettered

LEMMA MarkedLettered ==
    ASSUME NEW c, Standing(c), Letters(c.input), Interior(c.segs)
    PROVE  /\ Letters(Marked(c).input) /\ Interior(Marked(c).segs)
           /\ ~CanConfirm(c) => Lettered(Marked(c))
<1>1. CASE c.segs = <<>>
  BY <1>1, MarkedStands DEF Lettered, Packed
<1>2. CASE c.segs # <<>>
  <2> DEFINE seg == Last(c.segs)
             x == [seg EXCEPT !.status = kSelected]
             d == WithLast(c, x)
  <2>1. Marked(c) = d
    BY <1>2 DEF Marked
  <2>2. d.input = c.input
    BY <1>2, LastMarked
  <2>3. seg \in Segment /\ seg = Last(c.segs)
    BY <1>2, LastSegment
  <2> HIDE DEF seg
  <2>4. /\ x \in Segment /\ x.start = seg.start /\ x.end = seg.end /\ x.menu = seg.menu
        /\ x.index = seg.index
    BY <2>3 DEF Segment
  <2> HIDE DEF x
  <2>5. Interior(d.segs) /\ (Shut(x) => Packed(d.segs))
    BY <2>4, <1>2, WithLastPacked
  <2>6. ~CanConfirm(c) => Shut(x)
    <3>1. x.end \in Nat
      BY <2>4 DEF Segment
    <3> QED BY <2>3, <1>2, <2>4, <3>1 DEF Shut, SegmentEnd, HasCandidate, Count, CanConfirm
  <2> HIDE DEF d
  <2> QED BY <2>1, <2>2, <2>5, <2>6, <1>2 DEF Lettered
<1> QED BY <1>1, <1>2

LEMMA ConfirmSelectionLettered ==
    ASSUME editor.auto_commit, NEW c, Standing(c), Letters(c.input), Interior(c.segs)
    PROVE  Lettered(ConfirmCurrentSelection(c))
<1> DEFINE m == Marked(c)
<1>1. /\ Standing(m)
      /\ c.segs # <<>> => m.segs # <<>> /\ Last(m.segs).status = kSelected
      /\ c.segs = <<>> => m = c
  BY MarkedStands
<1>2. Letters(m.input) /\ Interior(m.segs) /\ (~CanConfirm(c) => Lettered(m))
  BY MarkedLettered
<1>3. CASE CanConfirm(c)
  <2>1. ConfirmCurrentSelection(c) = OnSelect(m) /\ c.segs # <<>>
    BY <1>3 DEF ConfirmCurrentSelection, CanConfirm
  <2> HIDE DEF m
  <2> QED BY <2>1, <1>1, <1>2, OnSelectLettered
<1>4. CASE ~CanConfirm(c)
  BY <1>4, <1>2 DEF ConfirmCurrentSelection
<1> QED BY <1>3, <1>4

LEMMA SelectLettered ==
    ASSUME editor.auto_commit, NEW c, Resting(c), Lettered(c), NEW i \in Nat, CanSelect(c, i)
    PROVE  Lettered(Select(c, i))
<1> DEFINE x == [Last(c.segs) EXCEPT !.index = i, !.status = kSelected]
           d == WithLast(c, x)
<1>1. x \in Segment /\ x.status = kSelected /\ Standing(d) /\ d.segs # <<>> /\ Last(d.segs) = x
  BY SelectedStands
<1>2. Select(c, i) = OnSelect(d)
  BY DEF Select
<1>3. Standing(c) /\ IsContext(c) /\ c.segs # <<>> /\ Letters(c.input) /\ Interior(c.segs)
  BY DEF Resting, Standing, Good, CanSelect, Lettered, Packed
<1> HIDE DEF x
<1>4. Interior(d.segs)
  BY <1>1, <1>3, WithLastPacked
<1>5. d.input = c.input
  BY <1>3 DEF WithLast, IsContext
<1> HIDE DEF d
<1> QED BY <1>1, <1>2, <1>3, <1>4, <1>5, OnSelectLettered

LEMMA ConfirmLettered ==
    ASSUME editor.auto_commit, NEW c, Resting(c), Lettered(c)
    PROVE  Lettered(Confirm(c))
BY MarkedStands, ConfirmSelectionLettered, CommitLettered DEF Confirm, Resting, Lettered,
  Packed

LEMMA CommitCompositionLettered ==
    ASSUME editor.auto_commit, NEW c, Resting(c), Lettered(c)
    PROVE  Lettered(CommitComposition(c))
<1> DEFINE d == ConfirmCurrentSelection(c)
<1>1. Standing(d)
  BY ConfirmSelectionRests DEF Resting
<1>2. Lettered(d)
  BY ConfirmSelectionLettered DEF Resting, Lettered, Packed
<1> HIDE DEF d
<1>3. CommitComposition(c) \in {d, Commit(d)}
  BY DEF CommitComposition, CommitUnlessOpen, d
<1> QED BY <1>2, <1>1, CommitLettered, <1>3

LEMMA HighlightLettered ==
    ASSUME NEW c, Resting(c), Lettered(c), NEW i \in Nat, CanHighlight(c, i)
    PROVE  Lettered(Highlight(c, i))
<1> DEFINE seg == Last(c.segs)
           k == HighlightIndex(c, i)
           x == [seg EXCEPT !.index = k]
           d == WithLast(c, x)
<1>1. Standing(c) /\ LastIsOpen(c.segs) /\ c.segs # <<>> /\ c.active \in Texts
      /\ Letters(c.input) /\ Interior(c.segs)
  BY DEF Resting, CanHighlight, Standing, Good, Lettered, Packed
<1>2. /\ seg \in Segment /\ seg.start <= seg.end /\ seg.end <= Len(c.active)
      /\ IsEmpty(seg) => Count(seg) = 0 /\ seg.menu = <<>>
      /\ seg.status = kVoid => IsEmpty(seg)
      /\ seg.status = kGuess => seg.menu = Covered(c.active, seg)
  BY <1>1, LastSegment
<1>3. (seg.status >= kSelected => IsEmpty(seg)) /\ seg = Last(c.segs) /\ Highlight(c, i) = Compose(d)
  BY <1>1 DEF LastIsOpen, Highlight
<1>4. k \in Nat
  <2>1. CASE HasMenu(c)
    <3> DEFINE n == Count(seg) - 1
    <3>1. n \in Nat
      BY <2>1, <1>2, CandidateOf DEF HasMenu
    <3>2. k = Min({i, n})
      BY <2>1 DEF HighlightIndex
    <3> HIDE DEF n, k
    <3> QED BY <3>1, <3>2, MinOf
  <2>2. CASE ~HasMenu(c)
    BY <2>2 DEF HighlightIndex
  <2> QED BY <2>1, <2>2
<1> HIDE DEF seg, k
<1>5. /\ x \in Segment /\ x.start = seg.start /\ x.end = seg.end /\ x.menu = seg.menu
      /\ x.status = seg.status
  BY <1>2, <1>4 DEF Segment
<1> HIDE DEF x
<1>6. Covered(c.active, x) = Covered(c.active, seg) /\ (IsEmpty(x) <=> IsEmpty(seg))
  BY <1>5 DEF Covered, IsEmpty
<1>7. x.status >= kSelected => ~HasCandidate(x)
  <2> SUFFICES ASSUME x.status >= kSelected PROVE ~HasCandidate(x)
    OBVIOUS
  <2> QED BY <1>2, <1>3, <1>5, CandidateOf DEF HasCandidate, Segment
<1>8. Fitted(x, c.active) /\ Shut(x)
  BY <1>5, <1>2, <1>6, <1>7 DEF Fitted, Shut, SegmentEnd, Segment
<1>9. Standing(d) /\ d.input = c.input
  BY <1>1, <1>2, <1>3, <1>5, <1>6, <1>8, WithLastStands
<1>10. Packed(d.segs)
  BY <1>1, <1>5, <1>8, WithLastPacked
<1> HIDE DEF d
<1> QED BY <1>1, <1>3, <1>9, <1>10, ComposeLettered DEF Standing, Lettered

(* A choice taken back is no longer one. *)
LEMMA ReopenLastPacked ==
    ASSUME NEW c, Good(c, {}), c.caret <= Len(c.active), Lettered(c)
    PROVE  Lettered(ReopenLast(c))
<1>1. CASE c.segs = <<>>
  BY <1>1 DEF ReopenLast
<1>2. CASE c.segs # <<>>
  <2> DEFINE segs == c.segs
             text == c.active
             seg == Last(segs)
             x == Reopen(seg, c.caret)
             n == Len(text)
             r == Append(Front(segs), x)
  <2>1. /\ IsContext(c) /\ Whole(segs, text, {}) /\ segs \in Seq(Segment) /\ n \in Nat
        /\ c.caret \in Nat /\ c.caret <= n /\ Letters(c.input) /\ Interior(segs)
    BY TextIsSeq DEF Good, Whole, Lettered, Packed
  <2>2. /\ seg \in Segment /\ seg.start <= seg.end /\ seg.end <= n /\ (IsEmpty(seg) => seg.menu = <<>>)
    <3>1. Chained(segs, n) /\ segs # <<>>
      BY <2>1, <1>2 DEF Whole
    <3>2. Len(segs) \in DOMAIN segs /\ seg = segs[Len(segs)] /\ seg \in Segment
      BY <2>1, <3>1, Ends
    <3>3. CurrentEnd(segs) = seg.end
      BY <3>1 DEF CurrentEnd
    <3> HIDE DEF seg, n
    <3> QED BY <3>1, <3>2, <3>3 DEF Chained
  <2>3. x \in Segment /\ x.status < kSelected
    <3> HIDE DEF seg, n
    <3> QED BY <2>1, <2>2, ReopenedIs
  <2>4. ReopenLast(c) = WithSegs(c, r)
    BY <1>2 DEF ReopenLast, WithLast, WithSegs
  <2>5. segs # <<>>
    BY <1>2
  <2> HIDE DEF x, segs
  <2>6. Packed(r)
    BY <2>1, <2>3, <2>5, OpenIsShut, PackedReplaced
  <2> HIDE DEF r
  <2> QED BY <2>1, <2>4, <2>6, WithSegsIs DEF Lettered
<1> QED BY <1>1, <1>2

LEMMA ReopenedLettered ==
    ASSUME NEW d, Good(d, {}), d.caret <= Len(d.active), Lettered(d)
    PROVE  Lettered(Compose(ReopenLast(d)))
BY ReopenLastGood, ReopenLastPacked, ComposeLettered

LEMMA ReopenPreviousSegmentLettered ==
    ASSUME NEW c, Resting(c), Lettered(c)
    PROVE  Lettered(ReopenPreviousSegment(c))
<1> DEFINE r == Trim(c.segs)
           d == WithSegs(c, r)
<1>1. /\ Standing(c) /\ Good(c, {}) /\ IsContext(c) /\ Whole(c.segs, c.active, {}) /\ c.active \in Texts
      /\ c.segs \in Seq(Segment) /\ Letters(c.input) /\ Packed(c.segs)
  BY DEF Resting, Standing, Good, Whole, Lettered
<1>2. Whole(r, c.active, {})
  BY <1>1, TrimWhole
<1>3. Packed(r)
  BY <1>1, PackedTrim
<1>4. ReopenPreviousSegment(c) = Compose(ReopenLast(d))
  BY DEF ReopenPreviousSegment, WithSegs
<1> HIDE DEF r
<1>5. d.segs = r /\ d.active = c.active /\ d.caret = c.caret /\ d.input = c.input
  BY <1>1, WithSegsIs
<1>6. Good(d, {})
  BY <1>1, <1>2, WithSegsGood
<1> HIDE DEF d
<1> QED BY <1>4, <1>6, <1>1, <1>3, <1>5, CaretInActive, ReopenedLettered DEF Lettered

LEMMA PrefixLettered ==
    ASSUME NEW c, Standing(c), Lettered(c), NEW n \in 0..Len(c.segs)
    PROVE  Lettered(WithSegs(c, SubSeq(c.segs, 1, n)))
<1> DEFINE r == SubSeq(c.segs, 1, n)
           d == WithSegs(c, r)
<1>1. d.segs = r /\ d.input = c.input
  BY PrefixStands
<1>2. c.segs \in Seq(Segment) /\ Packed(c.segs) /\ Letters(c.input)
  BY DEF Standing, Good, Whole, Lettered
<1>3. Packed(r)
  BY <1>2, PackedPrefix
<1> HIDE DEF r, d
<1>4. Lettered(d)
  BY <1>1, <1>2, <1>3 DEF Lettered
<1> QED BY <1>4 DEF d, r

LEMMA ReopenPreviousSelectionLettered ==
    ASSUME NEW c, Resting(c), Lettered(c)
    PROVE  Lettered(ReopenPreviousSelection(c))
<1> DEFINE k == LastChosen(c)
           r == SubSeq(c.segs, 1, k)
           d == WithSegs(c, r)
<1>1. Standing(c) /\ c.segs \in Seq(Segment)
  BY DEF Resting, Standing, Good, Whole
<1>2. k \in 0..Len(c.segs)
  BY <1>1, LastChosenOf
<1>3. ReopenPreviousSelection(c) = Compose(ReopenLast(d))
  BY DEF ReopenPreviousSelection, WithSegs
<1> HIDE DEF k
<1>4. Standing(d) /\ Lettered(d)
  BY <1>1, <1>2, PrefixStands, PrefixLettered
<1> HIDE DEF d
<1> QED BY <1>3, <1>4, CaretInActive, ReopenedLettered DEF Standing

LEMMA PopThenReopenLettered ==
    ASSUME NEW c, Resting(c), Lettered(c), NEW n \in Nat
    PROVE  Lettered(PopThenReopen(c, n))
<1>1. CASE ~CanPop(c, n)
  BY <1>1 DEF PopThenReopen
<1>2. CASE CanPop(c, n)
  <2> DEFINE e == PopInput(c, n)
  <2>1. PopThenReopen(c, n) = ReopenIfEmpty(e)
    BY <1>2 DEF PopThenReopen
  <2>2. Resting(e) /\ Lettered(e)
    BY <1>2, PopRests, PopLettered DEF Resting, Standing
  <2> HIDE DEF e
  <2> QED BY <2>1, <2>2, ReopenPreviousSegmentLettered DEF ReopenIfEmpty
<1> QED BY <1>1, <1>2

LEMMA RevertLettered ==
    ASSUME NEW c, Resting(c), Lettered(c), NEW n \in Nat
    PROVE  Lettered(RevertLastEdit(c, n))
BY PopThenReopenLettered, ReopenPreviousSelectionLettered DEF RevertLastEdit

LEMMA BackLettered ==
    ASSUME NEW c, Resting(c), Lettered(c)
    PROVE  Lettered(BackToPreviousInput(c))
BY PopLettered, ReopenPreviousSegmentLettered, ReopenPreviousSelectionLettered DEF
  BackToPreviousInput, Resting, Standing

LEMMA ToggleLettered ==
    ASSUME editor.auto_commit, NEW c, Resting(c), Lettered(c)
    PROVE  Lettered(ToggleSelection(c))
BY ReopenPreviousSegmentLettered, ConfirmSelectionLettered DEF ToggleSelection, Resting,
  Lettered, Packed

LEMMA ClearNonConfirmedLettered ==
    ASSUME NEW c, Standing(c), Lettered(c)
    PROVE  Lettered(ClearNonConfirmed(c))
<1>1. CASE AllConfirmed(c)
  BY <1>1 DEF ClearNonConfirmed
<1>2. CASE ~AllConfirmed(c)
  <2> DEFINE k == LastChosen(c)
             r == SubSeq(c.segs, 1, k)
             d == WithSegs(c, r)
  <2>1. c.segs \in Seq(Segment)
    BY DEF Standing, Good, Whole
  <2>2. k \in 0..Len(c.segs) /\ (k # 0 => c.segs[k].status >= kSelected)
    BY <2>1, LastChosenOf
  <2>3. ClearNonConfirmed(c) = Forwarded(d)
    BY <1>2 DEF ClearNonConfirmed, WithSegs
  <2> HIDE DEF k
  <2>4. Standing(d) /\ Lettered(d) /\ d.segs = r
    BY <2>2, PrefixStands, PrefixLettered
  <2>5. d.segs # <<>> => Last(d.segs).status >= kSelected
    <3> DEFINE segs == c.segs
    <3>1. segs \in Seq(Segment) /\ k \in 0..Len(segs) /\ (k # 0 => segs[k].status >= kSelected)
      BY <2>1, <2>2
    <3> HIDE DEF segs
    <3> DEFINE q == SubSeq(segs, 1, k)
    <3>2. q \in Seq(Segment) /\ Len(q) = k /\ \A i \in 1..k : q[i] = segs[i]
      BY <3>1, Prefix
    <3> HIDE DEF q
    <3>3. q # <<>> => Last(q).status >= kSelected
      BY <3>1, <3>2, Ends
    <3> QED BY <3>3, <2>4 DEF segs, q
  <2> HIDE DEF d, r
  <2> QED BY <2>3, <2>4, <2>5, ForwardedLettered DEF Lettered, Packed
<1> QED BY <1>1, <1>2

LEMMA RefreshLettered ==
    ASSUME NEW c, Resting(c), Lettered(c)
    PROVE  Lettered(Refresh(c))
BY ClearNonConfirmedStands, ClearNonConfirmedLettered, ComposeLettered DEF Refresh,
  Standing, Resting

LEMMA CommitRawLettered ==
    ASSUME NEW c, Resting(c)
    PROVE  Lettered(CommitRawInput(c))
BY ClearNonConfirmedStands, CommitLettered DEF CommitRawInput, Resting

LEMMA DeleteCharLettered ==
    ASSUME NEW c, Resting(c), Lettered(c)
    PROVE  Lettered(DeleteChar(c))
BY DeleteLettered DEF DeleteChar, Resting, Standing

LEMMA ClearLettered ==
    ASSUME NEW c, IsContext(c), c.active \in Texts, SentInFull(c.sent)
    PROVE  Lettered(Clear(c))
BY ClearRests, NothingLettered

LEMMA CancelLettered ==
    ASSUME NEW c, Resting(c), Lettered(c)
    PROVE  Lettered(CancelComposition(c))
<1>1. IsContext(c) /\ c.active \in Texts /\ SentInFull(c.sent) /\ Standing(c) /\ Good(c, {})
      /\ c.input \in Texts /\ Len(c.input) \in Nat /\ Letters(c.input) /\ Packed(c.segs)
  BY TextIsSeq DEF Resting, Standing, Good, Lettered
<1>2. CASE CanClearSegment(c)
  <2> DEFINE k == Last(c.segs).start
             t == SubSeq(c.input, 1, k)
  <2>1. c.segs # <<>> /\ k < Len(c.input)
    BY <1>2 DEF CanClearSegment
  <2>2. k \in Nat
    BY <1>1, <2>1, LastSegment DEF Segment
  <2>3. CancelComposition(c) = SetInput(c, t)
    BY <1>2 DEF CancelComposition, ClearPreviousSegment
  <2> HIDE DEF k
  <2>4. t \in Texts /\ Letters(t)
    BY <1>1, <2>1, <2>2, PartIsText, LettersParts
  <2> HIDE DEF t
  <2> QED BY <1>1, <2>3, <2>4, SetInputLettered
<1>3. CASE ~CanClearSegment(c)
  BY <1>1, <1>3, ClearLettered DEF CancelComposition
<1> QED BY <1>2, <1>3

LEMMA BeginEditingLettered ==
    ASSUME NEW c, Resting(c), Lettered(c)
    PROVE  Lettered(BeginEditing(c))
<1>1. CASE ~ChosenOnly(c)
  BY <1>1 DEF BeginEditing
<1>2. CASE ChosenOnly(c)
  <2> DEFINE k == LastChosen(c)
             segs == c.segs
             tags == segs[k].tags \union {"selected_before_editing"}
             x == [segs[k] EXCEPT !.tags = tags]
             r == [segs EXCEPT ![k] = x]
             d == WithSegs(c, r)
  <2>1. BeginEditing(c) = d
    BY <1>2 DEF BeginEditing, WithSegs
  <2>2. IsContext(c) /\ segs \in Seq(Segment) /\ Letters(c.input) /\ Packed(segs)
    BY DEF Resting, Standing, Good, Whole, Lettered
  <2>3. Len(segs) \in Nat /\ DOMAIN segs = 1..Len(segs) /\ \A i \in 1..Len(segs) : segs[i] \in Segment
    BY <2>2, Ends
  <2>4. k \in 1..Len(segs)
    <3>1. k \in 0..Len(segs) /\ k # 0
      BY <1>2, <2>2, LastChosenOf DEF ChosenOnly
    <3> HIDE DEF k
    <3> QED BY <3>1, <2>3
  <2>5. tags \in SUBSET Tags
    BY <2>3, <2>4 DEF Segment, Tags
  <2> HIDE DEF d, tags, k, segs
  <2>6. /\ x \in Segment /\ x.start = segs[k].start /\ x.end = segs[k].end
        /\ x.status = segs[k].status /\ x.menu = segs[k].menu /\ x.index = segs[k].index
    BY <2>3, <2>4, <2>5, RetaggedIsSound
  <2> HIDE DEF x
  <2>7. DOMAIN r = 1..Len(segs) /\ \A i \in 1..Len(segs) : r[i] = IF i = k THEN x ELSE segs[i]
    BY <2>3
  <2>8. r \in [1..Len(segs) -> Segment] /\ r \in Seq(Segment) /\ Len(r) = Len(segs)
    <3>1. r \in [1..Len(segs) -> Segment]
      BY <2>3, <2>7, <2>6, Zenon
    <3> HIDE DEF r
    <3> QED BY <3>1, <2>3, SeqDef, LenProperties
  <2> HIDE DEF r
  <2>9. \A i \in 1..Len(r) : Shut(r[i]) /\ (i # Len(r) => r[i].status >= kSelected)
    <3> SUFFICES ASSUME NEW i \in 1..Len(segs)
                 PROVE  Shut(r[i]) /\ (i # Len(segs) => r[i].status >= kSelected)
      BY <2>8, Zenon
    <3>1. CASE i = k
      BY <2>6, <2>7, <3>1, <2>2, PackedAt, SMTT(30) DEF Shut, SegmentEnd, HasCandidate, CandidateEnd,
        CandidateLength, Count
    <3>2. CASE i # k
      BY <2>7, <3>2, <2>2, PackedAt, SMTT(30)
    <3> QED BY <3>1, <3>2
  <2>10. Packed(r)
    BY <2>8, <2>9, PackedFrom, ZenonT(30)
  <2> QED BY <2>1, <2>2, <2>10, WithSegsIs DEF Lettered, d
<1> QED BY <1>1, <1>2

LEMMA MoveLettered ==
    ASSUME NEW c, Resting(c), Lettered(c), NEW p \in Nat, p <= Len(c.input)
    PROVE  LET d == BeginEditing(c)
           IN  Lettered(IF p = d.caret THEN d ELSE SetCaret(d, p))
<1> DEFINE d == BeginEditing(c)
<1>1. Resting(d) /\ d.input = c.input /\ Lettered(d)
  BY BeginEditingIs, BeginEditingLettered
<1> HIDE DEF d
<1>2. Good(d, {}) /\ Len(d.input) \in Nat /\ p \in 0..Len(d.input)
  BY <1>1, TextIsSeq DEF Resting, Standing, Good
<1> QED BY <1>1, <1>2, SetCaretLettered DEF d

------------------------------------------------------------------------------
(* What was sent, and what is left: parts of a text that lie end to end,   *)
(* and the rest of it.                                                     *)

Parted(sent, rest, w) ==
    \E e \in [0..Len(sent) -> 0..Len(w)] :
        /\ e[0] = 0
        /\ \A i \in 1..Len(sent) : e[i - 1] <= e[i] /\ sent[i].text = SubSeq(w, e[i - 1] + 1, e[i])
        /\ rest = After(w, e[Len(sent)])

LEMMA AfterNone ==
    ASSUME NEW w \in Texts
    PROVE  After(w, 0) = w
BY TextIsSeq, SubSeqAll DEF After

LEMMA PartOfAfter ==
    ASSUME NEW w \in Texts, NEW m \in 0..Len(w), NEW a \in Nat \ {0}, NEW b \in Int, b <= Len(w) - m
    PROVE  SubSeq(After(w, m), a, b) = SubSeq(w, m + a, m + b)
<1> DEFINE r == After(w, m)
           l == Len(w)
           p == m + a
           q == m + b
<1>1. w \in Seq(Keys) /\ l \in Nat /\ m \in Nat /\ m <= l
  BY TextIsSeq
<1>2. r \in Seq(Keys) /\ Len(r) = l - m
  BY <1>1, AfterIsText, TextIsSeq
<1>3. \A i \in 1..l - m : r[i] = w[m + i]
  <2>1. \A i \in 1..l - (m + 1) + 1 : SubSeq(w, m + 1, l)[i] = w[m + 1 + i - 1]
    BY <1>1, Part
  <2>2. r = SubSeq(w, m + 1, l)
    BY DEF After
  <2> HIDE DEF l
  <2> QED BY <2>1, <1>1, <2>2
<1> HIDE DEF r
<1>4. /\ SubSeq(r, a, b) \in Seq(Keys)
      /\ Len(SubSeq(r, a, b)) = IF a <= b THEN b - a + 1 ELSE 0
      /\ \A i \in 1..b - a + 1 : SubSeq(r, a, b)[i] = r[a + i - 1]
  BY <1>1, <1>2, Part
<1>5. p \in Nat \ {0} /\ q \in Int /\ q <= Len(w) /\ q - p = b - a /\ (p <= q <=> a <= b)
  BY <1>1
<1>6. /\ SubSeq(w, p, q) \in Seq(Keys)
      /\ Len(SubSeq(w, p, q)) = IF p <= q THEN q - p + 1 ELSE 0
      /\ \A i \in 1..q - p + 1 : SubSeq(w, p, q)[i] = w[p + i - 1]
  BY <1>1, <1>5, Part
<1>7. Len(SubSeq(w, p, q)) = Len(SubSeq(r, a, b))
  BY <1>4, <1>5, <1>6
<1>8. ASSUME NEW i \in 1..b - a + 1 PROVE SubSeq(r, a, b)[i] = SubSeq(w, p, q)[i]
  <2>1. a + i - 1 \in 1..l - m /\ m + (a + i - 1) = p + i - 1
    BY <1>1
  <2>2. i \in 1..q - p + 1
    BY <1>5
  <2> QED BY <2>1, <1>3, <2>2, <1>4, <1>6
<1>9. \A i \in 1..Len(SubSeq(r, a, b)) : i \in 1..b - a + 1
  BY <1>4
<1>10. SubSeq(r, a, b) = SubSeq(w, p, q)
  BY <1>4, <1>6, <1>7, <1>8, <1>9, SeqEqual
<1> QED BY <1>10 DEF r, p, q

LEMMA AfterAfter ==
    ASSUME NEW w \in Texts, NEW m \in 0..Len(w), NEW k \in 0..Len(After(w, m))
    PROVE  /\ m + k \in 0..Len(w)
           /\ After(After(w, m), k) = After(w, m + k)
           /\ SubSeq(After(w, m), 1, k) = SubSeq(w, m + 1, m + k)
<1> DEFINE l == Len(w)
           n == l - m
           a == k + 1
<1>1. l \in Nat /\ m \in Nat /\ m <= l
  BY TextIsSeq
<1>2. Len(After(w, m)) = n
  BY <1>1, AfterIsText
<1>3. k \in Nat /\ k <= n /\ n \in Int /\ a \in Nat \ {0} /\ 1 \in Nat \ {0} /\ k \in Int
  BY <1>1, <1>2
<1>4. m + k \in 0..l
  BY <1>1, <1>3
<1>5. SubSeq(After(w, m), a, n) = SubSeq(w, m + a, m + n)
  <2>1. n <= Len(w) - m /\ n \in Int /\ a \in Nat \ {0}
    BY <1>1, <1>3
  <2> HIDE DEF a, n
  <2> QED BY <2>1, PartOfAfter
<1>6. SubSeq(After(w, m), 1, k) = SubSeq(w, m + 1, m + k)
  BY <1>3, PartOfAfter
<1>7. m + a = m + k + 1 /\ m + n = l
  BY <1>1, <1>3
<1> HIDE DEF a, n
<1>8. After(w, m + k) = SubSeq(w, m + k + 1, l)
  BY DEF After
<1> QED BY <1>4, <1>5, <1>6, <1>2, <1>7, <1>8 DEF After

LEMMA PartedNothing ==
    ASSUME NEW w \in Texts
    PROVE  Parted(<<>>, w, w)
<1> DEFINE e == [i \in 0..0 |-> 0]
<1>1. Len(<<>>) = 0
  OBVIOUS
<1>2. e \in [0..0 -> 0..Len(w)] /\ e[0] = 0
  BY TextIsSeq
<1> HIDE DEF e
<1> QED BY <1>1, <1>2, AfterNone DEF Parted

LEMMA PartedMore ==
    ASSUME NEW w \in Texts, NEW S, NEW sent \in Seq(S), NEW rest, Parted(sent, rest, w),
           NEW k \in 0..Len(rest), NEW x, x.text = SubSeq(rest, 1, k)
    PROVE  Parted(Append(sent, x), After(rest, k), w)
<1> DEFINE n == Len(sent)
           l == Len(w)
           a == Append(sent, x)
<1>1. PICK e \in [0..n -> 0..l] :
         /\ e[0] = 0
         /\ \A i \in 1..n : e[i - 1] <= e[i] /\ sent[i].text = SubSeq(w, e[i - 1] + 1, e[i])
         /\ rest = After(w, e[n])
  BY DEF Parted
<1>2. n \in Nat /\ l \in Nat
  BY TextIsSeq, Ends
<1> DEFINE m == e[n]
           f == [i \in 0..n + 1 |-> IF i = n + 1 THEN m + k ELSE e[i]]
<1>3. m \in 0..l
  BY <1>1, <1>2
<1>4. m + k \in 0..l /\ After(rest, k) = After(w, m + k) /\ SubSeq(rest, 1, k) = SubSeq(w, m + 1, m + k)
  <2> HIDE DEF m
  <2> QED BY <1>1, <1>3, AfterAfter DEF m
<1>5. Len(a) = n + 1 /\ a[n + 1] = x /\ \A i \in 1..n : a[i] = sent[i]
  BY <1>2
<1> HIDE DEF n, l, a
<1>6. f \in [0..n + 1 -> 0..l] /\ f[0] = 0 /\ f[n + 1] = m + k /\ \A i \in 0..n : f[i] = e[i]
  <2> HIDE DEF m
  <2> QED BY <1>2, <1>1, <1>4
<1> HIDE DEF f
<1>7. ASSUME NEW i \in 1..n + 1
      PROVE  f[i - 1] <= f[i] /\ a[i].text = SubSeq(w, f[i - 1] + 1, f[i])
  <2>1. CASE i = n + 1
    <3>1. i - 1 = n /\ n \in 0..n
      BY <2>1, <1>2
    <3>2. f[i - 1] = m /\ f[i] = m + k /\ a[i].text = SubSeq(rest, 1, k)
      BY <2>1, <3>1, <1>5, <1>6
    <3>3. m <= m + k
      <4>1. m \in Nat /\ m + k \in Nat /\ k >= 0
        <5> HIDE DEF m
        <5> QED BY <1>2, <1>3
      <4> HIDE DEF m
      <4> QED BY <4>1
    <3> HIDE DEF m
    <3> QED BY <3>2, <3>3, <1>4
  <2>2. CASE i # n + 1
    <3>1. i \in 1..n /\ i \in 0..n /\ i - 1 \in 0..n
      BY <2>2, <1>2
    <3> QED BY <3>1, <1>5, <1>6, <1>1
  <2> QED BY <2>1, <2>2
<1>8. Parted(a, After(rest, k), w)
  BY <1>5, <1>6, <1>7, <1>4 DEF Parted, l
<1> QED BY <1>8 DEF a

LEMMA PartedJoins ==
    ASSUME NEW w \in Texts, NEW S, NEW sent \in Seq(S), NEW rest, Parted(sent, rest, w)
    PROVE  Concat([i \in DOMAIN sent |-> sent[i].text]) \o rest = w
<1> DEFINE n == Len(sent)
           p == [i \in DOMAIN sent |-> sent[i].text]
<1>1. PICK e \in [0..n -> 0..Len(w)] :
         /\ e[0] = 0
         /\ \A i \in 1..n : e[i - 1] <= e[i] /\ sent[i].text = SubSeq(w, e[i - 1] + 1, e[i])
         /\ rest = After(w, e[n])
  BY DEF Parted
<1>2. n \in Nat /\ DOMAIN sent = 1..n /\ w \in Seq(Keys) /\ Len(w) \in Nat
  BY TextIsSeq, Ends
<1> HIDE DEF n
<1>3. ASSUME NEW i \in 1..n PROVE p[i] = SubSeq(w, e[i - 1] + 1, e[i]) /\ p[i] \in Seq(Keys)
  <2>1. p[i] = sent[i].text
    BY <1>2
  <2> DEFINE a == e[i - 1] + 1
             b == e[i]
  <2>2. i - 1 \in 0..n /\ i \in 0..n
    BY <1>2
  <2>3. a \in Nat \ {0} /\ b \in Int /\ b <= Len(w)
    BY <2>2, <1>1, <1>2, SMTT(30)
  <2>4. SubSeq(w, a, b) \in Seq(Keys)
    <3> HIDE DEF a, b
    <3> QED BY <2>3, <1>2, Part
  <2> QED BY <2>1, <2>4, <1>1
<1>4. p \in Seq(Seq(Keys)) /\ Len(p) = n
  <2>1. p \in [1..n -> Seq(Keys)]
    <3>1. p = [i \in 1..n |-> p[i]]
      BY <1>2
    <3> HIDE DEF p
    <3> QED BY <3>1, <1>3
  <2> HIDE DEF p
  <2> QED BY <2>1, <1>2, SeqDef, LenProperties
<1> HIDE DEF p
<1> DEFINE k == e[n]
           m == Len(w)
<1>5. Concat(p) = SubSeq(w, 1, k)
  BY <1>1, <1>3, <1>4, <1>2, FlattenOf
<1>6. k \in 0..m /\ m \in 0..Len(w)
  BY <1>1, <1>2
<1>7. rest = SubSeq(w, k + 1, m)
  BY <1>1 DEF After
<1> HIDE DEF k, m
<1>8. SubSeq(w, 1, m) = w
  BY <1>2, SubSeqAll DEF m
<1> QED BY <1>5, <1>7, <1>2, <1>6, Joined, <1>8 DEF p
------------------------------------------------------------------------------
(* A commit sends a part of the text and leaves the rest of it.            *)

Untouched(c, d) == d.sent = c.sent /\ d.input = c.input

(* A segment shut is never loose. *)
LEMMA InteriorIsNotLoose ==
    ASSUME NEW c, Standing(c), Interior(c.segs)
    PROVE  ~Loose(c)
BY DEF Loose, Interior, Shut

LEMMA SentIsSeq ==
    ASSUME NEW c, Standing(c)
    PROVE  \E S : c.sent \in Seq(S)
BY DEF Standing, Good, SentInFull

(* What a commit sends is the beginning of the text that is left, as far   *)
(* as it was composed; nothing is left of the input.                       *)
LEMMA CommitSent ==
    ASSUME NEW c, Standing(c), Interior(c.segs), IsComposing(c)
    PROVE  LET x == [typed |-> c.input, caret |-> c.caret, loose |-> Loose(c), text |-> CommitText(c)]
           IN  /\ Commit(c).sent = Append(c.sent, x) /\ x.text = c.active
               /\ Commit(c).input = <<>>
<1> DEFINE t == CommitText(c)
           x == [typed |-> c.input, caret |-> c.caret, loose |-> Loose(c), text |-> t]
           d == Sink(c, t)
<1>1. t = c.active
  BY InteriorIsNotLoose, CommitTextIsActive
<1>2. c.caret = Len(c.input) /\ ~Loose(c) => t = c.input
  BY CommitTextInFull
<1>3. Commit(c) = Clear(d) /\ t = CommitText(c)
  BY DEF Commit
<1> HIDE DEF t
<1>4. IsContext(d) /\ d.active = c.active /\ SentInFull(d.sent)
  BY <1>2, SinkInFull
<1>5. d.active \in Texts
  BY <1>4 DEF Standing, Good
<1>6. d.sent = Append(c.sent, x)
  <2>1. d = [c EXCEPT !.sent = Append(@, x)]
    BY DEF Sink
  <2> HIDE DEF x, d
  <2> QED BY <2>1 DEF IsContext, Standing, Good
<1>7. x.text = t
  OBVIOUS
<1> HIDE DEF d
<1> HIDE DEF x
<1> QED BY <1>1, <1>3, <1>6, <1>7, <1>4, <1>5, ClearRests DEF x, t

LEMMA CommitParts ==
    ASSUME NEW w \in Texts, NEW c, Standing(c), Interior(c.segs), IsComposing(c),
           NEW rest, Parted(c.sent, rest, w), NEW k \in 0..Len(rest), c.active = SubSeq(rest, 1, k)
    PROVE  Parted(Commit(c).sent, After(rest, k), w) /\ Commit(c).input = <<>>
<1> DEFINE x == [typed |-> c.input, caret |-> c.caret, loose |-> Loose(c), text |-> CommitText(c)]
<1>1. /\ Commit(c).sent = Append(c.sent, x) /\ x.text = c.active
      /\ Commit(c).input = <<>>
  BY CommitSent
<1> HIDE DEF x
<1>2. PICK S : c.sent \in Seq(S)
  BY SentIsSeq
<1> QED BY <1>1, <1>2, PartedMore

(* A last segment that ends with the input ends all there is.              *)
LEMMA EndsWithInput ==
    ASSUME NEW c, Standing(c), c.segs # <<>>, Last(c.segs).end = Len(c.input)
    PROVE  c.active = c.input
<1>1. /\ c.input \in Texts /\ c.caret \in 0..Len(c.input)
      /\ c.active \in {c.input, SubSeq(c.input, 1, c.caret)}
  BY DEF Standing, Good, Follows
<1>2. c.input \in Seq(Keys) /\ Len(c.input) \in Nat
  BY <1>1, TextIsSeq
<1>3. CASE c.active = SubSeq(c.input, 1, c.caret)
  <2>1. c.caret = Len(c.input)
    BY <1>1, <1>2, Prefix, <1>3, LastSegment
  <2> QED BY <2>1, ActiveIsInput
<1> QED BY <1>1, <1>3

LEMMA OnClosedParts ==
    ASSUME NEW w \in Texts, NEW c, Standing(c), c.segs # <<>>, editor.auto_commit => Interior(c.segs)
    PROVE  /\ Parted(c.sent, c.input, w) => Parted(OnClosed(c).sent, OnClosed(c).input, w)
           /\ ~editor.auto_commit \/ Last(c.segs).end # Len(c.input) => Untouched(c, OnClosed(c))
<1> DEFINE seg == Last(c.segs)
           x == [Last(c.segs) EXCEPT !.status = kConfirmed]
           conf == WithLast(c, x)
           n == Len(c.input)
<1>1. /\ Standing(conf) /\ conf.segs # <<>> /\ Last(conf.segs).end = seg.end
      /\ conf.input = c.input /\ conf.active = c.active /\ conf.sent = c.sent
  <2>1. /\ Standing(WithLast(c, x)) /\ WithLast(c, x).segs # <<>> /\ Last(WithLast(c, x).segs) = x
        /\ x.end = Last(c.segs).end
        /\ WithLast(c, x).input = c.input /\ WithLast(c, x).active = c.active /\ WithLast(c, x).sent = c.sent
    BY LastMarked
  <2> HIDE DEF x, conf
  <2> QED BY <2>1 DEF conf
<1>2. c.input \in Texts /\ n \in Nat /\ n = Len(c.input) /\ c.input \in Seq(Keys)
  BY TextIsSeq DEF Standing, Good
<1>3. CASE seg.end = Len(c.input) /\ editor.auto_commit
  <2>1. OnClosed(c) = Commit(conf)
    BY <1>3 DEF OnClosed, Confirmed
  <2>2. x \in Segment
    <3>1. Last(conf.segs) = x
      BY LastMarked
    <3> HIDE DEF x, conf
    <3> QED BY <1>1, <3>1, LastSegment
  <2>3. Interior(conf.segs)
    <3> HIDE DEF x
    <3> QED BY <2>2, <1>3, WithLastPacked
  <2> HIDE DEF conf, n
  <2>4. ASSUME Parted(c.sent, c.input, w)
        PROVE  Parted(Commit(conf).sent, Commit(conf).input, w)
    <3> DEFINE rest == c.input
    <3>1. Parted(conf.sent, rest, w) /\ n \in 0..Len(rest) /\ rest \in Texts
      BY <1>1, <1>2, <2>4
    <3>2. conf.active = SubSeq(rest, 1, n)
      BY <1>1, <1>2, <1>3, EndsWithInput, SubSeqAll
    <3>3. After(rest, n) = <<>>
      <4>1. rest \in Texts /\ n <= Len(rest) /\ Len(rest) = n
        BY <1>2
      <4> HIDE DEF rest
      <4>2. After(rest, n) \in Texts /\ Len(After(rest, n)) = n - n
        BY <4>1, <1>2, AfterIsText, ZenonT(30)
      <4>3. After(rest, n) \in Seq(Keys) /\ Len(After(rest, n)) = 0
        BY <4>2, <1>2, TextIsSeq
      <4> QED BY <4>3, EmptySeq
    <3> HIDE DEF rest
    <3>4. IsComposing(conf)
      BY <1>1 DEF IsComposing
    <3> QED BY <3>3, <1>1, <2>3, <3>1, <3>2, <3>4, CommitParts
  <2> QED BY <2>1, <2>4, <1>3
<1>4. CASE seg.end = Len(c.input) /\ ~editor.auto_commit
  <2>1. OnClosed(c) = Forwarded(conf)
    BY <1>4 DEF OnClosed, Confirmed
  <2> HIDE DEF conf
  <2> QED BY <1>1, <2>1 DEF Untouched, Forwarded, Standing, Good, IsContext
<1>5. CASE seg.end # Len(c.input)
  <2> DEFINE d == Forwarded(c)
  <2>1. Standing(d) /\ d.input = c.input /\ d.sent = c.sent
    BY ForwardedStands DEF Forwarded, Standing, Good, IsContext
  <2>2. OnClosed(c) = SetCaret(d, n) \/ OnClosed(c) = Compose(d)
    BY <1>5 DEF OnClosed
  <2>3. Good(d, {}) /\ n \in 0..Len(d.input)
    <3> HIDE DEF d
    <3> QED BY <2>1, <1>2 DEF Standing
  <2> HIDE DEF d, n
  <2>4. OnClosed(c).sent = c.sent /\ OnClosed(c).input = c.input
    BY <2>1, <2>2, <2>3, SetCaretRests, ComposeGood
  <2> QED BY <2>4 DEF Untouched
<1> QED BY <1>3, <1>4, <1>5

LEMMA OnSelectParts ==
    ASSUME NEW w \in Texts, NEW c, Standing(c), c.segs # <<>>, Last(c.segs).status >= kSelected,
           editor.auto_commit => Interior(c.segs)
    PROVE  /\ Parted(c.sent, c.input, w) => Parted(OnSelect(c).sent, OnSelect(c).input, w)
           /\ ~editor.auto_commit \/ Close(Last(c.segs)).end # Len(c.input) => Untouched(c, OnSelect(c))
<1> DEFINE seg == Last(c.segs)
           x == Close(seg)
           d == WithLast(c, x)
<1>1. x \in Segment /\ Standing(d) /\ d.segs # <<>>
  BY ClosedStands
<1>2. OnSelect(c) = OnClosed(d)
  BY DEF OnSelect
<1>3. d.input = c.input /\ d.sent = c.sent /\ d.segs = Append(Front(c.segs), x)
  BY DEF WithLast, Standing, Good, IsContext
<1>4. Last(d.segs) = x
  <2> HIDE DEF x, d
  <2> QED BY <1>1, <1>3, LastReplaced DEF Standing, Good, Whole
<1>5. editor.auto_commit => Interior(d.segs)
  <2> HIDE DEF x
  <2> QED BY <1>1, WithLastPacked
<1>6. x = Close(Last(c.segs))
  OBVIOUS
<1> HIDE DEF x, d
<1>7. /\ Parted(d.sent, d.input, w) => Parted(OnClosed(d).sent, OnClosed(d).input, w)
      /\ ~editor.auto_commit \/ Last(d.segs).end # Len(d.input) => Untouched(d, OnClosed(d))
  BY <1>1, <1>5, OnClosedParts
<1> QED BY <1>2, <1>3, <1>4, <1>6, <1>7 DEF Untouched

(* Confirming the last segment sends nothing but what is at the end of the *)
(* input, and that only under automatic commit.                            *)
LEMMA ConfirmSelectionParts ==
    ASSUME NEW w \in Texts, NEW c, Standing(c), editor.auto_commit => Letters(c.input) /\ Interior(c.segs)
    PROVE  /\ Parted(c.sent, c.input, w) =>
                Parted(ConfirmCurrentSelection(c).sent, ConfirmCurrentSelection(c).input, w)
           /\ ~editor.auto_commit => Untouched(c, ConfirmCurrentSelection(c))
<1> DEFINE m == Marked(c)
<1>1. /\ Standing(m) /\ m.input = c.input
      /\ c.segs # <<>> => m.segs # <<>> /\ Last(m.segs).status = kSelected
      /\ c.segs = <<>> => m = c
  BY MarkedStands
<1>2. editor.auto_commit => Interior(m.segs)
  BY MarkedLettered
<1>3. m.sent = c.sent
  BY DEF Marked, WithLast, Standing, Good, IsContext
<1>4. CASE CanConfirm(c)
  <2>1. ConfirmCurrentSelection(c) = OnSelect(m) /\ c.segs # <<>>
    BY <1>4 DEF ConfirmCurrentSelection, CanConfirm
  <2> HIDE DEF m
  <2> QED BY <2>1, <1>1, <1>2, OnSelectParts, <1>3 DEF Untouched
<1>5. CASE ~CanConfirm(c)
  BY <1>5, <1>1, <1>3 DEF Untouched, ConfirmCurrentSelection
<1> QED BY <1>4, <1>5

------------------------------------------------------------------------------
(* The search divides the text: what it has sent, and what it searches.    *)

Dividing(s, w) ==
    /\ SearchOK(s) /\ (editor.auto_commit => Lettered(s.c) /\ Letters(s.input))
    /\ Parted(s.c.sent, IF s.done THEN s.c.input ELSE s.input, w)

LEMMA SearchDivides ==
    ASSUME NEW w, NEW c, Resting(c), NEW start \in Nat, NEW end \in Nat, end <= Len(c.input) + 1,
           editor.auto_commit => Lettered(c), Parted(c.sent, c.input, w)
    PROVE  Dividing(Search(c, start, end), w)
<1> DEFINE s == Search(c, start, end)
<1>1. SearchOK(s)
  BY SearchBegins
<1> HIDE DEF s
<1> QED BY <1>1 DEF Dividing, s, Lettered, Search

LEMMA DoneDivides ==
    ASSUME NEW w, NEW s, SearchOK(s), NEW c, Resting(c),
           editor.auto_commit => Lettered(c) /\ Letters(s.input), Parted(c.sent, c.input, w)
    PROVE  Dividing(Done(s, c), w)
<1> DEFINE d == Done(s, c)
<1> HIDE DEF d
<1> QED BY DoneOK DEF Dividing, d, Done, SearchOK

LEMMA CurrentEndIn ==
    ASSUME NEW c, Resting(c)
    PROVE  CurrentEnd(c.segs) \in Nat /\ CurrentEnd(c.segs) <= Len(c.input) + 1
<1> DEFINE e == CurrentEnd(c.segs)
<1>1. /\ c.segs \in Seq(Segment) /\ e <= Len(c.active) /\ c.input \in Texts
      /\ c.caret \in 0..Len(c.input) /\ c.active \in {c.input, SubSeq(c.input, 1, c.caret)}
  BY DEF Resting, Standing, Good, Whole, Chained, Follows
<1>2. e \in Nat
  BY <1>1, EndOf
<1> HIDE DEF e
<1> QED BY <1>1, TextIsSeq, Prefix, <1>2 DEF e

LEMMA AgainDivides ==
    ASSUME NEW w, NEW s, SearchOK(s), NEW c, Resting(c), NEW start \in Nat,
           editor.auto_commit => Lettered(c) /\ Letters(s.input), Parted(c.sent, c.input, w)
    PROVE  Dividing(Again(s, c, start), w)
<1> DEFINE e == CurrentEnd(c.segs)
<1>1. Dividing(Done(s, c), w)
  BY DoneDivides
<1>2. e \in Nat /\ e <= Len(c.input) + 1
  BY CurrentEndIn
<1>3. Again(s, c, start) \in {Search(c, start, e), Done(s, c)}
  BY DEF Again
<1> HIDE DEF e
<1> QED BY <1>1, <1>3, <1>2, SearchDivides

LEMMA TriedDivides ==
    ASSUME NEW w \in Texts, NEW s, Dividing(s, w), ~s.done, s.end \in Nat, NEW c, Resting(c),
           c.input = SubSeq(s.input, 1, s.end), c.caret = Len(c.input), c.sent = s.c.sent,
           editor.auto_commit => Lettered(c)
    PROVE  Dividing(Tried(s, c), w)
<1>1. /\ Good(c, {}) /\ Standing(c) /\ s.input \in Texts /\ SearchOK(s)
      /\ s.end \in 0..Len(s.input) /\ Len(s.input) \in Nat
      /\ editor.auto_commit => Letters(s.input) /\ Packed(c.segs) /\ Interior(c.segs) /\ Letters(c.input)
      /\ Parted(c.sent, s.input, w)
  BY TextIsSeq DEF Resting, Standing, SearchOK, Dividing, Lettered, Packed
<1> DEFINE d1 == SetInput(c, s.input)
           d2 == SetInput(Commit(c), After(s.input, s.end))
           d3 == SetInput(ConfirmCurrentSelection(c), s.input)
           e == [s EXCEPT !.c = c, !.end = @ - 1]
<1>2. CASE ~HasMenu(c)
  <2>1. Resting(d1) /\ d1.input = s.input /\ d1.sent = c.sent
    BY <1>1, SetInputRests
  <2>2. editor.auto_commit => Lettered(d1)
    BY <1>1, SetInputLettered
  <2>3. Tried(s, c) = Done(s, d1)
    BY <1>2 DEF Tried
  <2> HIDE DEF d1
  <2> QED BY <2>1, <2>2, <2>3, <1>1, DoneDivides
<1>3. CASE HasMenu(c) /\ ~Selectable(Last(c.segs), s.end)
  <2> DEFINE k == s.end - 1
  <2>1. Tried(s, c) = e
    BY <1>3 DEF Tried
  <2>2. e = [s EXCEPT !.c = c, !.end = k]
    OBVIOUS
  <2>3. k \in Int /\ k <= Len(s.input) /\ s.start \in Nat
    BY <1>1 DEF SearchOK
  <2> HIDE DEF k, e
  <2>4. /\ e = [c |-> e.c, input |-> e.input, start |-> e.start, end |-> e.end, done |-> e.done]
        /\ e.c = c /\ e.input = s.input /\ e.start = s.start /\ e.end = k /\ e.done = s.done
    BY <1>1, <2>2 DEF SearchOK
  <2>5. Dividing(e, w)
    BY <2>4, <2>3, <1>1 DEF Dividing, SearchOK
  <2> QED BY <2>1, <2>5
<1>4. CASE HasMenu(c) /\ Selectable(Last(c.segs), s.end) /\ editor.auto_commit
  <2> DEFINE m == Commit(c)
             rest == s.input
             k == s.end
             t == After(rest, k)
  <2>1. Resting(m) /\ Lettered(m)
    BY <1>1, CommitRests, CommitLettered
  <2>2. c.active = SubSeq(rest, 1, k)
    BY <1>1, ActiveIsInput
  <2>3. rest \in Texts /\ k \in 0..Len(rest) /\ k \in Nat /\ Parted(c.sent, rest, w) /\ Letters(rest)
    BY <1>1, <1>4
  <2>4. t \in Texts
    <3> HIDE DEF rest, k
    <3> QED BY <2>3, AfterIsText
  <2>5. Letters(t)
    <3> HIDE DEF rest, k
    <3> QED BY <2>3, LettersParts
  <2>6. Tried(s, c) = Again(s, d2, 0)
    BY <1>4 DEF Tried
  <2>7. d2 = SetInput(m, t)
    OBVIOUS
  <2> HIDE DEF rest, k
  <2>8. Parted(m.sent, t, w)
    BY <1>4, <2>2, <2>3, <1>1, CommitParts DEF HasMenu, IsComposing
  <2> HIDE DEF m, t, d2
  <2>9. Good(m, {}) /\ Packed(m.segs)
    BY <2>1 DEF Resting, Standing, Lettered
  <2>10. Resting(d2) /\ d2.input = t /\ d2.sent = m.sent
    BY <2>4, <2>7, <2>9, SetInputRests
  <2>11. Lettered(d2)
    BY <1>4, <2>4, <2>5, <2>7, <2>9, SetInputLettered
  <2> QED BY <2>6, <2>8, <2>10, <2>11, <1>1, <1>4, AgainDivides
<1>5. CASE HasMenu(c) /\ Selectable(Last(c.segs), s.end) /\ ~editor.auto_commit
  <2> DEFINE m == ConfirmCurrentSelection(c)
             t == s.input
             k == s.end
  <2>1. Resting(m) /\ m.sent = c.sent
    BY <1>1, <1>5, ConfirmSelectionRests, ConfirmSelectionParts DEF Untouched
  <2>2. Tried(s, c) = Again(s, d3, k) /\ d3 = SetInput(m, t) /\ k \in Nat /\ t \in Texts
    BY <1>1, <1>5 DEF Tried
  <2>3. Parted(m.sent, t, w)
    BY <2>1, <1>1
  <2> HIDE DEF m, t, k, d3
  <2>4. Resting(d3) /\ d3.input = t /\ d3.sent = m.sent
    BY <2>1, <2>2, SetInputRests DEF Resting, Standing
  <2> QED BY <2>2, <2>3, <2>4, <1>1, <1>5, AgainDivides
<1> QED BY <1>2, <1>3, <1>4, <1>5

LEMMA TryMatchDivides ==
    ASSUME NEW w \in Texts, NEW s, Dividing(s, w)
    PROVE  Dividing(TryMatch(s), w)
<1>1. /\ Resting(s.c) /\ Good(s.c, {}) /\ s.input \in Texts /\ Len(s.input) \in Nat /\ SearchOK(s)
      /\ s.start \in Nat /\ s.end \in Int /\ s.end <= Len(s.input)
      /\ editor.auto_commit => Packed(s.c.segs) /\ Letters(s.input)
  BY TextIsSeq DEF Dividing, SearchOK, Resting, Standing, Lettered
<1>2. CASE s.done
  BY <1>2 DEF TryMatch
<1>3. CASE ~s.done /\ s.end <= s.start
  <2> DEFINE c == s.c
             t == s.input
             d == SetInput(c, t)
  <2>1. Good(c, {}) /\ t \in Texts /\ (editor.auto_commit => Packed(c.segs) /\ Letters(t))
    BY <1>1
  <2>2. TryMatch(s) = Done(s, d)
    BY <1>3 DEF TryMatch
  <2>3. Parted(c.sent, t, w)
    BY <1>3 DEF Dividing
  <2> HIDE DEF c, t
  <2>4. Resting(d) /\ d.input = t /\ d.sent = c.sent
    BY <2>1, SetInputRests
  <2>5. editor.auto_commit => Lettered(d)
    BY <2>1, SetInputLettered
  <2> HIDE DEF d
  <2> QED BY <2>2, <2>3, <1>1, <2>4, <2>5, DoneDivides
<1>4. CASE ~s.done /\ ~(s.end <= s.start)
  <2> DEFINE t == SubSeq(s.input, 1, s.end)
             c == s.c
             d == SetInput(c, t)
  <2>1. s.end \in Nat /\ 1 \in Nat \ {0} /\ s.end \in 0..Len(s.input)
    BY <1>1, <1>4
  <2>2. t \in Texts /\ Good(c, {}) /\ (editor.auto_commit => Packed(c.segs))
    BY <1>1, <2>1, PartIsText
  <2>3. TryMatch(s) = Tried(s, d)
    BY <1>4 DEF TryMatch
  <2>4. editor.auto_commit => Letters(t)
    <3> DEFINE u == s.input
               k == s.end
    <3>1. u \in Texts /\ k \in 0..Len(u) /\ (editor.auto_commit => Letters(u))
      BY <1>1, <2>1
    <3> HIDE DEF u, k
    <3> QED BY <3>1, LettersParts DEF u, k
  <2>5. c = s.c /\ t = SubSeq(s.input, 1, s.end)
    OBVIOUS
  <2> HIDE DEF t, c
  <2>6. Resting(d) /\ d.input = t /\ d.caret = Len(t) /\ d.sent = c.sent
    BY <2>2, SetInputRests
  <2>7. editor.auto_commit => Lettered(d)
    BY <2>2, <2>4, SetInputLettered
  <2> HIDE DEF d
  <2> QED BY <1>4, <2>1, <2>3, <2>5, <2>6, <2>7, TriedDivides
<1> QED BY <1>2, <1>3, <1>4

------------------------------------------------------------------------------
(* The search ends: each part tried is shorter, and each search is in a    *)
(* shorter rest.                                                           *)

Remaining(s) == (Len(s.input) - s.start) * (MaxInput + 1) + (s.end - s.start)
Running(s) == s.start <= s.end /\ s.end <= Len(s.input)

LEMMA Times ==
    ASSUME NEW a \in Nat, NEW b \in Nat, a < b, NEW n \in Nat
    PROVE  a * n + n <= b * n
<1>1. PICK k \in Nat : b = a + 1 + k
  OBVIOUS
<1> QED BY <1>1

LEMMA RemainingIs ==
    ASSUME NEW s, SearchOK(s), Running(s)
    PROVE  Remaining(s) \in Nat
<1> DEFINE a == Len(s.input) - s.start
           b == s.end - s.start
           n == MaxInput + 1
<1>1. a \in Nat /\ b \in Nat /\ n \in Nat
  BY TextIsSeq, EngineAssumption DEF SearchOK, Running
<1>2. Remaining(s) = a * n + b
  BY DEF Remaining
<1> HIDE DEF a, b, n
<1> QED BY <1>1, <1>2

(* A search that begins further on, in a rest that is no longer. *)
LEMMA LessRemains ==
    ASSUME NEW s, SearchOK(s), Running(s), s.start < s.end, NEW t, SearchOK(t), Running(t),
           Len(t.input) - t.start <= Len(s.input) - s.end
    PROVE  Remaining(t) < Remaining(s)
<1> DEFINE a == Len(t.input) - t.start
           b == Len(s.input) - s.start
           p == t.end - t.start
           q == s.end - s.start
           n == MaxInput + 1
<1>1. /\ Len(t.input) \in 0..MaxInput /\ Len(s.input) \in 0..MaxInput /\ MaxInput \in Nat
      /\ s.start \in Nat /\ s.end \in Int /\ t.start \in Nat /\ t.end \in Int
      /\ t.start <= t.end /\ t.end <= Len(t.input) /\ s.end <= Len(s.input)
  BY TextIsSeq, EngineAssumption DEF SearchOK, Running
<1>2. Len(t.input) - t.start <= Len(s.input) - s.end /\ s.start < s.end
  OBVIOUS
<1>3. a \in Nat /\ b \in Nat /\ p \in Nat /\ q \in Nat /\ n \in Nat
  <2> DEFINE i == Len(s.input)
             j == Len(t.input)
  <2>1. /\ i \in Nat /\ j \in Nat /\ s.start \in Nat /\ s.end \in Int /\ t.start \in Nat /\ t.end \in Int
        /\ t.start <= t.end /\ t.end <= j /\ s.end <= i /\ s.start < s.end
    BY <1>2, <1>1
  <2> HIDE DEF i, j
  <2>2. j - t.start \in Nat /\ t.end - t.start \in Nat
    BY <2>1, SMTT(30)
  <2>3. i - s.start \in Nat /\ s.end - s.start \in Nat
    BY <2>1
  <2>4. n \in Nat
    BY <1>1
  <2> QED BY <2>2, <2>3, <2>4 DEF i, j
<1>4. a < b /\ p <= a /\ a < n /\ q > 0
  <2> DEFINE i == Len(s.input)
             j == Len(t.input)
  <2>1. /\ i \in 0..MaxInput /\ j \in 0..MaxInput /\ MaxInput \in Nat
        /\ s.start \in Nat /\ s.end \in Int /\ t.start \in Nat /\ t.end \in Int
        /\ t.start <= t.end /\ t.end <= j /\ s.end <= i
        /\ j - t.start <= i - s.end /\ s.start < s.end
    BY <1>1, <1>2
  <2> HIDE DEF i, j
  <2>2. j - t.start < i - s.start /\ t.end - t.start <= j - t.start
    BY <2>1, SMTT(30)
  <2>3. j - t.start < MaxInput + 1 /\ s.end - s.start > 0
    BY <2>1
  <2> QED BY <2>2, <2>3 DEF i, j
<1>5. Remaining(t) = a * n + p /\ Remaining(s) = b * n + q
  BY DEF Remaining
<1> HIDE DEF a, b, p, q, n
<1>6. a * n + n <= b * n
  BY <1>3, <1>4, Times
<1>7. a * n \in Nat /\ b * n \in Nat
  BY <1>3
<1> DEFINE u == a * n
           v == b * n
<1> HIDE DEF u, v
<1> QED BY <1>3, <1>4, <1>5, <1>6, <1>7

LEMMA SearchRuns ==
    ASSUME NEW c, Resting(c), NEW start \in Nat, NEW end \in Nat, end <= Len(c.input) + 1
    PROVE  LET t == Search(c, start, end)
           IN  t.done \/ (SearchOK(t) /\ Running(t) /\ t.input = c.input /\ t.start = start)
<1> DEFINE t == Search(c, start, end)
<1>1. t.input = c.input /\ t.start = start /\ t.end = end - 1 /\ t.done = (end <= start + 1)
  BY DEF Search
<1> HIDE DEF t
<1>2. t.done \/ Running(t)
  <2>1. CASE end <= start + 1
    BY <2>1, <1>1
  <2>2. CASE ~(end <= start + 1)
    BY <2>2, TextIsSeq, <1>1 DEF Running, Resting, Standing, Good
  <2> QED BY <2>1, <2>2
<1> QED BY SearchBegins, <1>1, <1>2 DEF t

LEMMA AgainRuns ==
    ASSUME NEW s, SearchOK(s), NEW c, Resting(c), NEW start \in Nat
    PROVE  LET t == Again(s, c, start)
           IN  t.done \/ (SearchOK(t) /\ Running(t) /\ t.input = c.input /\ t.start = start)
<1> DEFINE e == CurrentEnd(c.segs)
<1>1. Done(s, c).done
  BY DEF Done, SearchOK
<1>2. e \in Nat /\ e <= Len(c.input) + 1
  BY CurrentEndIn
<1>3. Again(s, c, start) \in {Search(c, start, e), Done(s, c)}
  BY DEF Again
<1> HIDE DEF e
<1> QED BY <1>1, <1>3, <1>2, SearchRuns

LEMMA TryMatchAdvances ==
    ASSUME NEW s, SearchOK(s), ~s.done, Running(s)
    PROVE  LET t == TryMatch(s)
           IN  t.done \/ (SearchOK(t) /\ Running(t) /\ Remaining(t) < Remaining(s))
<1>1. /\ Resting(s.c) /\ Good(s.c, {}) /\ s.input \in Texts /\ Len(s.input) \in Nat
      /\ s.start \in Nat /\ s.end \in Int /\ s.end <= Len(s.input)
  BY TextIsSeq DEF SearchOK, Resting, Standing
<1>2. CASE s.end <= s.start
  BY <1>2 DEF TryMatch, Done, SearchOK
<1>3. CASE ~(s.end <= s.start)
  <2> DEFINE p == SubSeq(s.input, 1, s.end)
             k == s.end
             u == s.input
             c0 == s.c
             c == SetInput(c0, p)
  <2>1. k \in Nat /\ 1 \in Nat \ {0} /\ k = s.end /\ k \in 0..Len(u) /\ u = s.input /\ u \in Texts /\ s.start < k
        /\ k <= Len(u) /\ Len(u) \in Nat
    BY <1>1, <1>3
  <2>2. p \in Texts /\ Good(c0, {})
    BY <1>1, <2>1, PartIsText
  <2>3. TryMatch(s) = Tried(s, c)
    BY <1>3 DEF TryMatch
  <2> HIDE DEF p, c0
  <2>4. Resting(c)
    BY <2>2, SetInputRests
  <2> HIDE DEF c, k, u
  <2>5. CASE ~HasMenu(c)
    BY <2>3, <2>5 DEF Tried, Done, SearchOK
  <2>6. CASE HasMenu(c) /\ ~Selectable(Last(c.segs), s.end)
    <3> DEFINE j == s.end - 1
               e == [s EXCEPT !.c = c, !.end = @ - 1]
    <3>1. Tried(s, c) = e
      BY <2>6 DEF Tried
    <3>2. e = [s EXCEPT !.c = c, !.end = j]
      OBVIOUS
    <3>3. j \in Int /\ j <= Len(s.input) /\ s.start <= j
      BY <1>1, <1>3
    <3>4. j = s.end - 1
      OBVIOUS
    <3> HIDE DEF j, e
    <3>5. /\ e = [c |-> e.c, input |-> e.input, start |-> e.start, end |-> e.end, done |-> e.done]
          /\ e.c = c /\ e.input = s.input /\ e.start = s.start /\ e.end = j
      BY <3>2 DEF SearchOK
    <3>6. SearchOK(e) /\ Running(e)
      BY <3>3, <3>5, <2>4, <1>1 DEF SearchOK, Running
    <3>7. Remaining(e) < Remaining(s)
      <4> DEFINE v == (Len(s.input) - s.start) * (MaxInput + 1)
      <4>1. v \in Int
        BY <1>1, EngineAssumption
      <4>2. Remaining(s) = v + (s.end - s.start) /\ Remaining(e) = v + (j - s.start)
        BY <3>5 DEF Remaining
      <4> HIDE DEF v
      <4> QED BY <4>1, <4>2, <3>3, <3>4, <1>1
    <3> QED BY <2>3, <3>1, <3>6, <3>7
  <2>7. CASE HasMenu(c) /\ Selectable(Last(c.segs), s.end) /\ editor.auto_commit
    <3> DEFINE m == Commit(c)
               r == After(u, k)
               d == SetInput(m, r)
               t == Again(s, d, 0)
    <3>1. Resting(m)
      BY <2>4, CommitRests DEF Resting
    <3>2. r \in Texts /\ Len(r) = Len(u) - k
      BY <2>1, AfterIsText
    <3>3. Tried(s, c) = t
      BY <2>1, <2>7 DEF Tried
    <3> HIDE DEF m, r
    <3>4. Resting(d) /\ d.input = r
      BY <3>1, <3>2, SetInputRests DEF Resting, Standing
    <3> HIDE DEF d
    <3>5. t.done \/ (SearchOK(t) /\ Running(t) /\ t.input = d.input /\ t.start = 0)
      BY <3>4, AgainRuns
    <3> HIDE DEF t
    <3>6. ASSUME ~t.done PROVE Remaining(t) < Remaining(s)
      BY <2>1, <3>2, <3>4, <3>5, <3>6, LessRemains
    <3> QED BY <2>3, <3>3, <3>5, <3>6
  <2>8. CASE HasMenu(c) /\ Selectable(Last(c.segs), s.end) /\ ~editor.auto_commit
    <3> DEFINE m == ConfirmCurrentSelection(c)
               d == SetInput(m, u)
               t == Again(s, d, k)
    <3>1. Resting(m)
      BY <2>4, ConfirmSelectionRests
    <3>2. Tried(s, c) = t
      BY <2>1, <2>8 DEF Tried
    <3> HIDE DEF m
    <3>3. Resting(d) /\ d.input = u
      BY <2>1, <3>1, SetInputRests DEF Resting, Standing
    <3> HIDE DEF d
    <3>4. t.done \/ (SearchOK(t) /\ Running(t) /\ t.input = d.input /\ t.start = k)
      BY <2>1, <3>3, AgainRuns
    <3> HIDE DEF t
    <3>5. ASSUME ~t.done PROVE Remaining(t) < Remaining(s)
      BY <2>1, <3>3, <3>4, <3>5, LessRemains
    <3> QED BY <2>3, <3>2, <3>4, <3>5
  <2> QED BY <2>5, <2>6, <2>7, <2>8
<1> QED BY <1>2, <1>3

Advancing(s, n) ==
    s.done \/ (SearchOK(s) /\ Running(s) /\ Remaining(s) + n < MaxTries)

LEMMA SearchBeginsBelow ==
    ASSUME NEW c, Resting(c), NEW start \in Nat, NEW end \in Nat, end <= Len(c.input) + 1
    PROVE  Advancing(Search(c, start, end), 0)
<1> DEFINE t == Search(c, start, end)
<1>1. t.done \/ (SearchOK(t) /\ Running(t) /\ t.input = c.input /\ t.start = start)
  BY SearchRuns
<1> HIDE DEF t
<1>2. ASSUME ~t.done PROVE Remaining(t) + 0 < MaxTries
  <2> DEFINE a == Len(t.input) - t.start
             p == t.end - t.start
             n == MaxInput + 1
  <2>1. /\ Len(t.input) \in 0..MaxInput /\ MaxInput \in Nat
        /\ t.start \in Nat /\ t.end \in Int /\ t.start <= t.end /\ t.end <= Len(t.input)
    BY <1>1, <1>2, TextIsSeq, EngineAssumption DEF SearchOK, Running
  <2>2. a \in Nat /\ p \in Nat /\ n \in Nat
    BY <2>1
  <2>3. a < n /\ p < n
    BY <2>1
  <2>4. Remaining(t) = a * n + p /\ MaxTries = n * n
    BY DEF Remaining, MaxTries
  <2> HIDE DEF a, p, n
  <2>5. a * n + n <= n * n
    BY <2>2, <2>3, Times
  <2> DEFINE u == a * n
             v == n * n
  <2> HIDE DEF u, v
  <2> QED BY <2>2, <2>3, <2>4, <2>5
<1> QED BY <1>1, <1>2 DEF Advancing, t

LEMMA AdvancesOn ==
    ASSUME NEW s, NEW n \in Nat, Advancing(s, n)
    PROVE  Advancing(TryMatch(s), n + 1)
<1>1. CASE s.done
  BY <1>1 DEF Advancing, TryMatch
<1>2. CASE ~s.done
  <2> DEFINE t == TryMatch(s)
  <2>1. SearchOK(s) /\ Running(s) /\ Remaining(s) + n < MaxTries
    BY <1>2 DEF Advancing
  <2>2. t.done \/ (SearchOK(t) /\ Running(t) /\ Remaining(t) < Remaining(s))
    BY <1>2, <2>1, TryMatchAdvances
  <2> HIDE DEF t
  <2>3. ASSUME ~t.done PROVE SearchOK(t) /\ Running(t) /\ Remaining(t) + (n + 1) < MaxTries
    BY <2>1, <2>2, <2>3, RemainingIs, EngineAssumption DEF MaxTries
  <2> QED BY <2>3 DEF Advancing, t
<1> QED BY <1>1, <1>2

(* A search made to its end has divided the text. *)
LEMMA FindEarlierMatchDivides ==
    ASSUME NEW w \in Texts, NEW c, Resting(c), NEW start \in Nat, NEW end \in Nat, end <= Len(c.input) + 1,
           editor.auto_commit => Lettered(c), Parted(c.sent, c.input, w)
    PROVE  LET d == FindEarlierMatch(c, start, end)
           IN  Parted(d.sent, d.input, w) /\ (editor.auto_commit => Lettered(d))
<1> DEFINE f == Searches(c, start, end)
           Fine(n) == Dividing(f[n], w) /\ Advancing(f[n], n)
           Broken == {n \in Nat : ~Fine(n)}
<1>1. f = [n \in Nat |-> IF n = 0 THEN Search(c, start, end) ELSE TryMatch(f[n - 1])]
  BY SearchesUnfold
<1>2. FindEarlierMatch(c, start, end) = f[MaxTries].c
  BY DEF FindEarlierMatch
<1> HIDE DEF f
<1>3. Broken = {}
  <2> SUFFICES ASSUME Broken # {} PROVE FALSE
    OBVIOUS
  <2>1. PICK n \in Broken : \A m \in Broken : n <= m
    <3>1. Broken \subseteq Nat
      OBVIOUS
    <3> HIDE DEF Broken
    <3> QED BY <3>1, LeastOf
  <2>2. n # 0
    BY <2>1, <1>1, SearchDivides, SearchBeginsBelow
  <2>3. n - 1 \in Nat /\ n - 1 \notin Broken /\ n \in Nat /\ n - 1 + 1 = n
    BY <2>1, <2>2
  <2> DEFINE s == f[n - 1]
             m == n - 1
  <2>4. Dividing(s, w) /\ Advancing(s, m) /\ m \in Nat /\ m + 1 = n
    BY <2>3
  <2>5. f[n] = TryMatch(s)
    BY <1>1, <2>2, <2>3
  <2> HIDE DEF s, m
  <2>6. Fine(n)
    BY <2>4, <2>5, TryMatchDivides, AdvancesOn
  <2> QED BY <2>3, <2>6, <2>1
<1> DEFINE s == f[MaxTries]
<1>4. MaxTries \in Nat
  BY EngineAssumption DEF MaxTries
<1>5. Dividing(s, w) /\ Advancing(s, MaxTries)
  BY <1>3, <1>4
<1> HIDE DEF s
<1>6. s.done
  <2> SUFFICES ASSUME ~s.done PROVE FALSE
    OBVIOUS
  <2> QED BY <1>5, RemainingIs, <1>4 DEF Advancing
<1> QED BY <1>2, <1>5, <1>6 DEF s, Dividing

------------------------------------------------------------------------------
(* A letter typed, and what automatic selection does with it.              *)

(* A match that ends before the input is not sent as it is confirmed. *)
LEMMA ConfirmInside ==
    ASSUME NEW w \in Texts, NEW c, Standing(c), c.segs # <<>>, CanConfirm(c),
           editor.auto_commit => Letters(c.input) /\ Interior(c.segs),
           HasCandidate(Last(c.segs)), CandidateEnd(Last(c.segs)) = Last(c.segs).end,
           Last(c.segs).end # Len(c.input)
    PROVE  Untouched(c, ConfirmCurrentSelection(c))
<1> DEFINE m == Marked(c)
           seg == Last(c.segs)
           x == [seg EXCEPT !.status = kSelected]
<1>1. Standing(m) /\ m.input = c.input /\ m.segs # <<>>
  BY MarkedStands
<1>2. m = WithLast(c, x)
  BY DEF Marked
<1>3. Last(m.segs) = x
  BY <1>2, LastMarked, ZenonT(30)
<1>4. seg \in Segment /\ CandidateEnd(seg) = seg.end
  BY LastSegment
<1> HIDE DEF seg
<1>5. /\ x.status = kSelected /\ x.end = seg.end /\ x.start = seg.start /\ x.menu = seg.menu
      /\ x.index = seg.index
  BY <1>4 DEF Segment
<1>6. editor.auto_commit => Interior(m.segs)
  BY MarkedLettered
<1>7. m.sent = c.sent
  BY <1>2 DEF WithLast, Standing, Good, IsContext
<1>8. ConfirmCurrentSelection(c) = OnSelect(m)
  BY DEF ConfirmCurrentSelection
<1> HIDE DEF m, x
<1>9. Close(x) = x
  <2>1. x.end \in Nat
    BY <1>4, <1>5 DEF Segment
  <2> QED BY <1>5, <2>1, <1>4 DEF Close, CandidateEnd, CandidateLength
<1>10. Untouched(m, OnSelect(m))
  BY <1>1, <1>6, <1>3, <1>5, <1>9, OnSelectParts DEF seg
<1> QED BY <1>1, <1>7, <1>8, <1>10 DEF Untouched

LEMMA ReuseMatchDivides ==
    ASSUME NEW w \in Texts, NEW c, Resting(c), editor.auto_commit => Lettered(c), Parted(c.sent, c.input, w),
           NEW seg \in Segment, Standing(WithLast(c, seg)), WithLast(c, seg).segs # <<>>,
           Last(WithLast(c, seg).segs) = seg, Selectable(seg, seg.end), seg.end < Len(c.input), c.segs # <<>>
    PROVE  LET d == ReuseMatch(c, seg)
           IN  Parted(d.sent, d.input, w) /\ (editor.auto_commit => Lettered(d))
<1> DEFINE d == WithLast(c, seg)
           e == ConfirmCurrentSelection(d)
           n == seg.end
           u == c.input
           t == SubSeq(u, 1, n)
           r == After(u, n)
           g == SetInput(e, t)
           h == Commit(g)
           f == SetInput(h, r)
<1>1. /\ HasCandidate(seg) /\ CandidateEnd(seg) = seg.end
      /\ Last(d.segs) = seg /\ Standing(d) /\ d.segs # <<>> /\ Standing(c)
  BY DEF Selectable, Resting
<1>2. d.input = u /\ d.sent = c.sent
  BY <1>1 DEF WithLast, Standing, Good, IsContext
<1>3. u \in Texts /\ Len(u) \in Nat /\ n \in 0..Len(u) /\ n \in Nat /\ n < Len(u) /\ 1 \in Nat \ {0}
  <2>1. u \in Texts /\ Len(u) \in Nat
    BY <1>1, TextIsSeq DEF Standing, Good
  <2>2. n \in Nat /\ n < Len(u)
    BY DEF Segment
  <2> HIDE DEF u, n
  <2> QED BY <2>1, <2>2
<1>4. editor.auto_commit => Letters(d.input) /\ Interior(d.segs) /\ Letters(u)
  BY <1>1, <1>2, WithLastPacked DEF Lettered, Packed
<1>5. CanConfirm(d)
  BY <1>1 DEF CanConfirm
<1>6. ReuseMatch(c, seg) = IF editor.auto_commit THEN f ELSE e
  BY DEF ReuseMatch
<1>7. Parted(c.sent, u, w) /\ n = seg.end /\ n # Len(u)
  <2>1. Parted(c.sent, u, w) /\ n = seg.end
    OBVIOUS
  <2> HIDE DEF u, n
  <2> QED BY <2>1, <1>3
<1> HIDE DEF d
<1>8. Resting(e) /\ Untouched(d, e)
  <2> HIDE DEF u, n
  <2> QED BY <1>1, <1>5, ConfirmLastRests, <1>2, <1>7, <1>4, ConfirmInside
<1>9. editor.auto_commit => Lettered(e)
  BY <1>1, <1>4, ConfirmSelectionLettered
<1> HIDE DEF e, u, n
<1>10. Parted(e.sent, e.input, w) /\ Parted(e.sent, u, w)
  BY <1>2, <1>7, <1>8 DEF Untouched
<1>11. CASE ~editor.auto_commit
  BY <1>6, <1>10, <1>11
<1>12. CASE editor.auto_commit
  <2>1. t \in Texts /\ r \in Texts /\ Letters(t) /\ Letters(r)
    BY <1>3, <1>4, <1>12, PartIsText, AfterIsText, LettersParts
  <2>2. t = SubSeq(u, 1, n) /\ r = After(u, n) /\ t # <<>>
    <3>1. Len(t) = n
      BY <1>3, TextIsSeq, Prefix
    <3>2. n > 0
      BY <1>1, CandidateOf, <1>7 DEF Segment
    <3>3. t # <<>>
      <4> HIDE DEF t
      <4> QED BY <3>1, <3>2, <1>3
    <3> QED BY <3>3
  <2> HIDE DEF t, r
  <2>3. Resting(g) /\ g.input = t /\ g.caret = Len(t) /\ g.sent = e.sent /\ Lettered(g)
    BY <1>12, <2>1, <1>8, <1>9, SetInputRests, SetInputLettered DEF Resting, Standing, Lettered
  <2> HIDE DEF g
  <2>4. Standing(g) /\ Interior(g.segs) /\ IsComposing(g)
    BY <2>2, <2>3 DEF Resting, Lettered, Packed, IsComposing
  <2>5. g.active = t
    BY <2>3, <2>4, ActiveIsInput
  <2>6. Resting(h) /\ Lettered(h)
    BY <2>4, CommitRests, CommitLettered
  <2>7. Parted(h.sent, r, w)
    BY <1>10, <2>2, <2>3, <2>5, <2>4, <1>3, CommitParts
  <2> HIDE DEF h
  <2>8. f.input = r /\ f.sent = h.sent /\ Lettered(f)
    BY <1>12, <2>1, <2>6, SetInputRests, SetInputLettered DEF Resting, Standing, Lettered
  <2> HIDE DEF f
  <2> QED BY <1>6, <1>12, <2>8, <2>7
<1> QED BY <1>11, <1>12
LEMMA MatchedDivides ==
    ASSUME NEW c, Resting(c), NEW d, Pushes(d, c), editor.auto_select, ~MisplacedIn(d, c),
           editor.auto_commit => Lettered(d), NEW w \in Texts, Parted(d.sent, d.input, w)
    PROVE  LET m == Matched(d, c)
           IN  Parted(m.sent, m.input, w) /\ (editor.auto_commit => Lettered(m))
<1>1. Resting(d) /\ Len(d.input) = Len(c.input) + 1 /\ Len(c.input) \in Nat
  BY TextIsSeq DEF Pushes, Resting, Standing, Good
<1>2. CASE HasMenu(d) \/ ~HasMenu(c)
  BY <1>2 DEF Matched
<1>3. CASE ~HasMenu(d) /\ HasMenu(c)
  <2> DEFINE seg == Last(c.segs)
  <2>1. Matched(d, c) = AutoSelectPreviousMatch(d, seg)
    BY <1>3 DEF Matched
  <2>2. c.segs # <<>> /\ CurrentStart(c.segs) = seg.start
    BY <1>3 DEF HasMenu, CurrentStart
  <2>3. /\ seg \in Segment /\ seg.end <= Len(c.active) /\ seg.start \in Nat /\ seg.end \in Nat
        /\ c.caret \in Nat
    BY <2>2, LastSegment DEF Resting, Standing, Good, Segment
  <2>4. seg.end <= Len(c.input)
    <3>1. /\ c.input \in Seq(Keys) /\ c.caret \in 0..Len(c.input)
          /\ c.active \in {c.input, SubSeq(c.input, 1, c.caret)}
      BY TextIsSeq DEF Resting, Standing, Good, Follows
    <3> HIDE DEF seg
    <3> QED BY <1>1, <2>3, <3>1, Prefix
  <2>5. CASE Selectable(seg, seg.end)
    <3>1. /\ seg \in Segment /\ Standing(WithLast(d, seg)) /\ WithLast(d, seg).segs # <<>>
          /\ Last(WithLast(d, seg).segs) = seg
      BY <2>2, <1>3, <2>5, <2>3, PreviousFits DEF MisplacedIn
    <3>2. d.segs # <<>>
      BY <2>3 DEF CurrentEnd, Pushes, Resting
    <3> HIDE DEF seg
    <3> QED BY <2>1, <2>5, <1>1, <3>1, <3>2, <2>3, <2>4, ReuseMatchDivides DEF
      AutoSelectPreviousMatch
  <2>6. CASE ~Selectable(seg, seg.end)
    <3> HIDE DEF seg
    <3> DEFINE b == seg.start
               e == seg.end
    <3>1. b \in Nat /\ e \in Nat /\ e <= Len(d.input) + 1
      BY <1>1, <2>3, <2>4
    <3> HIDE DEF b, e
    <3>2. LET m == FindEarlierMatch(d, b, e)
          IN  Parted(m.sent, m.input, w) /\ (editor.auto_commit => Lettered(m))
      BY <1>1, <3>1, FindEarlierMatchDivides
    <3> QED BY <2>1, <2>6, <3>2 DEF AutoSelectPreviousMatch, b, e
  <2> QED BY <2>5, <2>6
<1> QED BY <1>2, <1>3

LEMMA AutoSelectUniqueDivides ==
    ASSUME NEW c, Resting(c), editor.auto_commit => Lettered(c), NEW w \in Texts, Parted(c.sent, c.input, w)
    PROVE  LET d == AutoSelectUnique(c)
           IN  Parted(d.sent, d.input, w) /\ (editor.auto_commit => Lettered(d))
<1> DEFINE d == ConfirmCurrentSelection(c)
<1>1. Standing(c) /\ (editor.auto_commit => Letters(c.input) /\ Interior(c.segs))
  BY DEF Resting, Lettered, Packed
<1>2. Parted(d.sent, d.input, w)
  BY <1>1, ConfirmSelectionParts
<1>3. editor.auto_commit => Lettered(d)
  BY <1>1, ConfirmSelectionLettered
<1>4. AutoSelectUnique(c) \in {c, d}
  BY DEF AutoSelectUnique
<1> HIDE DEF d
<1> QED BY <1>2, <1>3, <1>4

(* What is sent and what is left of the input are the input with the       *)
(* letter at the caret; under automatic commit it stays lettered.          *)
LEMMA SpellDivides ==
    ASSUME NEW c, Resting(c), c.sent = <<>>, NEW ch \in Keys, Len(c.input) < MaxInput,
           ~MisplacedIn(BeginEditing(PushInput(c, ch)), c),
           editor.auto_commit => Lettered(c) /\ ch \in Alphabet
    PROVE  LET w == SubSeq(c.input, 1, c.caret) \o <<ch>> \o After(c.input, c.caret)
               d == Spell(c, ch)
           IN  w \in Texts /\ Parted(d.sent, d.input, w) /\ (editor.auto_commit => Lettered(d))
<1> DEFINE w == SubSeq(c.input, 1, c.caret) \o <<ch>> \o After(c.input, c.caret)
           p == PushInput(c, ch)
           d == BeginEditing(p)
           m == Matched(d, c)
<1>1. Good(c, {}) /\ c.input \in Texts /\ c.caret \in 0..Len(c.input)
  BY DEF Resting, Standing, Good
<1>2. w \in Texts /\ Len(w) = Len(c.input) + 1
  BY <1>1, PushedIsText
<1>3. Resting(p) /\ p.sent = <<>>
  BY <1>1, PushRests
<1>4. p.input = w
  <2>1. IsContext(c)
    BY <1>1 DEF Good
  <2> DEFINE q == c.caret + 1
             x == WithInput(c, w, q)
  <2>2. p = Compose(x)
    BY DEF PushInput, WithInput
  <2>3. w \in Texts /\ q \in 0..Len(w)
    <3> HIDE DEF w
    <3> QED BY <1>1, <1>2, TextIsSeq
  <2> HIDE DEF w, q
  <2> QED BY <2>2, <1>1, <2>3, ChangedRests
<1>5. editor.auto_commit => Lettered(p)
  BY <1>1, PushLettered DEF Lettered
<1>6. Pushes(d, c)
  BY PushedIs
<1>7. Spell(c, ch) = Pushed(d, c) /\ ~MisplacedIn(d, c)
  BY DEF Spell
<1> HIDE DEF p, w
<1>8. d.input = w /\ d.sent = <<>> /\ Resting(d)
  BY <1>3, <1>4, BeginEditingIs
<1>9. editor.auto_commit => Lettered(d)
  BY <1>3, <1>5, BeginEditingLettered
<1> HIDE DEF d
<1>10. Parted(d.sent, d.input, w)
  BY <1>2, <1>8, PartedNothing
<1>11. CASE ~editor.auto_select
  BY <1>7, <1>11, <1>2, <1>9, <1>10 DEF w, Pushed
<1>12. CASE editor.auto_select
  <2>1. Resting(m)
    BY <1>6, <1>7, <1>12, MatchedRests
  <2>2. Parted(m.sent, m.input, w) /\ (editor.auto_commit => Lettered(m))
    BY <1>2, <1>6, <1>7, <1>9, <1>10, <1>12, MatchedDivides
  <2>3. Spell(c, ch) = AutoSelectUnique(m)
    BY <1>7, <1>12 DEF Pushed
  <2> HIDE DEF m
  <2> QED BY <2>3, <2>1, <2>2, <1>2, AutoSelectUniqueDivides DEF w
<1> QED BY <1>11, <1>12

------------------------------------------------------------------------------
(* The stronger invariant that a letter needs: under automatic commit only *)
(* letters are in the input, and every segment passed over is chosen and   *)
(* shut, so that no commit is loose.                                       *)

LetteredOK == editor.auto_commit /\ Fits => Lettered(ctx)
ConservingInv == Inv /\ LetteredOK

LEMMA NowLettered ==
    ASSUME ConservingInv, Fits
    PROVE  /\ Resting(Now) /\ Standing(Now) /\ Now.sent = <<>> /\ Now.input = ctx.input
           /\ Now.caret = ctx.caret /\ Now.segs = ctx.segs
           /\ editor.auto_commit => Lettered(Now)
BY NowRests DEF Lettered, ConservingInv, Inv, LetteredOK

LEMMA BecomesLettered ==
    ASSUME NEW d, Becomes(d), editor.auto_commit => Lettered(d)
    PROVE  LetteredOK'
BY DEF LetteredOK, Lettered, Letters, Packed, Interior, Shut, SegmentEnd, Becomes

LEMMA EditorKeyLettered ==
    ASSUME ConservingInv, EditorKey
    PROVE  LetteredOK'
<1>1. Resting(Now) /\ Standing(Now) /\ (editor.auto_commit => Lettered(Now))
  BY NowLettered DEF EditorKey, Becomes
<1>2. CASE Becomes(Confirm(Now))
  BY <1>1, <1>2, ConfirmLettered, BecomesLettered
<1>3. CASE Becomes(CommitComposition(Now))
  BY <1>1, <1>3, CommitCompositionLettered, BecomesLettered
<1>4. CASE Becomes(ToggleSelection(Now))
  BY <1>1, <1>4, ToggleLettered, BecomesLettered
<1>5. CASE Becomes(CommitRawInput(Now))
  BY <1>1, <1>5, CommitRawLettered, BecomesLettered
<1>6. CASE Becomes(CommitScriptText(Now))
  BY <1>1, <1>6, CommitScriptLettered, BecomesLettered
<1>7. ASSUME NEW n \in 1..MaxInput, Becomes(RevertLastEdit(Now, n))
      PROVE  LetteredOK'
  BY <1>7, <1>1, RevertLettered, BecomesLettered
<1>8. CASE Becomes(BackToPreviousInput(Now))
  BY <1>1, <1>8, BackLettered, BecomesLettered
<1>9. CASE Becomes(DeleteChar(Now))
  BY <1>1, <1>9, DeleteCharLettered, BecomesLettered
<1>10. CASE Becomes(CancelComposition(Now))
  BY <1>1, <1>10, CancelLettered, BecomesLettered
<1> QED BY <1>2, <1>3, <1>4, <1>5, <1>6, <1>7, <1>8, <1>9, <1>10 DEF EditorKey

LEMMA SpellKeyLettered ==
    ASSUME ConservingInv, NEW ch \in Keys, SpellKey(ch)
    PROVE  LetteredOK'
<1> DEFINE c == Now
           d == Spell(Now, ch)
<1>1. /\ ctx' = d /\ misfit' = {m \in {"reused"} : Misplaced(ch)} /\ editor' = editor
      /\ Fits /\ Len(ctx.input) < MaxInput /\ ch \in Alphabet
  BY DEF SpellKey
<1>2. /\ Resting(c) /\ c.sent = <<>> /\ c.input = ctx.input /\ c.caret = ctx.caret /\ c.segs = ctx.segs
      /\ editor.auto_commit => Lettered(c)
  BY <1>1, NowLettered
<1>3. Misplaced(ch) <=> MisplacedIn(BeginEditing(PushInput(c, ch)), c)
  BY <1>2 DEF Misplaced, MisplacedIn, HasMenu
<1>4. Fits' => ~Misplaced(ch)
  BY <1>1 DEF Fits
<1>5. d = Spell(c, ch)
  OBVIOUS
<1> HIDE DEF c, d
<1>6. ASSUME Fits', editor.auto_commit PROVE Lettered(d)
  <2>1. editor.auto_commit => Lettered(Spell(c, ch))
    BY <1>1, <1>2, <1>3, <1>4, <1>6, SpellDivides
  <2> QED BY <1>5, <1>6, <2>1
<1> QED BY <1>1, <1>6 DEF LetteredOK, Lettered, Letters, Packed, Interior, Shut, SegmentEnd

LEMMA CharKeyLettered ==
    ASSUME ConservingInv, NEW ch \in Keys, CharKey(ch)
    PROVE  LetteredOK'
<1> DEFINE d == IF editor.auto_commit THEN Commit(Now) ELSE BeginEditing(PushInput(Now, ch))
<1>1. Becomes(d) /\ Fits
  BY DEF CharKey, Becomes
<1>2. editor.auto_commit => Lettered(d)
  BY <1>1, NowLettered, CommitLettered
<1> HIDE DEF d
<1> QED BY <1>1, <1>2, BecomesLettered

LEMMA MoveKeyLettered ==
    ASSUME ConservingInv, NEW p \in 0..MaxInput, Move(p)
    PROVE  LetteredOK'
<1> DEFINE c == BeginEditing(Now)
           d == IF p = c.caret THEN c ELSE SetCaret(c, p)
<1>1. Becomes(d) /\ p <= Len(ctx.input) /\ Fits /\ p \in Nat
  BY EngineAssumption DEF Move, Becomes
<1>2. editor.auto_commit => Lettered(d)
  BY <1>1, NowLettered, MoveLettered
<1> HIDE DEF d
<1> QED BY <1>1, <1>2, BecomesLettered

LEMMA ChooseLettered ==
    ASSUME ConservingInv, NEW i \in 0..MaxInput, SelectKey(i) \/ HighlightKey(i)
    PROVE  LetteredOK'
<1>1. Resting(Now) /\ Now.segs = ctx.segs /\ i \in Nat /\ (editor.auto_commit => Lettered(Now))
  BY NowLettered, EngineAssumption DEF SelectKey, HighlightKey, Becomes
<1>2. CASE SelectKey(i)
  BY <1>1, <1>2, SelectLettered, BecomesLettered DEF SelectKey, CanSelect
<1>3. CASE HighlightKey(i)
  BY <1>1, <1>3, HighlightLettered, BecomesLettered DEF HighlightKey, CanHighlight, HighlightIndex,
    HasMenu
<1> QED BY <1>2, <1>3

LEMMA UpdateLettered ==
    ASSUME ConservingInv, OptionUpdate \/ SwitchCommitText \/ CommitCall
    PROVE  LetteredOK'
<1>1. Resting(Now) /\ Standing(Now) /\ (editor.auto_commit => Lettered(Now))
  BY NowLettered DEF OptionUpdate, SwitchCommitText, CommitCall, Becomes
<1> DEFINE m == ConfirmCurrentSelection(Now)
<1>2. Resting(m)
  BY <1>1, ConfirmSelectionRests
<1>3. editor.auto_commit => Lettered(m)
  BY <1>1, ConfirmSelectionLettered DEF Lettered, Packed
<1> HIDE DEF m
<1>4. editor.auto_commit => Lettered(Refresh(m))
  BY <1>2, <1>3, RefreshLettered
<1>5. Becomes(Refresh(Now)) \/ Becomes(Commit(Now)) \/ Becomes(Refresh(m))
  BY DEF OptionUpdate, SwitchCommitText, CommitCall, m
<1> QED BY <1>1, RefreshLettered, CommitLettered, <1>4, <1>5, BecomesLettered

LEMMA RestartLettered ==
    ASSUME ConservingInv, ClearCall \/ ApplySchema
    PROVE  LetteredOK'
<1> DEFINE d == Clear(Now)
<1>1. Lettered(d)
  BY NowIs, NothingSent, ClearLettered DEF ConservingInv, Inv, TypeOK
<1>2. ctx' = d
  BY DEF ClearCall, ApplySchema
<1> HIDE DEF d
<1> QED BY <1>1, <1>2 DEF LetteredOK, Lettered, Letters, Packed, Interior, Shut, SegmentEnd

LEMMA StutterLettered ==
    ASSUME ConservingInv, UNCHANGED vars
    PROVE  LetteredOK'
<1>1. ctx' = ctx /\ editor' = editor /\ misfit' = misfit
  BY DEF vars
<1>2. editor.auto_commit /\ Fits => Lettered(ctx)
  BY DEF ConservingInv, LetteredOK
<1> QED BY <1>1, <1>2 DEF LetteredOK, Lettered, Letters, Packed, Interior, Shut, SegmentEnd, Fits

LEMMA NextLettered ==
    ASSUME ConservingInv, [Next]_vars
    PROVE  ConservingInv'
<1> SUFFICES LetteredOK'
  BY NextOK DEF ConservingInv
<1>1. ASSUME NEW ch \in Keys, SpellKey(ch) \/ CharKey(ch)
      PROVE  LetteredOK'
  BY <1>1, SpellKeyLettered, CharKeyLettered
<1>2. CASE EditorKey
  BY <1>2, EditorKeyLettered
<1>3. ASSUME NEW p \in 0..MaxInput, Move(p)
      PROVE  LetteredOK'
  BY <1>3, MoveKeyLettered
<1>4. ASSUME NEW i \in 0..MaxInput, SelectKey(i) \/ HighlightKey(i)
      PROVE  LetteredOK'
  BY <1>4, ChooseLettered
<1>5. CASE OptionUpdate \/ SwitchCommitText \/ CommitCall
  BY <1>5, UpdateLettered
<1>6. CASE ClearCall \/ ApplySchema
  BY <1>6, RestartLettered
<1>7. CASE UNCHANGED vars
  BY <1>7, StutterLettered
<1> QED BY <1>1, <1>2, <1>3, <1>4, <1>5, <1>6, <1>7 DEF Next

LEMMA InitLettered ==
    ASSUME Init
    PROVE  ConservingInv
<1>1. ctx.input = <<>> /\ ctx.segs = <<>>
  BY DEF Init, Fresh
<1>2. Lettered(ctx)
  BY <1>1, NothingIsLettered
<1> QED BY <1>2, InitOK DEF ConservingInv, LetteredOK

LEMMA ConservingIsTyping == ConservingInv => TypingConserves
<1> SUFFICES ASSUME ConservingInv, NEW ch \in Alphabet, Fits, Len(ctx.input) < MaxInput, ~Misplaced(ch)
             PROVE  Concat([i \in DOMAIN Spell(Now, ch).sent |-> Spell(Now, ch).sent[i].text])
                        \o Spell(Now, ch).input
                      = SubSeq(ctx.input, 1, ctx.caret) \o <<ch>> \o After(ctx.input, ctx.caret)
  BY DEF TypingConserves
<1> DEFINE c == Now
           d == Spell(c, ch)
           w == SubSeq(c.input, 1, c.caret) \o <<ch>> \o After(c.input, c.caret)
<1>1. /\ Resting(c) /\ c.sent = <<>> /\ c.input = ctx.input /\ c.caret = ctx.caret /\ c.segs = ctx.segs
      /\ editor.auto_commit => Lettered(c)
  BY NowLettered
<1>2. ~MisplacedIn(BeginEditing(PushInput(c, ch)), c)
  BY <1>1 DEF Misplaced, MisplacedIn, HasMenu
<1>3. ch \in Keys /\ Len(c.input) < MaxInput /\ c = Now
  BY <1>1, EngineAssumption
<1> HIDE DEF c
<1>4. w \in Texts /\ Parted(d.sent, d.input, w)
  BY <1>1, <1>2, <1>3, SpellDivides
<1>5. Resting(d)
  BY <1>1, <1>2, <1>3, SpellRests
<1>6. d = Spell(Now, ch) /\ w = SubSeq(ctx.input, 1, ctx.caret) \o <<ch>> \o After(ctx.input, ctx.caret)
  BY <1>1, <1>3
<1> HIDE DEF d, w
<1>7. PICK S : d.sent \in Seq(S)
  BY <1>5, SentIsSeq DEF Resting
<1> DEFINE sent == d.sent
<1>8. sent \in Seq(S) /\ Parted(sent, d.input, w)
  BY <1>4, <1>7
<1>9. sent = d.sent
  OBVIOUS
<1> HIDE DEF sent
<1>10. Concat([i \in DOMAIN sent |-> sent[i].text]) \o d.input = w
  BY <1>4, <1>8, PartedJoins
<1> QED BY <1>6, <1>9, <1>10, ZenonT(30)

(* Under automatic commit, while the candidates fit, only letters are in   *)
(* the input, and every segment passed over is chosen and closed at the    *)
(* end of its candidate: what is committed is never loose.                 *)
THEOREM LetteredAlways == Spec => [](editor.auto_commit /\ Fits => Lettered(ctx) /\ ~Loose(ctx))
<1>1. Init => ConservingInv
  BY InitLettered
<1>2. ConservingInv /\ [Next]_vars => ConservingInv'
  BY NextLettered
<1>3. ConservingInv => (editor.auto_commit /\ Fits => Lettered(ctx) /\ ~Loose(ctx))
  BY InteriorIsNotLoose DEF ConservingInv, LetteredOK, Inv, Resting, Lettered, Packed
<1> QED BY <1>1, <1>2, <1>3, PTL DEF Spec

(* A letter typed anywhere is never lost, and neither is a letter already  *)
(* there: whatever automatic selection commits, in however many steps of   *)
(* the speller's search, and what it leaves in the input, are together the *)
(* input with the letter at the caret (speller.cc:189).                    *)
THEOREM TypingConservedAlways == Spec => []TypingConserves
<1>1. Init => ConservingInv
  BY InitLettered
<1>2. ConservingInv /\ [Next]_vars => ConservingInv'
  BY NextLettered
<1> QED BY <1>1, <1>2, ConservingIsTyping, PTL DEF Spec

------------------------------------------------------------------------------
(* A choice of part of the text, taken back.  Composing at the end of the  *)
(* input cuts the last segment anew, in one round, when it does not reach  *)
(* that far, and leaves all the others.                                    *)

LEMMA RunOf ==
    ASSUME NEW text \in Texts, NEW j \in Nat, j < Len(text),
           \A i \in j + 1..Len(text) : text[i] \in Alphabet
    PROVE  Max({j} \union {k \in j + 1..Len(text) : \A i \in j + 1..k : text[i] \in Alphabet}) = Len(text)
<1> DEFINE S == {j} \union {k \in j + 1..Len(text) : \A i \in j + 1..k : text[i] \in Alphabet}
<1>1. Len(text) \in Nat
  BY TextIsSeq
<1>2. Len(text) \in S /\ S \subseteq 0..Len(text)
  BY <1>1
<1> HIDE DEF S
<1>3. Max(S) \in 0..Len(text) /\ Len(text) <= Max(S)
  BY <1>2, <1>1, MaxOf
<1>4. Max(S) = Len(text)
  BY <1>1, <1>3
<1> QED BY <1>4, Zenon DEF S

LEMMA LastRound ==
    ASSUME NEW text \in Texts, NEW X, NEW segs, Whole(segs, text, X), segs # <<>>,
           Last(segs).end < Len(text),
           \A i \in Last(segs).start + 1..Len(text) : text[i] \in Alphabet,
           NEW L \in 0..Len(text), L = Len(text)
    PROVE  Segmented(segs, text, L) = Append(Front(segs), NewSegment(Last(segs).start, L, {"abc"}))
<1> DEFINE j == Last(segs).start
           seg == NewSegment(j, L, {"abc"})
           cut == Append(Front(segs), seg)
           first == [segs |-> segs, more |-> ~HasFinished(segs, text)]
           rounds == Rounds(segs, text, L)
           final == [segs |-> cut, more |-> FALSE]
<1>1. segs \in Seq(Segment) /\ L \in Nat /\ Last(segs) \in Segment /\ text \in Seq(Keys)
  BY Ends, TextIsSeq DEF Whole
<1>2. j \in Nat /\ j < L /\ CurrentStart(segs) = j /\ CurrentEnd(segs) = Last(segs).end /\ Last(segs).end \in Nat
  <2>1. Last(segs).start <= Last(segs).end
    BY <1>1, Ends DEF Whole, Chained
  <2> QED BY <1>1, <2>1 DEF CurrentStart, CurrentEnd, Segment
<1>3. seg \in Segment /\ seg.start = j /\ seg.end = L /\ seg.menu = <<>> /\ seg.status = kVoid
  BY <1>1, <1>2, NewIsSegment DEF Tags
<1>4. AbcProceed(segs, text) = cut
  <2> DEFINE run == Max({j} \union {k \in j + 1..L : \A i \in j + 1..k : text[i] \in Alphabet})
  <2>1. run = L
    BY <1>2, RunOf
  <2>2. AbcProceed(segs, text) = IF run = j THEN segs ELSE AddSegment(segs, NewSegment(j, run, {"abc"}))
    BY <1>2 DEF AbcProceed
  <2> HIDE DEF run
  <2>3. AbcProceed(segs, text) = AddSegment(segs, seg)
    BY <2>1, <2>2, <1>1, <1>2
  <2> HIDE DEF seg
  <2> QED BY <2>3, <1>1, <1>2, <1>3 DEF AddSegment
<1>5. cut \in Seq(Segment) /\ cut # <<>> /\ Last(cut) = seg
  <2> HIDE DEF seg
  <2> QED BY <1>1, <1>3, LastReplaced
<1> HIDE DEF seg, cut
<1>6. CurrentStart(cut) = j /\ CurrentEnd(cut) = L
  BY <1>3, <1>5 DEF CurrentStart, CurrentEnd
<1>7. FallbackProceed(cut, text) = cut
  BY <1>1, <1>2, <1>6 DEF FallbackProceed
<1>8. /\ RoundOK(first, segs, 0, text, L, X)
      /\ rounds = [n \in Nat |-> IF n = 0 THEN first ELSE NextRound(rounds[n - 1], text, L)]
  BY RoundsUnfold
<1>9. first.segs = segs /\ first.more
  <2>1. ~HasFinished(segs, text)
    BY <1>1, <1>2 DEF HasFinished
  <2>2. first.segs = segs /\ first.more = ~HasFinished(segs, text)
    OBVIOUS
  <2> HIDE DEF first
  <2> QED BY <2>1, <2>2, Zenon
<1> HIDE DEF first, rounds
<1>10. rounds[1] = final
  <2>1. rounds[1] = NextRound(first, text, L)
    BY <1>8
  <2> QED BY <2>1, <1>2, <1>4, <1>7, <1>9, <1>1, <1>6 DEF NextRound, AfterRound, HasFinished
<1>11. \A n \in Nat : n # 0 => rounds[n] = final
  <2> DEFINE Other == {n \in Nat : n # 0 /\ rounds[n] # final}
  <2> SUFFICES ASSUME Other # {} PROVE FALSE
    OBVIOUS
  <2>1. PICK n \in Other : \A m \in Other : n <= m
    BY LeastOf
  <2>2. n \in Nat /\ n # 0 /\ n # 1 /\ n - 1 \in Nat /\ n - 1 # 0 /\ n - 1 \notin Other
    BY <2>1, <1>10
  <2>3. rounds[n - 1] = final
    BY <2>2
  <2> QED BY <2>1, <2>2, <2>3, <1>8 DEF NextRound
<1>12. L \in Nat /\ L # 0
  BY <1>1, <1>2
<1>13. rounds[L] = final
  BY <1>11, <1>12, Zenon
<1>14. rounds[L].segs = cut
  BY <1>13
<1> QED BY <1>14 DEF Segmented, rounds, cut, seg

LEMMA ResetSame ==
    ASSUME NEW text \in Texts, NEW X, NEW segs, Whole(segs, text, X)
    PROVE  Reset(segs, text, text) = segs
<1> DEFINE n == Len(segs)
           kept == Kept(text, text)
           S == {k \in 0..n : k = 0 \/ segs[k].end <= kept}
<1>1. Len(text) \in Nat /\ n \in Nat /\ segs \in Seq(Segment)
  BY TextIsSeq, Ends DEF Whole
<1>2. kept = Len(text)
  <2>1. /\ kept \in 0..Len(text)
        /\ \A k \in 0..Len(text) : k <= Len(text) /\ SubSeq(text, 1, k) = SubSeq(text, 1, k) => k <= kept
    BY KeptOf
  <2> HIDE DEF kept
  <2> QED BY <2>1, <1>1
<1> HIDE DEF kept
<1>3. n \in S
  BY <1>1, EndOf, Ends, <1>2 DEF Whole, Chained
<1>4. Max(S) \in S /\ \A k \in S : k <= Max(S)
  <2>1. S \subseteq 0..n /\ S # {}
    BY <1>3
  <2> HIDE DEF S, n
  <2> QED BY <2>1, <1>1, MaxOf
<1>5. Max(S) = n
  <2>1. Max(S) \in 0..n
    BY <1>4
  <2> HIDE DEF S, n
  <2> QED BY <2>1, <1>3, <1>4, <1>1
<1>6. Reset(segs, text, text) = Dropped(segs, Max(S))
  BY DEF Reset, kept
<1> HIDE DEF S
<1> QED BY <1>5, <1>6 DEF Dropped

LEMMA CalculatedLast ==
    ASSUME NEW text \in Texts, NEW X, NEW segs, Whole(segs, text, X), segs # <<>>,
           NEW L \in 0..Len(text), L = Len(text),
           Last(segs).start < L, Last(segs).status < kSelected,
           Last(segs).end < L => \A i \in Last(segs).start + 1..L : text[i] \in Alphabet
    PROVE  CalculateSegmentation(segs, text, L)
             = IF Last(segs).end = L THEN segs
               ELSE Append(Front(segs), NewSegment(Last(segs).start, L, {"abc"}))
<1> DEFINE seg == NewSegment(Last(segs).start, L, {"abc"})
           cut == IF Last(segs).end = L THEN segs ELSE Append(Front(segs), seg)
           s == Segmented(segs, text, L)
<1>1. segs \in Seq(Segment) /\ L \in Nat /\ Last(segs) \in Segment /\ Last(segs).end \in Nat
      /\ Last(segs).start \in Nat /\ Last(segs).end <= L
  <2>1. segs \in Seq(Segment) /\ L \in Nat /\ Last(segs) \in Segment /\ CurrentEnd(segs) <= L
    BY Ends, TextIsSeq DEF Whole, Chained
  <2> QED BY <2>1 DEF Segment, CurrentEnd
<1>2. s = cut
  <2>1. CASE Last(segs).end = L
    <3> DEFINE first == [segs |-> segs, more |-> ~HasFinished(segs, text)]
               rounds == Rounds(segs, text, L)
    <3>1. /\ RoundOK(first, segs, 0, text, L, X)
          /\ rounds = [n \in Nat |-> IF n = 0 THEN first ELSE NextRound(rounds[n - 1], text, L)]
      BY RoundsUnfold
    <3>2. first.segs = segs /\ ~first.more
      <4>1. first.segs = segs /\ first.more = ~HasFinished(segs, text)
        OBVIOUS
      <4> HIDE DEF first
      <4> QED BY <2>1, <1>1, <4>1, Zenon DEF HasFinished, CurrentEnd
    <3> HIDE DEF first, rounds
    <3>3. rounds[0] = first
      BY <3>1
    <3>4. \A n \in Nat : rounds[n] = first
      <4> DEFINE Other == {n \in Nat : rounds[n] # first}
      <4> SUFFICES ASSUME Other # {} PROVE FALSE
        OBVIOUS
      <4>1. PICK n \in Other : \A m \in Other : n <= m
        BY LeastOf
      <4>2. n \in Nat /\ n # 0 /\ n - 1 \in Nat /\ n - 1 \notin Other
        BY <4>1, <3>3
      <4>3. rounds[n - 1] = first
        BY <4>2
      <4> QED BY <4>1, <4>2, <4>3, <3>1, <3>2 DEF NextRound
    <3> QED BY <3>2, <3>4, <1>1, <2>1 DEF Segmented, rounds
  <2>2. CASE Last(segs).end # L
    BY <2>2, <1>1, LastRound
  <2> QED BY <2>1, <2>2
<1>3. seg \in Segment /\ seg.start < seg.end /\ seg.status = kVoid
  BY <1>1, NewIsSegment DEF Tags
<1>4. cut \in Seq(Segment) /\ cut # <<>> /\ Last(cut).start < Last(cut).end /\ Last(cut).status < kSelected
  <2>1. CASE Last(segs).end = L
    BY <2>1, <1>1
  <2>2. CASE Last(segs).end # L
    <3> HIDE DEF seg
    <3>1. cut = Append(Front(segs), seg)
      BY <2>2
    <3> HIDE DEF cut
    <3>2. cut \in Seq(Segment) /\ cut # <<>> /\ Last(cut) = seg
      BY <3>1, <1>1, <1>3, LastReplaced
    <3> QED BY <3>2, <1>3
  <2> QED BY <2>1, <2>2
<1> HIDE DEF cut, s, seg
<1>5. Last(cut).start # Last(cut).end /\ ~(Last(cut).status >= kSelected)
  <2>1. Last(cut) \in Segment
    BY <1>4, Ends
  <2>2. Last(cut).start \in Nat /\ Last(cut).end \in Nat /\ Last(cut).status \in kVoid..kConfirmed
    BY <2>1 DEF Segment
  <2> QED BY <2>2, <1>4
<1> QED BY <1>2, <1>5 DEF CalculateSegmentation, s, cut, seg, ForwardIfChosen, Trim, CanTrim,
  IsEmpty

LEMMA ComposedAgain ==
    ASSUME NEW c, NEW X, Good(c, X), c.active = c.input, c.caret = Len(c.input)
    PROVE  Compose(c).segs
             = TranslateSegments(CalculateSegmentation(c.segs, c.input, c.caret), c.input)
<1> DEFINE text == SubSeq(c.input, 1, c.caret)
           r == ResetTo(c, text)
<1>1. c.input \in Texts /\ c.input \in Seq(Keys) /\ Whole(c.segs, c.input, X) /\ IsContext(c)
      /\ Len(c.input) \in Nat
  BY TextIsSeq DEF Good
<1>2. text = c.input
  BY <1>1, SubSeqAll
<1>3. r.segs = c.segs /\ r.active = c.input /\ r.input = c.input /\ r.caret = c.caret
  <2>1. /\ r.active = text /\ r.input = c.input /\ r.caret = c.caret
        /\ r.segs = Reset(c.segs, c.active, text)
    BY <1>1, <1>2, ResetToGood, ZenonT(30)
  <2> HIDE DEF text, r
  <2> QED BY <2>1, <1>1, ResetSame, <1>2
<1>4. Compose(c) = Convert(PastCaret(r))
  BY DEF Compose
<1> HIDE DEF r, text
<1>5. PastCaret(r) = r
  BY <1>1, <1>3 DEF PastCaret
<1>6. IsContext(r)
  BY <1>1, <1>2, ResetToGood DEF r, text, Good
<1> QED BY <1>3, <1>4, <1>5, <1>6 DEF IsContext, Convert

LEMMA ComposedLast ==
    ASSUME NEW c, NEW X, Good(c, X), c.active = c.input, c.caret = Len(c.input), c.segs # <<>>,
           Last(c.segs).start < c.caret, Last(c.segs).status < kSelected,
           Last(c.segs).end < c.caret =>
               /\ \A i \in Last(c.segs).start + 1..c.caret : c.input[i] \in Alphabet
               /\ Last(c.segs).status = kVoid,
           \A i \in 1..Len(c.segs) - 1 : c.segs[i].status >= kGuess
    PROVE  LET new == Compose(c).segs
               n == Len(c.segs)
           IN  /\ new \in Seq(Segment) /\ Len(new) = n /\ \A i \in 1..n - 1 : new[i] = c.segs[i]
               /\ new[n].start = Last(c.segs).start /\ new[n].end = c.caret /\ new[n].status = kGuess
               /\ IF Last(c.segs).status = kGuess THEN new[n] = Last(c.segs)
                  ELSE new[n].menu = Covered(c.input, new[n])
<1> DEFINE n == Len(c.segs)
           last == Last(c.segs)
           L == c.caret
           seg == NewSegment(last.start, L, {"abc"})
           cut == IF last.end = L THEN c.segs ELSE Append(Front(c.segs), seg)
           new == TranslateSegments(cut, c.input)
<1>1. c.input \in Texts /\ Whole(c.segs, c.input, X) /\ L \in 0..Len(c.input) /\ L \in Nat
  BY TextIsSeq DEF Good
<1>2. c.segs \in Seq(Segment) /\ n \in Nat /\ n > 0 /\ DOMAIN c.segs = 1..n /\ c.segs[n] = last /\ last \in Segment
  BY <1>1, Ends DEF Whole
<1>3. last.start \in Nat /\ last.end \in Nat /\ last.status \in kVoid..kConfirmed /\ last.end <= L
  BY <1>1, <1>2 DEF Segment, CurrentEnd, Whole, Chained
<1>4. CalculateSegmentation(c.segs, c.input, L) = cut
  <2>1. L = Len(c.input) /\ last.start < L /\ last.status < kSelected
        /\ (last.end < L => \A i \in last.start + 1..L : c.input[i] \in Alphabet)
    OBVIOUS
  <2>2. last = Last(c.segs) /\ c.segs # <<>>
    OBVIOUS
  <2>3. cut = IF last.end = L THEN c.segs ELSE Append(Front(c.segs), seg)
    OBVIOUS
  <2> DEFINE t == c.input
             segs == c.segs
  <2> HIDE DEF cut, seg, last, L, new, n
  <2>4. t \in Texts /\ Whole(segs, t, X) /\ segs # <<>> /\ L \in 0..Len(t) /\ L = Len(t) /\ last = Last(segs)
        /\ last.start < L /\ last.status < kSelected
        /\ (last.end < L => \A i \in last.start + 1..L : t[i] \in Alphabet)
    BY <2>1, <2>2, <1>1
  <2> HIDE DEF t, segs
  <2>5. CalculateSegmentation(segs, t, L)
          = IF last.end = L THEN segs ELSE Append(Front(segs), NewSegment(last.start, L, {"abc"}))
    BY <2>4, CalculatedLast
  <2> QED BY <2>3, <2>5 DEF t, segs, seg
<1>5. Compose(c).segs = new
  BY <1>4, ComposedAgain
<1>6. Compose(c).segs \in Seq(Segment)
  BY ComposeGood DEF Composed, Good, Whole
<1>7. seg \in Segment /\ seg.start = last.start /\ seg.end = L /\ seg.status = kVoid
  BY <1>1, <1>3, NewIsSegment DEF Tags
<1>8. /\ cut \in Seq(Segment) /\ Len(cut) = n /\ \A i \in 1..n - 1 : cut[i] = c.segs[i]
      /\ cut[n].start = last.start /\ cut[n].end = L
      /\ cut[n].status = kVoid \/ (cut[n].status = kGuess /\ cut[n] = last)
      /\ cut[n].status = last.status
  <2>1. CASE last.end = L
    <3>1. cut = c.segs
      BY <2>1
    <3>2. last.status \in {kVoid, kGuess}
      BY <1>3
    <3> HIDE DEF cut, last
    <3> QED BY <2>1, <3>1, <3>2, <1>2
  <2>2. CASE last.end # L
    <3>1. cut = Append(Front(c.segs), seg)
      BY <2>2
    <3>2. last.status = kVoid
      BY <2>2, <1>1, <1>3
    <3> HIDE DEF cut, seg, last
    <3> QED BY <3>2, <3>1, <1>2, <1>7, LastReplaced
  <2> QED BY <2>1, <2>2
<1>9. last = Last(c.segs)
  OBVIOUS
<1> HIDE DEF cut, seg, last
<1>10. new = [i \in 1..n |->
          IF cut[i].status >= kGuess THEN cut[i]
          ELSE [cut[i] EXCEPT !.status = kGuess, !.menu = Covered(c.input, cut[i]), !.index = 0]]
  BY <1>8, Ends DEF TranslateSegments
<1>11. cut[n] \in Segment /\ n \in 1..n /\ \A i \in 1..n - 1 : i \in 1..n
  BY <1>2, <1>8, Ends
<1> HIDE DEF new
<1>12. Len(new) = n
  <2>1. new \in Seq(Segment) /\ DOMAIN new = 1..n
    BY <1>5, <1>6, <1>10, ZenonT(30)
  <2> HIDE DEF n
  <2> QED BY <2>1, Ends, <1>2
<1> DEFINE made == [cut[n] EXCEPT !.status = kGuess, !.menu = Covered(c.input, cut[n]), !.index = 0]
<1>13. new[n] = IF cut[n].status >= kGuess THEN cut[n] ELSE made
  <2> HIDE DEF n
  <2> QED BY <1>10, <1>11
<1> HIDE DEF made
<1>14. ASSUME NEW i \in 1..n - 1 PROVE new[i] = c.segs[i]
  BY <1>8, <1>10, <1>11
<1>15. CASE cut[n].status = kGuess /\ cut[n] = last
  BY <1>13, <1>15, <1>9, <1>5, <1>6, <1>8, <1>12, <1>14 DEF n, L
<1>16. CASE cut[n].status = kVoid
  <2>1. /\ new[n].start = cut[n].start /\ new[n].end = cut[n].end /\ new[n].status = kGuess
        /\ new[n].menu = Covered(c.input, cut[n])
    BY <1>13, <1>16, <1>11 DEF Segment, made
  <2>2. last.status # kGuess
    BY <1>8, <1>16
  <2> QED BY <2>1, <2>2, <1>9, <1>5, <1>6, <1>8, <1>12, <1>14 DEF n, L, Covered
<1> QED BY <1>8, <1>15, <1>16

(* What is converted in part only is letters. *)
LEMMA PartialLetters ==
    ASSUME NEW seg \in Segment, NEW text \in Texts, seg.end <= Len(text), seg.menu = Covered(text, seg),
           HasCandidate(seg), CandidateEnd(seg) < seg.end
    PROVE  \A i \in seg.start + 1..seg.end : text[i] \in Alphabet
<1> DEFINE b == seg.start
           e == seg.end
           menu == seg.menu
           k == seg.index + 1
<1>1. b \in Nat /\ e \in Nat /\ menu \in Texts /\ seg.index \in Nat /\ Len(text) \in Nat /\ text \in Seq(Keys)
  BY TextIsSeq DEF Segment
<1>2. CandidateLength(seg) \in Nat /\ CandidateLength(seg) >= 1 /\ CandidateLength(seg) < e - b
  BY <1>1, CandidateOf, TextIsSeq DEF CandidateEnd
<1>3. Len(menu) = e - b /\ \A i \in 1..e - b : menu[i] = text[b + i]
  <2>1. menu = SubSeq(text, b + 1, e)
    BY DEF Covered
  <2> HIDE DEF menu, b, e
  <2>2. b + 1 <= e /\ e - (b + 1) + 1 = e - b
    BY <1>1, <1>2
  <2>3. \A i \in 1..e - b : b + 1 + i - 1 = b + i
    BY <1>1
  <2> QED BY <1>1, Part, <2>1, <2>2, <2>3
<1>4. k \in DOMAIN Lengths(menu) /\ Lengths(menu)[k] = CandidateLength(seg)
  <2>1. DOMAIN Lengths(menu) = 1..Len(Lengths(menu)) /\ Len(Lengths(menu)) \in Nat
    BY <1>1, CandidateAssumption, Ends
  <2> QED BY <2>1, <1>1 DEF CandidateLength, HasCandidate, Count
<1>5. menu \in Seq(Alphabet)
  <2> HIDE DEF menu, b, e, k
  <2> QED BY <1>1, <1>2, <1>3, <1>4, PartAssumption
<1>6. ASSUME NEW i \in b + 1..e PROVE text[i] \in Alphabet
  <2> DEFINE m == i - b
  <2>1. m \in 1..e - b /\ b + m = i
    BY <1>1
  <2> HIDE DEF m, menu, b, e
  <2> QED BY <2>1, <1>3, <1>5, Ends
<1> QED BY <1>6

LEMMA LastPlaced ==
    ASSUME NEW c, IsContext(c), c.segs \in Seq(Segment), c.segs # <<>>, NEW x \in Segment
    PROVE  LET d == WithLast(c, x)
               n == Len(c.segs)
           IN  /\ d.input = c.input /\ d.caret = c.caret /\ d.active = c.active /\ d.sent = c.sent
               /\ IsContext(d) /\ d.segs \in Seq(Segment) /\ d.segs # <<>> /\ Len(d.segs) = n
               /\ Last(d.segs) = x /\ d.segs[n] = x /\ \A i \in 1..n - 1 : d.segs[i] = c.segs[i]
<1> DEFINE r == Append(Front(c.segs), x)
           d == WithLast(c, x)
           n == Len(c.segs)
<1>1. d = WithSegs(c, r)
  BY DEF WithLast, WithSegs
<1>2. r \in Seq(Segment) /\ r # <<>> /\ Len(r) = n /\ Last(r) = x /\ r[n] = x /\ \A i \in 1..n - 1 : r[i] = c.segs[i]
  <2> DEFINE segs == c.segs
  <2> HIDE DEF segs
  <2> QED BY LastReplaced DEF segs
<1> HIDE DEF r, d
<1> QED BY <1>2, <1>1, WithSegsIs DEF d

LEMMA LastChosenIs ==
    ASSUME NEW c, c.segs \in Seq(Segment), NEW n \in Nat \ {0}, Len(c.segs) = n + 1,
           c.segs[n].status >= kSelected, c.segs[n + 1].status < kSelected
    PROVE  LastChosen(c) = n
<1> DEFINE k == LastChosen(c)
<1>1. /\ k \in 0..Len(c.segs) /\ (k # 0 => c.segs[k].status >= kSelected)
      /\ \A i \in DOMAIN c.segs : c.segs[i].status >= kSelected => i <= k
  BY LastChosenOf
<1>2. DOMAIN c.segs = 1..n + 1 /\ \A i \in 1..n + 1 : c.segs[i] \in Segment
  BY Ends
<1> HIDE DEF k
<1>3. n \in DOMAIN c.segs /\ n + 1 \in 1..n + 1
  BY <1>2
<1>4. c.segs[n + 1].status \in kVoid..kConfirmed
  BY <1>2, <1>3 DEF Segment
<1>5. k = n
  BY <1>1, <1>3, <1>4
<1> QED BY <1>5 DEF k

LEMMA ForwardedAdds ==
    ASSUME NEW c, Good(c, {}), c.segs # <<>>, ~IsEmpty(Last(c.segs))
    PROVE  LET f == Forwarded(c)
               n == Len(c.segs)
           IN  /\ f.segs \in Seq(Segment) /\ Len(f.segs) = n + 1 /\ \A i \in 1..n : f.segs[i] = c.segs[i]
               /\ Last(f.segs) = f.segs[n + 1] /\ f.segs[n + 1].status = kVoid
               /\ f.segs[n + 1].start = Last(c.segs).end /\ f.segs[n + 1].end = Last(c.segs).end
<1> DEFINE e == Last(c.segs).end
           x == NewSegment(e, e, {})
           r == Append(c.segs, x)
           f == Forwarded(c)
           n == Len(c.segs)
<1>1. c.segs \in Seq(Segment) /\ Last(c.segs) \in Segment /\ n \in Nat
  BY Ends DEF Good, Whole
<1>2. e \in Nat
  BY <1>1 DEF Segment
<1>3. f = WithSegs(c, r)
  BY DEF Forwarded, WithSegs, Forward
<1> HIDE DEF e
<1>4. x \in Segment /\ x.start = e /\ x.end = e /\ x.status = kVoid
  BY <1>2, NewIsSegment
<1> HIDE DEF x
<1>5. r \in Seq(Segment) /\ Len(r) = n + 1 /\ r[n + 1] = x /\ \A i \in 1..n : r[i] = c.segs[i]
  <2> DEFINE segs == c.segs
  <2>1. segs \in Seq(Segment) /\ n = Len(segs)
    BY <1>1
  <2> HIDE DEF segs, n
  <2> QED BY <2>1, <1>4, AppendProperties DEF segs
<1> HIDE DEF r, f
<1>6. Last(r) = r[n + 1]
  BY <1>5 DEF Last
<1> QED BY <1>4, <1>5, <1>3, WithSegsIs, <1>6 DEF e, f, Good

LEMMA CommitEmpties ==
    ASSUME NEW c, Standing(c)
    PROVE  Commit(c).input = <<>>
<1>1. CASE IsComposing(c)
  <2> DEFINE t == CommitText(c)
             d == Sink(c, t)
  <2>1. c.caret = Len(c.input) /\ ~Loose(c) => t = c.input
    BY CommitTextInFull
  <2> HIDE DEF t
  <2>2. IsContext(d) /\ d.active = c.active /\ SentInFull(d.sent)
    BY <2>1, SinkInFull
  <2>3. Commit(c) = Clear(d)
    BY <1>1 DEF Commit, t
  <2> HIDE DEF d
  <2> QED BY <2>2, <2>3, ClearRests DEF Standing, Good
<1>2. CASE ~IsComposing(c)
  BY <1>2 DEF Commit, IsComposing
<1> QED BY <1>1, <1>2

(* A choice of all that is left is committed, or confirmed: it is not      *)
(* reopened.                                                               *)
LEMMA WholeNotReopened ==
    ASSUME NEW d, Standing(d), d.segs # <<>>, ~IsEmpty(Last(d.segs)), Last(d.segs).end = Len(d.input),
           OnClosed(d).input # <<>>
    PROVE  ~CanReopenSelection(OnClosed(d))
<1> DEFINE x == [Last(d.segs) EXCEPT !.status = kConfirmed]
           conf == WithLast(d, x)
           n == Len(d.segs)
           f == Forwarded(conf)
<1>1. /\ Standing(conf) /\ conf.segs # <<>> /\ Last(conf.segs) = x /\ x.status = kConfirmed
      /\ x.end = Last(d.segs).end /\ x.start = Last(d.segs).start
  BY LastMarked
<1>2. conf = Confirmed(d)
  BY DEF Confirmed
<1> HIDE DEF x, conf
<1>3. OnClosed(d) = f
  BY <1>1, CommitEmpties, <1>2 DEF OnClosed
<1> DEFINE m == Len(conf.segs)
<1>4. Good(conf, {}) /\ conf.segs \in Seq(Segment) /\ m \in Nat \ {0} /\ conf.segs[m] = x
  BY <1>1, Ends DEF Standing, Good, Whole
<1>5. /\ f.segs \in Seq(Segment) /\ Len(f.segs) = m + 1 /\ \A i \in 1..m : f.segs[i] = conf.segs[i]
      /\ f.segs[m + 1].status = kVoid
  BY <1>1, <1>4, ForwardedAdds DEF IsEmpty
<1> HIDE DEF f, m
<1>6. f.segs[m] = x
  BY <1>4, <1>5
<1>7. ~ChosenOnly(f)
  BY <1>1, <1>6, <1>4, <1>5, LastChosenIs DEF ChosenOnly
<1> QED BY <1>3, <1>7 DEF CanReopenSelection

(* None but the last segment is void. *)
LEMMA InsideGuessed ==
    ASSUME NEW c, Standing(c)
    PROVE  \A i \in 1..Len(c.segs) - 1 : c.segs[i].status >= kGuess
<1> SUFFICES ASSUME NEW i \in 1..Len(c.segs) - 1 PROVE c.segs[i].status >= kGuess
  OBVIOUS
<1>1. c.segs \in Seq(Segment) /\ Whole(c.segs, c.active, {}) /\ VoidIsEmpty(c.segs)
  BY DEF Standing, Good, Whole
<1>2. Len(c.segs) \in Nat /\ DOMAIN c.segs = 1..Len(c.segs)
  BY <1>1, Ends
<1>3. i \in 1..Len(c.segs) /\ i # Len(c.segs)
  BY <1>2
<1>4. i \in DOMAIN c.segs /\ c.segs[i] \in Segment
  BY <1>1, <1>2, <1>3, Ends
<1>5. c.segs[i].status # kVoid
  BY <1>1, <1>4, <1>3 DEF VoidIsEmpty, Whole, Chained
<1> QED BY <1>4, <1>5 DEF Segment

(* A choice of a part is kept, and what it leaves is cut into a segment.   *)
LEMMA PartKept ==
    ASSUME NEW d, Standing(d), d.segs # <<>>, d.caret = Len(d.input), NEW b \in Nat,
           Last(d.segs).start = b, ~IsEmpty(Last(d.segs)), Last(d.segs).status = kSelected,
           Last(d.segs).end < d.caret, \A i \in b + 1..d.caret : d.input[i] \in Alphabet
    PROVE  LET chosen == OnClosed(d)
               n == Len(d.segs)
           IN  /\ Resting(chosen) /\ chosen.input = d.input /\ chosen.caret = d.caret
               /\ LastChosen(chosen) = n /\ Len(chosen.segs) = n + 1
               /\ \A i \in 1..n : chosen.segs[i] = d.segs[i]
<1> DEFINE n == Len(d.segs)
           f == Forwarded(d)
           e == Last(d.segs).end
           chosen == OnClosed(d)
<1>1. /\ Good(d, {}) /\ d.segs \in Seq(Segment) /\ n \in Nat \ {0} /\ Last(d.segs) \in Segment
      /\ d.segs[n] = Last(d.segs) /\ DOMAIN d.segs = 1..n /\ d.caret \in Nat /\ VoidIsEmpty(d.segs)
      /\ Whole(d.segs, d.active, {})
  BY Ends, TextIsSeq DEF Standing, Good, Whole
<1>2. e \in Nat /\ b <= e /\ e < d.caret
  <2>1. Last(d.segs).start <= Last(d.segs).end
    BY <1>1 DEF Whole, Chained
  <2> QED BY <2>1, <1>1 DEF Segment
<1>3. OnClosed(d) = Compose(f)
  BY <1>1, <1>2 DEF OnClosed
<1>4. /\ f.segs \in Seq(Segment) /\ Len(f.segs) = n + 1 /\ \A i \in 1..n : f.segs[i] = d.segs[i]
      /\ Last(f.segs) = f.segs[n + 1] /\ f.segs[n + 1].status = kVoid
      /\ f.segs[n + 1].start = e /\ f.segs[n + 1].end = e
  BY <1>1, ForwardedAdds
<1>5. Standing(f) /\ f.input = d.input /\ f.caret = d.caret
  BY ForwardedStands
<1> HIDE DEF f, e
<1>6. Good(f, {}) /\ f.active = f.input /\ f.caret = Len(f.input) /\ f.segs # <<>>
  BY <1>1, <1>4, Ends, <1>5, ActiveIsInput DEF Standing
<1>7. /\ Compose(f).segs \in Seq(Segment) /\ Len(Compose(f).segs) = Len(f.segs)
      /\ \A i \in 1..Len(f.segs) - 1 : Compose(f).segs[i] = f.segs[i]
      /\ Compose(f).segs[Len(f.segs)].status = kGuess
  <2>1. /\ Last(f.segs).start < f.caret /\ Last(f.segs).status < kSelected /\ Last(f.segs).status = kVoid
        /\ \A i \in Last(f.segs).start + 1..f.caret : f.input[i] \in Alphabet
    BY <1>2, <1>4, <1>5, <1>1
  <2> QED BY <2>1, <1>6, <1>1, <1>4, <1>5, InsideGuessed, ComposedLast
<1> HIDE DEF chosen
<1>8. chosen = Compose(f)
  BY <1>3 DEF chosen
<1>9. /\ chosen.segs \in Seq(Segment) /\ Len(chosen.segs) = n + 1 /\ \A i \in 1..n : chosen.segs[i] = d.segs[i]
      /\ chosen.segs[n + 1].status = kGuess
  <2> DEFINE g == Compose(f)
  <2>1. g.segs \in Seq(Segment) /\ Len(g.segs) = n + 1 /\ g.segs[n + 1].status = kGuess
    BY <1>4, <1>7
  <2>2. \A i \in 1..n : g.segs[i] = f.segs[i]
    <3>1. Len(f.segs) - 1 = n
      BY <1>1, <1>4
    <3> QED BY <1>7, <3>1
  <2> HIDE DEF g, n
  <2>3. \A i \in 1..n : g.segs[i] = d.segs[i]
    BY <1>4, <2>2
  <2> QED BY <1>8, <2>1, <2>3 DEF g
<1>10. LastChosen(chosen) = n
  <2> HIDE DEF n
  <2> QED BY <1>1, <1>9, LastChosenIs
<1> QED BY <1>5, <1>6, ComposeRests, ComposeGood, <1>8, <1>9, <1>10 DEF chosen

(* Reopened, it covers what it did: its old text with its candidates, or   *)
(* cut anew, the same text translated again.                               *)
LEMMA PartReopened ==
    ASSUME NEW c, Standing(c), c.caret = Len(c.input), c.segs # <<>>,
           NEW y, y = Last(c.segs), y.status = kSelected, ~IsEmpty(y), y.end < c.caret,
           \A i \in y.start + 1..c.caret : c.input[i] \in Alphabet
    PROVE  LET new == Compose(ReopenLast(c))
               n == Len(c.segs)
           IN  /\ new.input = c.input /\ new.segs \in Seq(Segment) /\ Len(new.segs) = n
               /\ \A i \in 1..n - 1 : new.segs[i] = c.segs[i]
               /\ new.segs[n].start = y.start /\ new.segs[n].end = c.caret
               /\ IF OriginalEnd(y) = c.caret THEN new.segs[n].menu = y.menu /\ new.segs[n].index = y.index
                  ELSE new.segs[n].menu = SubSeq(c.input, y.start + 1, c.caret)
<1> DEFINE z == Reopen(y, c.caret)
           d == ReopenLast(c)
           n == Len(c.segs)
           X == Reopened(c)
           new == Compose(d)
<1>1. /\ IsContext(c) /\ c.segs \in Seq(Segment) /\ Whole(c.segs, c.active, {}) /\ c.caret \in Nat
      /\ n \in Nat \ {0} /\ y \in Segment /\ c.segs[n] = y /\ c.active = c.input /\ Good(c, {})
  BY Ends, TextIsSeq, ActiveIsInput DEF Standing, Good, Whole
<1>2. y.start \in Nat /\ y.end \in Nat /\ y.start < y.end /\ y.tags \in SUBSET Tags /\ y.length \in Nat
  <2>1. y.start \in Nat /\ y.end \in Nat /\ y.tags \in SUBSET Tags /\ y.length \in Nat
    BY <1>1 DEF Segment
  <2> QED BY <2>1, <1>1, Ends DEF IsEmpty, Whole, Chained
<1>3. /\ z \in Segment /\ z.start = y.start /\ z.end <= c.caret
      /\ IF OriginalEnd(y) = c.caret
         THEN z.status = kGuess /\ z.end = c.caret /\ z.menu = y.menu /\ z.index = y.index
         ELSE z.status = kVoid
  <2>1. CASE OriginalEnd(y) = c.caret
    <3> DEFINE tags == y.tags \ {"partial"}
               p == c.caret
    <3>1. z = [y EXCEPT !.status = kGuess, !.end = p, !.tags = tags]
      BY <1>1, <1>2, <2>1 DEF Reopen
    <3>2. tags \in SUBSET Tags /\ p \in Nat /\ y.menu \in Texts /\ y.index \in Nat
      BY <1>1, <1>2 DEF Segment
    <3>3. p = c.caret
      OBVIOUS
    <3> HIDE DEF tags, p, z
    <3>4. z = [status |-> kGuess, start |-> y.start, end |-> p, length |-> y.length,
               tags |-> tags, menu |-> y.menu, index |-> y.index]
      BY <3>1, <1>1 DEF Segment
    <3> QED BY <3>2, <3>3, <3>4, <1>2, <2>1 DEF Segment
  <2>2. CASE OriginalEnd(y) # c.caret
    <3>1. z = [y EXCEPT !.status = kVoid]
      BY <1>1, <2>2 DEF Reopen
    <3>2. y \in Segment /\ kVoid \in kVoid..kConfirmed
      BY <1>1
    <3> HIDE DEF z
    <3>3. z \in Segment /\ z.start = y.start /\ z.end = y.end /\ z.status = kVoid
      BY <3>1, <3>2 DEF Segment
    <3> QED BY <3>3, <2>2, <1>1, <1>2
  <2> QED BY <2>1, <2>2
<1>4. d = WithLast(c, z)
  BY DEF ReopenLast
<1> HIDE DEF z
<1>5. /\ d.input = c.input /\ d.caret = c.caret /\ d.active = c.active
      /\ d.segs \in Seq(Segment) /\ d.segs # <<>> /\ Len(d.segs) = n
      /\ Last(d.segs) = z /\ \A i \in 1..n - 1 : d.segs[i] = c.segs[i]
  BY <1>1, <1>3, <1>4, LastPlaced
<1>6. Good(d, X)
  BY <1>1, CaretInActive, ReopenLastGood
<1> HIDE DEF d, X
<1>7. /\ Compose(d).segs \in Seq(Segment) /\ Len(Compose(d).segs) = Len(d.segs)
      /\ \A i \in 1..Len(d.segs) - 1 : Compose(d).segs[i] = d.segs[i]
      /\ Compose(d).segs[Len(d.segs)].start = Last(d.segs).start
      /\ Compose(d).segs[Len(d.segs)].end = d.caret
      /\ IF Last(d.segs).status = kGuess THEN Compose(d).segs[Len(d.segs)] = Last(d.segs)
         ELSE Compose(d).segs[Len(d.segs)].menu = Covered(d.input, Compose(d).segs[Len(d.segs)])
  <2>1. \A i \in 1..Len(d.segs) - 1 : d.segs[i].status >= kGuess
    BY <1>5, InsideGuessed
  <2>2. Last(d.segs).start < d.caret /\ Last(d.segs).status < kSelected
    BY <1>1, <1>2, <1>3, <1>5
  <2>3. Last(d.segs).end < d.caret =>
            /\ \A i \in Last(d.segs).start + 1..d.caret : d.input[i] \in Alphabet
            /\ Last(d.segs).status = kVoid
    BY <1>1, <1>3, <1>5
  <2>4. d.active = d.input /\ d.caret = Len(d.input)
    BY <1>1, <1>5
  <2> QED BY <2>1, <2>2, <2>3, <2>4, <1>5, <1>6, ComposedLast
<1> HIDE DEF new, n
<1>8. new.input = c.input
  BY <1>5, <1>6, ComposeGood DEF new
<1> QED BY <1>3, <1>5, <1>7, <1>8 DEF new, n, d, Covered

(* What is chosen, and what is left of it.                                 *)
LEMMA SelectedIs ==
    ASSUME NEW c, Resting(c), NEW i \in Nat, CanSelect(c, i), c.caret = Len(c.input)
    PROVE  LET seg == Last(c.segs)
               n == Len(c.segs)
               x == [seg EXCEPT !.index = i, !.status = kSelected]
               y == Close(x)
               d == WithLast(WithLast(c, x), y)
           IN  /\ seg.menu = Covered(c.input, seg) /\ seg.start < seg.end /\ seg.end = c.caret
               /\ Select(c, i) = OnClosed(d) /\ Standing(d)
               /\ d.input = c.input /\ d.caret = c.caret
               /\ d.segs \in Seq(Segment) /\ d.segs # <<>> /\ Len(d.segs) = n /\ Last(d.segs) = y /\ d.segs[n] = y
               /\ \A k \in 1..n - 1 : d.segs[k] = c.segs[k]
               /\ y.start = seg.start /\ y.menu = seg.menu /\ y.index = i /\ y.status = kSelected
               /\ y.length = seg.length /\ y.start < y.end
               /\ y.end = c.caret \/ (y.end < c.caret /\ \A k \in seg.start + 1..c.caret : c.input[k] \in Alphabet)
<1> DEFINE seg == Last(c.segs)
           n == Len(c.segs)
           x == [seg EXCEPT !.index = i, !.status = kSelected]
           y == Close(x)
           d0 == WithLast(c, x)
           d == WithLast(d0, y)
<1>1. /\ Standing(c) /\ IsContext(c) /\ c.segs \in Seq(Segment) /\ c.segs # <<>> /\ i < Count(seg) /\ c.input \in Texts
      /\ CurrentEnd(c.segs) >= c.caret /\ LastIsOpen(c.segs) /\ c.active = c.input
  BY ActiveIsInput DEF Resting, CanSelect, Standing, Good, Whole
<1>2. /\ seg \in Segment /\ seg.start <= seg.end /\ seg.end <= Len(c.input)
      /\ IsEmpty(seg) => Count(seg) = 0
      /\ seg.status = kVoid => Count(seg) = 0
      /\ seg.status = kGuess => seg.menu = Covered(c.input, seg)
      /\ seg.end = CurrentEnd(c.segs)
  BY <1>1, LastSegment
<1>3. (seg.status >= kSelected => IsEmpty(seg)) /\ seg = Last(c.segs)
  BY <1>1 DEF LastIsOpen
<1>4. /\ x \in Segment /\ x.status = kSelected /\ Standing(d0) /\ d0.segs # <<>> /\ Last(d0.segs) = x
  BY SelectedStands
<1>5. x = [seg EXCEPT !.index = i, !.status = kSelected] /\ y = Close(x) /\ d0 = WithLast(c, x) /\ d = WithLast(d0, y)
  OBVIOUS
<1>6. Select(c, i) = OnSelect(d0)
  BY DEF Select
<1> HIDE DEF seg, x, d0, y, d, n
<1>7. seg.start \in Nat /\ seg.end \in Nat /\ seg.status \in kVoid..kConfirmed /\ seg.length \in Nat /\ Len(c.input) \in Nat
  BY <1>1, <1>2, TextIsSeq DEF Segment
<1>8. seg.menu = Covered(c.input, seg) /\ seg.start < seg.end /\ seg.end = c.caret
  BY <1>1, <1>2, <1>3, <1>7, SMTT(30) DEF IsEmpty
<1>9. /\ x.start = seg.start /\ x.end = seg.end /\ x.menu = seg.menu /\ x.index = i /\ x.length = seg.length
  BY <1>2, <1>5 DEF Segment
<1>10. /\ y \in Segment /\ Standing(d)
  <2>1. Last(d0.segs).status >= kSelected
    BY <1>4
  <2> QED BY <2>1, <1>4, ClosedStands, <1>5
<1>11. Select(c, i) = OnClosed(d)
  BY <1>4, <1>5, <1>6 DEF OnSelect
<1>12. /\ d0.input = c.input /\ d0.caret = c.caret /\ d0.segs \in Seq(Segment) /\ IsContext(d0)
       /\ Len(d0.segs) = n /\ \A k \in 1..n - 1 : d0.segs[k] = c.segs[k]
  BY <1>1, <1>4, <1>5, LastPlaced DEF n
<1>13. /\ d.input = c.input /\ d.caret = c.caret /\ d.segs \in Seq(Segment) /\ d.segs # <<>>
       /\ Len(d.segs) = n /\ Last(d.segs) = y /\ d.segs[n] = y /\ \A k \in 1..n - 1 : d.segs[k] = c.segs[k]
  BY <1>4, <1>5, <1>10, <1>12, LastPlaced
<1>14. /\ y.start = seg.start /\ y.menu = seg.menu /\ y.index = i /\ y.status = kSelected /\ y.length = seg.length
       /\ y.start < y.end
       /\ y.end = c.caret \/ (y.end < c.caret /\ \A k \in seg.start + 1..c.caret : c.input[k] \in Alphabet)
  <2>1. CASE HasCandidate(x) /\ CandidateEnd(x) < x.end
    <3> DEFINE tags == x.tags \union {"partial"}
               e == CandidateEnd(x)
    <3>1. y = [x EXCEPT !.end = e, !.tags = tags] /\ e = CandidateEnd(x)
      BY <2>1, <1>5 DEF Close
    <3>2. e \in Nat /\ e > x.start
      BY <2>1, <1>4, CandidateOf
    <3> HIDE DEF tags, e
    <3>3. \A k \in x.start + 1..x.end : c.input[k] \in Alphabet
      BY <2>1, <1>8, <1>9, <1>1, <1>2, <1>4, PartialLetters DEF Covered
    <3> QED BY <2>1, <3>1, <3>2, <1>4, <3>3, <1>7, <1>8, <1>9 DEF Segment
  <2>2. CASE ~(HasCandidate(x) /\ CandidateEnd(x) < x.end)
    BY <2>2, <1>5, <1>4, <1>8, <1>9 DEF Close
  <2> QED BY <2>1, <2>2
<1> QED BY <1>8, <1>10, <1>11, <1>13, <1>14 DEF seg, x, y, d0, d, n

LEMMA SelectedAndBack ==
    ASSUME NEW c, Resting(c), NEW i \in Nat, CanSelect(c, i), c.caret = Len(c.input),
           Select(c, i).input # <<>>, CanReopenSelection(Select(c, i))
    PROVE  LET undone == ReopenPreviousSelection(Select(c, i))
               n == Len(c.segs)
           IN  /\ undone.input = c.input /\ undone.segs \in Seq(Segment) /\ Len(undone.segs) = n
               /\ \A k \in 1..n - 1 : undone.segs[k] = c.segs[k]
               /\ undone.segs[n].start = Last(c.segs).start /\ undone.segs[n].end = Last(c.segs).end
               /\ undone.segs[n].menu = Last(c.segs).menu
               /\ OriginalEnd(Last(c.segs)) = c.caret => undone.segs[n].index = i
<1> DEFINE seg == Last(c.segs)
           n == Len(c.segs)
           x == [seg EXCEPT !.index = i, !.status = kSelected]
           y == Close(x)
           d == WithLast(WithLast(c, x), y)
           chosen == Select(c, i)
           r == SubSeq(chosen.segs, 1, n)
           g == WithSegs(chosen, r)
           undone == ReopenPreviousSelection(chosen)
<1>1. /\ seg.menu = Covered(c.input, seg) /\ seg.start < seg.end /\ seg.end = c.caret
      /\ chosen = OnClosed(d) /\ Standing(d)
      /\ d.input = c.input /\ d.caret = c.caret
      /\ d.segs \in Seq(Segment) /\ d.segs # <<>> /\ Len(d.segs) = n /\ Last(d.segs) = y /\ d.segs[n] = y
      /\ \A k \in 1..n - 1 : d.segs[k] = c.segs[k]
      /\ y.start = seg.start /\ y.menu = seg.menu /\ y.index = i /\ y.status = kSelected
      /\ y.length = seg.length /\ y.start < y.end
      /\ y.end = c.caret \/ (y.end < c.caret /\ \A k \in seg.start + 1..c.caret : c.input[k] \in Alphabet)
  BY SelectedIs, Zenon
<1>2. n \in Nat \ {0} /\ y \in Segment /\ y.start \in Nat /\ y.end \in Nat
  <2>1. n \in Nat \ {0} /\ y \in Segment
    BY <1>1, Ends
  <2> QED BY <2>1 DEF Segment
<1>3. seg = Last(c.segs) /\ n = Len(c.segs) /\ chosen = Select(c, i)
  OBVIOUS
<1>4. undone = Compose(ReopenLast([chosen EXCEPT !.segs = SubSeq(@, 1, LastChosen(chosen))]))
  BY DEF ReopenPreviousSelection
<1> HIDE DEF seg, n, y, d, x, chosen, undone
<1>5. ~IsEmpty(y)
  BY <1>1, <1>2 DEF IsEmpty
<1>6. y.end < c.caret /\ \A k \in seg.start + 1..c.caret : c.input[k] \in Alphabet
  <2>1. y.end # c.caret
    <3> SUFFICES ASSUME y.end = c.caret PROVE FALSE
      OBVIOUS
    <3>1. Last(d.segs).end = Len(d.input) /\ ~IsEmpty(Last(d.segs))
      BY <1>1, <1>5
    <3> QED BY <3>1, <1>1, <1>3, WholeNotReopened
  <2> QED BY <2>1, <1>1
<1>7. /\ Resting(chosen) /\ chosen.input = d.input /\ chosen.caret = d.caret
      /\ LastChosen(chosen) = n /\ Len(chosen.segs) = n + 1
      /\ \A k \in 1..n : chosen.segs[k] = d.segs[k]
  <2> DEFINE b == y.start
  <2>1. b \in Nat /\ Last(d.segs).start = b /\ ~IsEmpty(Last(d.segs)) /\ Last(d.segs).status = kSelected
    BY <1>1, <1>2, <1>5
  <2>2. d.caret = Len(d.input) /\ Last(d.segs).end < d.caret
    BY <1>1, <1>6
  <2>3. \A k \in b + 1..d.caret : d.input[k] \in Alphabet
    BY <1>1, <1>6
  <2> HIDE DEF b
  <2> QED BY <2>1, <2>2, <2>3, <1>1, PartKept, ZenonT(30)
<1>8. undone = Compose(ReopenLast(g))
  BY <1>4, <1>7 DEF WithSegs
<1>9. Standing(chosen) /\ chosen.segs \in Seq(Segment) /\ n \in 0..Len(chosen.segs)
  BY <1>2, <1>7 DEF Resting, Standing, Good, Whole
<1>10. Standing(g) /\ g.segs = r /\ g.input = chosen.input /\ g.caret = chosen.caret
  BY <1>9, PrefixStands
<1>11. Len(r) = n /\ \A k \in 1..n : r[k] = d.segs[k]
  <2> DEFINE segs == chosen.segs
  <2> HIDE DEF segs
  <2> QED BY <1>9, Prefix, <1>7 DEF segs
<1> HIDE DEF g, r
<1>12. g.segs \in Seq(Segment) /\ g.segs # <<>> /\ Len(g.segs) = n /\ Last(g.segs) = y
  BY <1>10, <1>1, <1>2, <1>11, Ends DEF Standing, Good, Whole
<1>13. /\ Compose(ReopenLast(g)).input = g.input /\ Compose(ReopenLast(g)).segs \in Seq(Segment)
       /\ Len(Compose(ReopenLast(g)).segs) = Len(g.segs)
       /\ \A k \in 1..Len(g.segs) - 1 : Compose(ReopenLast(g)).segs[k] = g.segs[k]
       /\ Compose(ReopenLast(g)).segs[Len(g.segs)].start = y.start
       /\ Compose(ReopenLast(g)).segs[Len(g.segs)].end = g.caret
       /\ IF OriginalEnd(y) = g.caret
          THEN /\ Compose(ReopenLast(g)).segs[Len(g.segs)].menu = y.menu
               /\ Compose(ReopenLast(g)).segs[Len(g.segs)].index = y.index
          ELSE Compose(ReopenLast(g)).segs[Len(g.segs)].menu = SubSeq(g.input, y.start + 1, g.caret)
  <2>1. g.caret = Len(g.input) /\ y.end < g.caret /\ \A k \in y.start + 1..g.caret : g.input[k] \in Alphabet
    BY <1>1, <1>6, <1>7, <1>10
  <2>2. y = Last(g.segs) /\ y.status = kSelected /\ g.segs # <<>>
    BY <1>1, <1>12
  <2> QED BY <2>1, <2>2, <1>5, <1>10, PartReopened, ZenonT(30)
<1>14. g.input = c.input /\ g.caret = c.caret /\ Len(g.segs) = n /\ \A k \in 1..n : g.segs[k] = d.segs[k]
  BY <1>1, <1>7, <1>10, <1>11, <1>12
<1>15. /\ undone.input = c.input /\ undone.segs \in Seq(Segment) /\ Len(undone.segs) = n
       /\ \A k \in 1..n - 1 : undone.segs[k] = g.segs[k]
       /\ undone.segs[n].start = y.start /\ undone.segs[n].end = c.caret
       /\ IF OriginalEnd(y) = c.caret THEN undone.segs[n].menu = y.menu /\ undone.segs[n].index = y.index
          ELSE undone.segs[n].menu = SubSeq(c.input, y.start + 1, c.caret)
  BY <1>8, <1>13, <1>14
<1>16. ASSUME NEW k \in 1..n - 1 PROVE undone.segs[k] = c.segs[k]
  BY <1>2, <1>1, <1>14, <1>15
<1>17. undone.segs[n].menu = seg.menu
  BY <1>1, <1>15 DEF Covered
<1> QED BY <1>15, <1>16, <1>1, <1>17 DEF undone, chosen, seg, n, OriginalEnd

LEMMA InvIsUndo == Inv => UndoRestores
<1> SUFFICES ASSUME Inv, NEW i \in 0..MaxInput, Fits, CanSelect(ctx, i), ctx.caret = Len(ctx.input),
                    Select(Now, i).input # <<>>, CanReopenSelection(Select(Now, i))
             PROVE  LET undone == ReopenPreviousSelection(Select(Now, i))
                    IN  /\ Shape(undone) = Shape(ctx) /\ undone.input = ctx.input
                        /\ OriginalEnd(Last(ctx.segs)) = ctx.caret => Last(undone.segs).index = i
  BY DEF UndoRestores
<1> DEFINE undone == ReopenPreviousSelection(Select(Now, i))
           n == Len(ctx.segs)
<1>1. i \in Nat
  BY EngineAssumption
<1>2. /\ Resting(Now) /\ Now.input = ctx.input /\ Now.caret = ctx.caret /\ Now.segs = ctx.segs
      /\ Now.active = ctx.active
  BY NowRests DEF Inv
<1>3. /\ undone.input = Now.input /\ undone.segs \in Seq(Segment) /\ Len(undone.segs) = Len(Now.segs)
      /\ \A k \in 1..Len(Now.segs) - 1 : undone.segs[k] = Now.segs[k]
      /\ undone.segs[Len(Now.segs)].start = Last(Now.segs).start
      /\ undone.segs[Len(Now.segs)].end = Last(Now.segs).end
      /\ undone.segs[Len(Now.segs)].menu = Last(Now.segs).menu
      /\ OriginalEnd(Last(Now.segs)) = Now.caret => undone.segs[Len(Now.segs)].index = i
  BY <1>1, <1>2, SelectedAndBack DEF CanSelect
<1> HIDE DEF undone
<1>4. /\ undone.input = ctx.input /\ undone.segs \in Seq(Segment) /\ Len(undone.segs) = n
      /\ \A k \in 1..n - 1 : undone.segs[k] = ctx.segs[k]
      /\ undone.segs[n].start = Last(ctx.segs).start
      /\ undone.segs[n].end = Last(ctx.segs).end
      /\ undone.segs[n].menu = Last(ctx.segs).menu
      /\ OriginalEnd(Last(ctx.segs)) = ctx.caret => undone.segs[n].index = i
  BY <1>2, <1>3
<1>5. ctx.segs \in Seq(Segment) /\ n \in Nat /\ DOMAIN ctx.segs = 1..n /\ Last(ctx.segs) = ctx.segs[n]
  BY <1>2, Ends DEF Resting, Standing, Good, Whole
<1> HIDE DEF n
<1>6. ASSUME NEW k \in 1..n
      PROVE  /\ undone.segs[k].start = ctx.segs[k].start /\ undone.segs[k].end = ctx.segs[k].end
             /\ undone.segs[k].menu = ctx.segs[k].menu
  BY <1>5, <1>4
<1> QED BY <1>4, Ends, <1>5, <1>6 DEF undone, Shape

(* A candidate chosen at the end of the input and taken back at once       *)
(* leaves the composition as it was, the choice still highlighted          *)
(* (context.cc:226, segmentation.cc:26).                                   *)
THEOREM UndoRestoresAlways == Spec => []UndoRestores
BY Invariance, InvIsUndo, PTL

=============================================================================
