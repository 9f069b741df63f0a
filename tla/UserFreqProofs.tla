--------------------------- MODULE UserFreqProofs ---------------------------
(***************************************************************************)
(* Theorems about UserFreq, for any words, any interval between saves and  *)
(* any crashes, at any place of the file.                                  *)
(***************************************************************************)
EXTENDS UserFreq, TLAPS

Ordered(s) == \A w \in Word : s.freq[w].tick <= s.tick
OrderedFile(f) == \A w \in Word : f.full[w].tick <= f.tick

\* Every number cut short is smaller than the number.
LEMMA CutSmaller == ASSUME NEW n \in Nat, NEW c \in Cut(n) PROVE c \in Nat /\ c <= n
  BY DEF Cut

\* A file whose words are no younger than its tick is read as it stands.
LEMMA ReadOrdered ==
  ASSUME NEW f \in File, OrderedFile(f)
  PROVE  /\ ReadTick(f) = f.tick
         /\ ReadFile(f) \in Store /\ ReadFile(f).tick = f.tick /\ Ordered(ReadFile(f))
  <1>1. ReadTick(f) = f.tick
    <2>1. CASE f.tick > 0
      BY <2>1 DEF ReadTick
    <2>2. CASE f.tick = 0
      <3>1. \A w \in Word : f.full[w].tick = 0
        BY <2>2 DEF OrderedFile, File, Entry
      <3>2. \A t \in {0} \cup {f.full[w].tick : w \in Word} : t = 0
        BY <3>1
      <3>3. ReadTick(f) \in {0} \cup {f.full[w].tick : w \in Word}
        BY <2>2, <3>1 DEF ReadTick
      <3> QED
        BY <2>2, <3>2, <3>3
    <2> QED
      BY <2>1, <2>2 DEF File
  <1>2. ReadFile(f) \in Store
    <2>1. \A w \in Word : (IF f.old[w] > 0 THEN [commits |-> f.old[w], tick |-> ReadTick(f)]
                           ELSE f.full[w]) \in Entry
      BY <1>1 DEF File, Entry
    <2> QED
      BY <1>1, <2>1 DEF ReadFile, Store, File
  <1>3. Ordered(ReadFile(f))
    BY <1>1 DEF Ordered, OrderedFile, ReadFile, File, Entry
  <1> QED
    BY <1>1, <1>2, <1>3 DEF ReadFile

LEMMA NewFileOrdered == NewFile \in File /\ OrderedFile(NewFile) /\ NoneRead \in Store /\ Ordered(NoneRead)
  BY DEF NewFile, NoneRead, Absent, File, Store, Entry, OrderedFile, Ordered

LEMMA CountedOrdered ==
  ASSUME NEW s \in Store, Ordered(s), NEW w \in Word
  PROVE  Counted(s, w) \in Store /\ Ordered(Counted(s, w)) /\ Counted(s, w).tick = s.tick + 1
  <1>1. [commits |-> s.freq[w].commits + 1, tick |-> s.tick + 1] \in Entry /\ s.tick + 1 \in Nat
    BY DEF Store, Entry
  <1>2. Counted(s, w).freq \in [Word -> Entry]
    BY <1>1 DEF Counted, Store
  <1> QED
    BY <1>1, <1>2 DEF Counted, Store, Entry, Ordered

LEMMA WrittenOrdered ==
  ASSUME NEW s \in Store, Ordered(s), NEW dropped \in SUBSET Word
  PROVE  WriteFile(s, dropped) \in File /\ OrderedFile(WriteFile(s, dropped))
  <1>1. Absent \in Entry
    BY DEF Absent, Entry
  <1>2. WriteFile(s, dropped).full \in [Word -> Entry]
    BY <1>1 DEF WriteFile, Store
  <1> QED
    BY <1>2 DEF WriteFile, Store, File, Absent, OrderedFile, Ordered

\* Reading back what was written gives every word that was not dropped.
LEMMA WrittenIsRead ==
  ASSUME NEW s \in Store, Ordered(s), NEW dropped \in SUBSET Word
  PROVE  /\ ReadFile(WriteFile(s, dropped)).tick = s.tick
         /\ \A w \in Word \ dropped : ReadFile(WriteFile(s, dropped)).freq[w] = s.freq[w]
  <1> DEFINE f == WriteFile(s, dropped)
  <1>1. ReadTick(f) = f.tick
    BY ReadOrdered, WrittenOrdered
  <1>2. f.tick = s.tick
        /\ \A w \in Word \ dropped : f.full[w] = s.freq[w] /\ f.old[w] = 0
    BY DEF WriteFile
  <1>3. ReadFile(f).tick = ReadTick(f)
        /\ \A w \in Word : f.old[w] = 0 => ReadFile(f).freq[w] = f.full[w]
    BY DEF ReadFile
  <1> HIDE DEF f
  <1>4. ReadFile(f).tick = s.tick /\ \A w \in Word \ dropped : ReadFile(f).freq[w] = s.freq[w]
    BY <1>1, <1>2, <1>3
  <1> QED
    BY <1>4 DEF f

LEMMA CutOrdered ==
  ASSUME NEW f \in File, OrderedFile(f), NEW g \in CutShort(f)
  PROVE  g \in File /\ OrderedFile(g)
  <1>1. CASE g \in {[NewFile EXCEPT !.tick = t] : t \in Cut(f.tick)}
    <2> PICK t \in Cut(f.tick) : g = [NewFile EXCEPT !.tick = t]
      BY <1>1
    <2>1. t \in Nat
      BY CutSmaller DEF File
    <2> QED
      BY <2>1, NewFileOrdered DEF NewFile, File, Absent, Entry, OrderedFile
  <1>2. ASSUME NEW w \in Word, g \in CutLine(f, w)
        PROVE  g \in File /\ OrderedFile(g)
    <2> DEFINE h == UpTo(f, w)
    <2>1. h \in File /\ OrderedFile(h) /\ h.tick = f.tick
      <3>1. [v \in Word |-> IF v < w THEN f.full[v] ELSE Absent] \in [Word -> Entry]
        BY DEF File, Absent, Entry
      <3>2. /\ h.tick = f.tick /\ h.old = f.old
            /\ h.full = [v \in Word |-> IF v < w THEN f.full[v] ELSE Absent]
            /\ h \in File
        BY <3>1 DEF UpTo, File
      <3> HIDE DEF h
      <3>3. OrderedFile(h)
        BY <3>2 DEF OrderedFile, Absent, File
      <3> QED
        BY <3>2, <3>3
    <2>2. \/ \E n \in Cut(f.full[w].commits) : g = [h EXCEPT !.old[w] = n]
          \/ \E t \in Cut(f.full[w].tick) :
               g = [h EXCEPT !.full[w] = [f.full[w] EXCEPT !.tick = t]]
      BY <1>2 DEF CutLine
    <2> HIDE DEF h
    <2>3. ASSUME NEW n \in Cut(f.full[w].commits), g = [h EXCEPT !.old[w] = n]
          PROVE  g \in File /\ OrderedFile(g)
      <3>1. n \in Nat
        BY CutSmaller DEF File, Entry
      <3> QED
        BY <2>1, <2>3, <3>1 DEF File, OrderedFile
    <2>4. ASSUME NEW t \in Cut(f.full[w].tick),
                 g = [h EXCEPT !.full[w] = [f.full[w] EXCEPT !.tick = t]]
          PROVE  g \in File /\ OrderedFile(g)
      <3>1. t \in Nat /\ t <= f.full[w].tick /\ f.full[w] \in Entry
        BY CutSmaller DEF File, Entry
      <3>2. t <= f.tick
        BY <3>1 DEF OrderedFile, File, Entry
      <3>3. [f.full[w] EXCEPT !.tick = t] \in Entry
        BY <3>1 DEF Entry
      <3>4. g.full \in [Word -> Entry] /\ g.tick = h.tick /\ g.old = h.old
        BY <2>1, <2>4, <3>3 DEF File
      <3>5. OrderedFile(g)
        BY <2>1, <2>4, <3>1, <3>2 DEF File, OrderedFile, Entry
      <3> QED
        BY <2>1, <2>4, <3>4, <3>5 DEF File
    <2> QED
      BY <2>2, <2>3, <2>4
  <1> QED
    BY <1>1, <1>2 DEF CutShort

------------------------------------------------------------------------------
(* The inductive invariant: the file is in order, and while nothing has been spoiled it is *)
(* behind the memory by the unsaved commits at most.                                       *)

Behind(s, f, n) ==
  /\ s.tick <= f.tick + n
  /\ \A w \in Word \ pruned : s.freq[w].commits <= f.freq[w].commits + n

Told(s) ==
  /\ now <= s.tick + forgiven
  /\ \A w \in Word \ pruned : made[w] <= s.freq[w].commits + forgiven

InOrder == OrderedFile(disk) /\ Ordered(store) /\ (~loaded => dirty = 0)

Kept ==
  /\ loaded => Behind(store, ReadFile(disk), dirty) /\ Told(store)
  /\ ~loaded => Told(ReadFile(disk))

IInv == TypeOK /\ InOrder /\ (~spoiled => Kept)

LEMMA InitIInv == Init => IInv
  <1> SUFFICES ASSUME Init PROVE IInv
    OBVIOUS
  <1> PICK counts \in [Word -> OldCounts] :
             disk = [NewFile EXCEPT !.old = counts] /\ made = counts
    BY DEF Init
  <1>1. disk \in File /\ OrderedFile(disk) /\ disk.tick = 0 /\ made \in [Word -> Nat]
    BY NewFileOrdered, CountAssumption DEF NewFile, File, OrderedFile
  <1>2. TypeOK
    <2>1. dirty \in 0..(SaveEvery - 1) /\ crashes \in 0..MaxCrash /\ denied \in 0..MaxDenied
          /\ now \in 0..MaxCommit /\ forgiven \in Nat
      BY SaveAssumption, BoundAssumption DEF Init
    <2> QED
      BY <1>1, <2>1, NewFileOrdered DEF Init, TypeOK
  <1>3. ReadFile(disk) \in Store /\ ReadFile(disk).tick = 0
    BY <1>1, ReadOrdered
  <1>4. \A w \in Word : made[w] <= ReadFile(disk).freq[w].commits
    <2>1. disk.old = made
      BY DEF NewFile
    <2> QED
      BY <1>1, <2>1 DEF ReadFile, NewFile, Absent
  <1>5. Told(ReadFile(disk))
    BY <1>1, <1>3, <1>4 DEF Told, Init, Store, Entry
  <1> QED
    BY <1>1, <1>2, <1>5, NewFileOrdered DEF Init, IInv, InOrder, Kept

\* Whatever Loaded offers is in order; without a denial it is what the process knows.
LEMMA LoadedOrdered ==
  ASSUME IInv, NEW l \in Loaded
  PROVE  /\ l[1] \in Store /\ Ordered(l[1]) /\ l[2] \in BOOLEAN
         /\ l[2] => denied < MaxDenied
         /\ ~spoiled /\ ~l[2] => Behind(l[1], ReadFile(disk), dirty) /\ Told(l[1])
  <1>1. ReadFile(disk) \in Store /\ Ordered(ReadFile(disk))
    BY ReadOrdered DEF IInv, TypeOK, InOrder
  <1>2. CASE l = <<store, FALSE>> /\ loaded
    BY <1>2 DEF IInv, TypeOK, InOrder, Kept
  <1>3. CASE l = <<ReadFile(disk), FALSE>> /\ ~loaded
    BY <1>1, <1>3 DEF IInv, InOrder, Kept, Behind, Store, Entry
  <1>4. CASE l = <<NoneRead, TRUE>> /\ denied < MaxDenied
    BY <1>4, NewFileOrdered
  <1> QED
    BY <1>2, <1>3, <1>4 DEF Loaded

LEMMA DeniedCounted ==
  ASSUME IInv, NEW b \in BOOLEAN, b => denied < MaxDenied, Denied(b)
  PROVE  denied' \in 0..MaxDenied /\ spoiled' \in BOOLEAN /\ (~spoiled' => ~spoiled /\ ~b)
  <1>1. denied' \in 0..MaxDenied
    BY BoundAssumption DEF IInv, TypeOK, Denied
  <1>2. spoiled' \in BOOLEAN /\ (~spoiled' => ~spoiled /\ ~b)
    BY Zenon DEF Denied, IInv, TypeOK
  <1> QED
    BY <1>1, <1>2

LEMMA LoadKeeps == ASSUME IInv, Load PROVE IInv'
  <1> PICK l \in Loaded : store' = l[1] /\ Denied(l[2])
    BY DEF Load
  <1>1. /\ denied' \in 0..MaxDenied
        /\ spoiled' \in BOOLEAN /\ (~spoiled' => ~spoiled /\ ~l[2])
    BY LoadedOrdered, DeniedCounted
  <1>2. store' \in Store /\ Ordered(store')
    BY LoadedOrdered
  <1>3. TypeOK' /\ InOrder'
    BY <1>1, <1>2 DEF Load, IInv, TypeOK, InOrder, Ordered, OrderedFile
  <1>4. ASSUME ~spoiled' PROVE Kept'
    <2>1. Behind(store', ReadFile(disk), dirty) /\ Told(store')
      BY <1>1, <1>4, LoadedOrdered
    <2> QED
      BY <2>1 DEF Load, Kept, Behind, Told, ReadFile, ReadTick
  <1> QED
    BY <1>3, <1>4 DEF IInv

\* Counting a commit puts the memory one further ahead of the file, and keeps up with it.
LEMMA CountedTold ==
  ASSUME IInv, NEW s \in Store, Ordered(s), NEW w \in Word, now < MaxCommit,
         now' = now + 1, made' = [made EXCEPT ![w] = @ + 1], UNCHANGED forgiven,
         pruned \subseteq pruned', Told(s)
  PROVE  /\ now' <= Counted(s, w).tick + forgiven'
         /\ \A v \in Word \ pruned' : made'[v] <= Counted(s, w).freq[v].commits + forgiven'
  <1>1. now' <= Counted(s, w).tick + forgiven'
    BY BoundAssumption DEF IInv, TypeOK, Told, Counted, Store
  <1>2. ASSUME NEW v \in Word \ pruned'
        PROVE  made'[v] <= Counted(s, w).freq[v].commits + forgiven'
    <2>1. made[v] <= s.freq[v].commits + forgiven /\ made[v] \in Nat /\ s.freq[v].commits \in Nat
          /\ forgiven \in Nat
      BY DEF Told, IInv, TypeOK, Store, Entry
    <2>2. CASE v = w
      <3>1. made'[v] = made[v] + 1 /\ Counted(s, w).freq[v].commits = s.freq[v].commits + 1
        BY <2>2 DEF Counted, Store, Entry, IInv, TypeOK
      <3> QED
        BY <2>1, <3>1
    <2>3. CASE v # w
      <3>1. made'[v] = made[v] /\ Counted(s, w).freq[v] = s.freq[v]
        BY <2>3 DEF Counted, Store, Entry, IInv, TypeOK
      <3> QED
        BY <2>1, <3>1
    <2> QED
      BY <2>2, <2>3
  <1> QED
    BY <1>1, <1>2

LEMMA CountedBehind ==
  ASSUME IInv, NEW s \in Store, NEW w \in Word, NEW f \in Store, Behind(s, f, dirty)
  PROVE  Behind(Counted(s, w), f, dirty + 1)
  <1>1. dirty \in Nat
    BY SaveAssumption DEF IInv, TypeOK
  <1>2. \A v \in Word : Counted(s, w).freq[v].commits \in {s.freq[v].commits, s.freq[v].commits + 1}
    BY DEF Counted, Store, Entry
  <1> QED
    BY <1>1, <1>2 DEF Behind, Counted, Store, Entry

LEMMA CommitKeeps == ASSUME IInv, NEW w \in Word, Commit(w) PROVE IInv'
  <1> PICK l \in Loaded :
        /\ store' = Counted(l[1], w)
        /\ Unsaved(l) \/ Saved(l, Counted(l[1], w)) \/ SaveDenied(l)
    BY DEF Commit
  <1> DEFINE s == l[1]
             t == Counted(s, w)
  <1>1. s \in Store /\ Ordered(s) /\ t \in Store /\ Ordered(t) /\ l[2] \in BOOLEAN
    BY LoadedOrdered, CountedOrdered
  <1>2. /\ now' = now + 1 /\ now < MaxCommit /\ made' = [made EXCEPT ![w] = @ + 1]
        /\ loaded' /\ UNCHANGED <<crashes, forgiven>> /\ store' = t
    BY DEF Commit
  <1>3. now' \in 0..MaxCommit /\ made' \in [Word -> Nat]
    BY <1>2, BoundAssumption DEF IInv, TypeOK
  <1>4. /\ denied' \in 0..MaxDenied
        /\ spoiled' \in BOOLEAN /\ (~spoiled' => ~spoiled /\ ~l[2] /\ ~SaveDenied(l))
    BY LoadedOrdered, DeniedCounted DEF Unsaved, Saved, SaveDenied
  <1>5. dirty' \in 0..(SaveEvery - 1)
    <2>1. (~SaveDue /\ dirty' = dirty + 1) \/ dirty' = 0
      BY DEF DirtyAfterSave, Unsaved, Saved, SaveDenied
    <2> QED
      BY <2>1, SaveAssumption DEF SaveDue, IInv, TypeOK
  <1>6. ~spoiled' => Told(s) /\ Behind(s, ReadFile(disk), dirty)
    BY <1>4, LoadedOrdered
  <1>7. ReadFile(disk) \in Store
    BY ReadOrdered DEF IInv, InOrder, TypeOK
  <1>8. CASE Unsaved(l) \/ SaveDenied(l)
    <2>1. UNCHANGED <<disk, pruned>>
      BY <1>8 DEF Unsaved, SaveDenied
    <2>2. TypeOK' /\ InOrder'
      BY <1>1, <1>2, <1>3, <1>4, <1>5, <2>1 DEF IInv, TypeOK, InOrder, OrderedFile, Ordered
    <2>3. ASSUME ~spoiled' PROVE Kept'
      <3>1. dirty' = dirty + 1
        BY <1>4, <1>8, <2>3 DEF Unsaved
      <3>2. Behind(t, ReadFile(disk), dirty + 1)
        BY <1>1, <1>6, <1>7, <2>3, CountedBehind
      <3>3. now' <= t.tick + forgiven'
            /\ \A v \in Word \ pruned' : made'[v] <= t.freq[v].commits + forgiven'
        BY <1>1, <1>2, <1>6, <2>1, <2>3, CountedTold
      <3> QED
        BY <1>2, <2>1, <3>1, <3>2, <3>3 DEF Kept, Behind, Told, ReadFile, ReadTick
    <2> QED
      BY <2>2, <2>3 DEF IInv
  <1>9. CASE Saved(l, t)
    <2> PICK dropped \in SUBSET Cold(t) : disk' = WriteFile(t, dropped) /\ pruned' = pruned \cup dropped
      BY <1>9 DEF Saved
    <2>1. dropped \in SUBSET Word /\ dirty' = 0
      BY <1>9 DEF Cold, Saved, DirtyAfterSave
    <2>2. disk' \in File /\ OrderedFile(disk')
      BY <1>1, <2>1, WrittenOrdered
    <2>3. TypeOK' /\ InOrder'
      BY <1>1, <1>2, <1>3, <1>4, <1>5, <2>1, <2>2
         DEF IInv, TypeOK, InOrder, OrderedFile, Ordered
    <2>4. ASSUME ~spoiled' PROVE Kept'
      <3>1. /\ ReadFile(disk').tick = t.tick
            /\ \A v \in Word \ pruned' : ReadFile(disk').freq[v] = t.freq[v]
        BY <1>1, <2>1, WrittenIsRead
      <3>2. now' <= t.tick + forgiven'
            /\ \A v \in Word \ pruned' : made'[v] <= t.freq[v].commits + forgiven'
        BY <1>1, <1>2, <1>6, <2>4, CountedTold
      <3>3. ReadFile(disk)' = ReadFile(disk')
        BY DEF ReadFile, ReadTick
      <3> HIDE DEF t
      <3> QED
        BY <1>1, <1>2, <2>1, <3>1, <3>2, <3>3 DEF Kept, Behind, Told, Store, Entry
    <2> QED
      BY <2>3, <2>4 DEF IInv
  <1> QED
    BY <1>8, <1>9

\* A restart forgives what was not saved.
LEMMA RestartForgives ==
  ASSUME IInv, Restart
  PROVE  /\ crashes' \in 0..MaxCrash /\ forgiven' \in Nat /\ dirty' \in 0..(SaveEvery - 1)
         /\ store' \in Store /\ Ordered(store') /\ loaded' = FALSE /\ dirty' = 0
         /\ forgiven + dirty <= forgiven'
  BY NewFileOrdered, SaveAssumption, BoundAssumption DEF Restart, IInv, TypeOK

LEMMA CrashKeeps == ASSUME IInv, Crash PROVE IInv'
  <1>1. TypeOK' /\ InOrder'
    <2>1. UNCHANGED <<disk, denied, made, now, pruned, spoiled>>
      BY DEF Crash
    <2>2. TypeOK'
      BY <2>1, RestartForgives DEF Crash, IInv, TypeOK
    <2>3. InOrder'
      BY <2>1, RestartForgives DEF Crash, IInv, InOrder, OrderedFile, Ordered
    <2> QED
      BY <2>2, <2>3
  <1>2. ASSUME ~spoiled' PROVE Kept'
    <2> DEFINE f == ReadFile(disk)
    <2>1. f \in Store /\ store \in Store /\ dirty \in Nat /\ forgiven \in Nat
          /\ forgiven' \in Nat /\ now \in Nat /\ made \in [Word -> Nat]
      <3>1. f \in Store
        BY ReadOrdered DEF IInv, TypeOK, InOrder
      <3>2. dirty \in Nat /\ now \in Nat
        BY SaveAssumption, BoundAssumption DEF IInv, TypeOK
      <3>3. store \in Store /\ forgiven \in Nat /\ made \in [Word -> Nat]
        BY DEF IInv, TypeOK
      <3> QED
        BY <3>1, <3>2, <3>3, RestartForgives DEF Crash
    <2>2. ~spoiled /\ UNCHANGED <<disk, made, now, pruned>>
      BY <1>2 DEF Crash
    <2>3. ReadFile(disk)' = f
      BY <2>2 DEF ReadFile, ReadTick
    <2> HIDE DEF f
    <2>4. now <= f.tick + forgiven'
          /\ \A w \in Word \ pruned : made[w] <= f.freq[w].commits + forgiven'
      <3>1. CASE loaded
        <4>1. Behind(store, f, dirty) /\ Told(store)
          BY <2>2, <3>1 DEF IInv, Kept, f
        <4> QED
          BY <2>1, <4>1, RestartForgives DEF Crash, Behind, Told, Store, Entry
      <3>2. CASE ~loaded
        <4>1. Told(f) /\ dirty = 0
          BY <2>2, <3>2 DEF IInv, Kept, InOrder, f
        <4> QED
          BY <2>1, <4>1, RestartForgives DEF Crash, Told, Store, Entry
      <3> QED
        BY <3>1, <3>2
    <2> QED
      BY <2>2, <2>3, <2>4, RestartForgives DEF Crash, Kept, Told
  <1> QED
    BY <1>1, <1>2 DEF IInv, Crash

LEMMA CrashWhileSavingKeeps == ASSUME IInv, NEW w \in Word, CrashWhileSaving(w) PROVE IInv'
  <1> DEFINE t == Counted(store, w)
  <1> PICK dropped \in SUBSET Cold(t) :
             disk' \in CutShort(WriteFile(t, dropped)) /\ pruned' = pruned \cup dropped
    BY DEF CrashWhileSaving
  <1>1. dropped \in SUBSET Word
    BY DEF Cold
  <1>2. t \in Store /\ Ordered(t)
    BY CountedOrdered DEF IInv, TypeOK, InOrder
  <1>3. disk' \in File /\ OrderedFile(disk')
    BY <1>1, <1>2, WrittenOrdered, CutOrdered
  <1>4. TypeOK' /\ InOrder'
    <2>1. UNCHANGED <<denied, made, now>> /\ spoiled' = TRUE /\ pruned' \subseteq Word
      BY <1>1 DEF CrashWhileSaving, IInv, TypeOK
    <2>2. TypeOK'
      BY <1>3, <2>1, RestartForgives DEF CrashWhileSaving, IInv, TypeOK
    <2>3. InOrder'
      BY <1>3, RestartForgives DEF CrashWhileSaving, InOrder, OrderedFile, Ordered
    <2> QED
      BY <2>2, <2>3
  <1> QED
    BY <1>4 DEF IInv, CrashWhileSaving

LEMMA NextKeeps == IInv /\ [Next]_vars => IInv'
  <1> SUFFICES ASSUME IInv, [Next]_vars PROVE IInv'
    OBVIOUS
  <1>1. CASE Next
    BY <1>1, LoadKeeps, CommitKeeps, CrashKeeps, CrashWhileSavingKeeps DEF Next
  <1>2. CASE UNCHANGED vars
    BY <1>2 DEF vars, IInv, TypeOK, InOrder, OrderedFile, Ordered, Kept, Behind, Told, ReadFile,
       ReadTick
  <1> QED
    BY <1>1, <1>2

LEMMA Invariance == Spec => []IInv
  BY InitIInv, NextKeeps, PTL DEF Spec

\* Every variable keeps its type; in particular fewer than SaveEvery commits are unsaved.
THEOREM TypeCorrect == Spec => []TypeOK
  <1>1. IInv => TypeOK
    BY DEF IInv
  <1> QED
    BY <1>1, Invariance, PTL

\* Wherever a save was cut short, no word read back is younger than the tick read back.
THEOREM NoWordIsFromTheFuture == Spec => []NoWordFromTheFuture
  <1>1. IInv => NoWordFromTheFuture
    BY ReadOrdered DEF IInv, TypeOK, InOrder, Ordered, NoWordFromTheFuture, Known
  <1> QED
    BY <1>1, Invariance, PTL

\* Restarts between saves lose SaveEvery - 1 commits each at most, of all words and of each.
THEOREM RestartsLoseOnlyUnsaved == Spec => []OnlyUnsavedLost
  <1>1. IInv => OnlyUnsavedLost
    BY DEF IInv, Kept, Told, OnlyUnsavedLost, Remembered, Known
  <1> QED
    BY <1>1, Invariance, PTL
==============================================================================
