------------------------------ MODULE UserFreq ------------------------------
(***************************************************************************)
(* The user's word frequencies (user_freq_* in llm_filter.cc): counted on  *)
(* the engine thread at each commit, loaded from user_freq.tsv when first  *)
(* needed, written back every SaveEvery commits.  Saving truncates the     *)
(* file and writes it again: when the process dies in between, the file    *)
(* is cut anywhere, within a number too.                                   *)
(*                                                                         *)
(* A word is a number, in the order in which the map writes it; an absent  *)
(* word has no commits.  The decayed count dee is left out: it follows     *)
(* from the commits and their ticks, and only says when a word is cold.    *)
(***************************************************************************)
EXTENDS Naturals

CONSTANTS Words,        \* words are 1..Words
          SaveEvery,    \* commits from one save to the next (20)
          ColdAge,      \* ticks after which a word may be too cold to be saved
          OldCounts,    \* counts a file of the old format may hold
          MaxCommit, MaxCrash, MaxDenied   \* bounds: commits, crashes, opens that fail

ASSUME SaveAssumption  == SaveEvery \in Nat \ {0}
ASSUME CountAssumption == Words \in Nat /\ ColdAge \in Nat \ {0} /\ OldCounts \subseteq Nat
ASSUME BoundAssumption == MaxCommit \in Nat /\ MaxCrash \in Nat /\ MaxDenied \in Nat

Word  == 1..Words
Entry == [commits : Nat, tick : Nat]
Store == [tick : Nat, freq : [Word -> Entry]]                          \* g_user_tick, g_user_freq
File  == [tick : Nat, full : [Word -> Entry], old : [Word -> Nat]]     \* four- and two-field lines

VARIABLES
  store, loaded, dirty,   \* the above, g_user_freq_loaded, g_user_freq_dirty
  disk,                   \* user_freq.tsv
  crashes, denied,
  made, now,              \* history: commits of each word and of all
  pruned,                 \* history: words once too cold to be saved
  forgiven,               \* history: commits the crashes so far may have lost
  spoiled                 \* history: a save was cut short or an open was denied

vars == <<store, loaded, dirty, disk, crashes, denied, made, now, pruned, forgiven, spoiled>>

Absent   == [commits |-> 0, tick |-> 0]
NoneRead == [tick |-> 0, freq |-> [w \in Word |-> Absent]]
NewFile  == [tick |-> 0, full |-> [w \in Word |-> Absent], old |-> [w \in Word |-> 0]]

TypeOK ==
  /\ store \in Store /\ loaded \in BOOLEAN /\ dirty \in 0..(SaveEvery - 1)
  /\ disk \in File
  /\ crashes \in 0..MaxCrash /\ denied \in 0..MaxDenied
  /\ made \in [Word -> Nat] /\ now \in 0..MaxCommit
  /\ pruned \subseteq Word /\ forgiven \in Nat /\ spoiled \in BOOLEAN

\* No file, or one of the old format.
Init ==
  /\ store = NoneRead /\ loaded = FALSE /\ dirty = 0
  /\ \E counts \in [Word -> OldCounts] :
       disk = [NewFile EXCEPT !.old = counts] /\ made = counts
  /\ crashes = 0 /\ denied = 0
  /\ now = 0 /\ pruned = {} /\ forgiven = 0 /\ spoiled = FALSE

------------------------------------------------------------------------------
(* The file. *)

\* a file without a tick takes that of its youngest word
ReadTick_Unread(f) == 0
ReadTick(f) ==
  IF f.tick > 0 THEN f.tick
  ELSE CHOOSE t \in {0} \cup {f.full[w].tick : w \in Word} :
         \A w \in Word : f.full[w].tick <= t

\* an old line counts as a commit of now, and replaces a full one
ReadFile(f) ==
  [tick |-> ReadTick(f),
   freq |-> [w \in Word |-> IF f.old[w] > 0
                            THEN [commits |-> f.old[w], tick |-> ReadTick(f)]
                            ELSE f.full[w]]]

Cold(s) == {w \in Word : s.freq[w].commits > 0 /\ s.tick - s.freq[w].tick >= ColdAge}

\* the whole file, without the words that are dropped
WriteFile(s, dropped) ==
  [tick |-> s.tick,
   full |-> [w \in Word |-> IF w \in dropped THEN Absent ELSE s.freq[w]],
   old  |-> [w \in Word |-> 0]]

\* a number cut short
Cut(n) == {n, n \div 10, n \div 100, 0}

UpTo(f, w) == [f EXCEPT !.full = [v \in Word |-> IF v < w THEN f.full[v] ELSE Absent]]

\* f cut in the line of w: before its second field, within it (read as an old line), or
\* within its last
CutLine(f, w) ==
  {[UpTo(f, w) EXCEPT !.old[w] = n] : n \in Cut(f.full[w].commits)}
    \cup {[UpTo(f, w) EXCEPT !.full[w] = [f.full[w] EXCEPT !.tick = t]] :
            t \in Cut(f.full[w].tick)}

\* f cut in its first line, or in that of a word
CutShort(f) ==
  {[NewFile EXCEPT !.tick = t] : t \in Cut(f.tick)}
    \cup UNION {CutLine(f, w) : w \in {v \in Word : f.full[v].commits > 0}}

------------------------------------------------------------------------------
(* The engine thread. *)

\* user_freq_ensure_loaded: what is in memory afterwards, and whether the file was denied
Loaded ==
  IF loaded THEN {<<store, FALSE>>}
  ELSE {<<ReadFile(disk), FALSE>>} \cup (IF denied < MaxDenied THEN {<<NoneRead, TRUE>>} ELSE {})

Denied(b) ==
  /\ denied' = denied + (IF b THEN 1 ELSE 0)
  /\ spoiled' = (spoiled \/ b)

\* a score needs the frequencies
Load ==
  /\ ~loaded
  /\ \E l \in Loaded :
       /\ store' = l[1]
       /\ Denied(l[2])
  /\ loaded' = TRUE
  /\ UNCHANGED <<dirty, disk, crashes, made, now, pruned, forgiven>>

Counted(s, w) ==
  [tick |-> s.tick + 1,
   freq |-> [s.freq EXCEPT ![w] = [commits |-> s.freq[w].commits + 1, tick |-> s.tick + 1]]]

SaveDue_After == dirty >= SaveEvery
SaveDue == dirty + 1 >= SaveEvery

DirtyAfterSave_Kept == dirty + 1
DirtyAfterSave == 0

Unsaved(l) ==
  /\ ~SaveDue
  /\ dirty' = dirty + 1
  /\ Denied(l[2])
  /\ UNCHANGED <<disk, pruned>>

Saved(l, s) ==
  /\ SaveDue
  /\ dirty' = DirtyAfterSave
  /\ Denied(l[2])
  /\ \E dropped \in SUBSET Cold(s) :
       /\ disk' = WriteFile(s, dropped)
       /\ pruned' = pruned \cup dropped

\* the dirty count is cleared just the same
SaveDenied(l) ==
  /\ SaveDue
  /\ denied < MaxDenied /\ ~l[2]
  /\ dirty' = DirtyAfterSave
  /\ Denied(TRUE)
  /\ UNCHANGED <<disk, pruned>>

\* user_freq_bump(w)
Commit(w) ==
  /\ now < MaxCommit
  /\ now' = now + 1
  /\ made' = [made EXCEPT ![w] = @ + 1]
  /\ loaded' = TRUE
  /\ \E l \in Loaded :
       /\ store' = Counted(l[1], w)
       /\ Unsaved(l) \/ Saved(l, Counted(l[1], w)) \/ SaveDenied(l)
  /\ UNCHANGED <<crashes, forgiven>>

Restart ==
  /\ crashes < MaxCrash
  /\ crashes' = crashes + 1
  /\ forgiven' = forgiven + (SaveEvery - 1)
  /\ store' = NoneRead /\ loaded' = FALSE /\ dirty' = 0

\* the process ends, and another one starts: nothing is saved at exit
Crash ==
  /\ Restart
  /\ UNCHANGED <<disk, denied, made, now, pruned, spoiled>>

\* it ends while it saves the commit of w, which does not count as made
CrashWhileSaving(w) ==
  /\ loaded
  /\ SaveDue
  /\ now < MaxCommit
  /\ LET s == Counted(store, w) IN
     \E dropped \in SUBSET Cold(s) :
       /\ disk' \in CutShort(WriteFile(s, dropped))
       /\ pruned' = pruned \cup dropped
  /\ Restart
  /\ spoiled' = TRUE
  /\ UNCHANGED <<denied, made, now>>

Next ==
  \/ Load
  \/ \E w \in Word : Commit(w) \/ CrashWhileSaving(w)
  \/ Crash

Spec == Init /\ [][Next]_vars

------------------------------------------------------------------------------
(* Properties. *)

\* What the process knows, or would know after loading.
Known == IF loaded THEN store ELSE ReadFile(disk)

\* No word is younger than the tick, whatever was cut off: user_freq_eff would otherwise
\* make it grow instead of decay.
NoWordFromTheFuture == \A w \in Word : Known.freq[w].tick <= Known.tick

Remembered ==
  /\ now <= Known.tick + forgiven
  /\ \A w \in Word \ pruned : made[w] <= Known.freq[w].commits + forgiven

\* A restart loses at most SaveEvery - 1 commits, if every save was completed and the
\* file never denied; what it loses is not lost again by the next one.
OnlyUnsavedLost == ~spoiled => Remembered

\* llm_filter.cc:828 "saved every 20 words, a crash loses 19 at most".
CrashLosesAtMostUnsaved == denied = 0 => Remembered
==============================================================================
