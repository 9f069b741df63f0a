--------------------------- MODULE ContextSource ---------------------------
(***************************************************************************)
(* Which text a ranking is based on: LlmFilter::GetContextTextPair and     *)
(* OnCommit (llm_filter.cc) choose between the caret text TSF delivered,   *)
(* the caret text the COM thread read from WPS, and the history of         *)
(* commits.  Three signals outdate what is remembered: a reset (edit key,  *)
(* window switch), which raises a generation that each consumer compares   *)
(* with the one it has seen; a mouse click, which the engine thread polls; *)
(* and a delivered text that does not continue the history.                *)
(*                                                                         *)
(* The engine thread and the deliveries are serialised by the server's     *)
(* g_api_mutex; the COM thread, the foreground window, the mouse and the   *)
(* clock are not.  A text is a sequence of words, each one character.      *)
(* What TSF delivers and what COM reads is arbitrary: of a COM text only   *)
(* its age, its window and how many signals it has seen are kept.  kick    *)
(* and the delays only decide when the COM thread reads: it may read at    *)
(* any time.                                                               *)
(***************************************************************************)
EXTENDS Naturals, Sequences, SequencesExt

CONSTANTS Word,
          Window,      \* foreground windows
          Office,      \* those of the classes OpusApp and PP12FrameClass
          Untitled,    \* those whose title cannot be read
          None,
          HistMax,     \* words in 64 bytes, the bound of g_fallback_buffer
          TailMax,     \* whole words in the last 8 bytes of the history
          TextMax,     \* bound: words of a delivered text
          MaxCommit, MaxReset, MaxClick   \* bounds

ASSUME SetAssumption == Office \subseteq Window /\ Untitled \subseteq Window /\ None \notin Window
ASSUME NatAssumption ==
  /\ HistMax \in Nat \ {0} /\ TailMax \in Nat /\ TextMax \in Nat
  /\ MaxCommit \in Nat /\ MaxReset \in Nat /\ MaxClick \in Nat

VARIABLES
  text, valid, age,   \* g_context_text, _valid; its age: 0 < 1.5 s <= 1 < 5 s <= 2
  gen,                \* g_context_reset_gen
  buffer, bufferGen,  \* g_fallback_buffer, g_fallback_gen_seen
  limited, limitedGen,   \* g_ctx_limited, g_limited_gen_seen
  based,              \* s_click_inited
  clicked,            \* a button went down since GetAsyncKeyState was last called
  started,            \* comctx::g_started
  snap,               \* comctx::g_text, g_title and g_stamp; old: more than 2.5 s ago
  reader,             \* the COM thread; late: the snapshot was invalidated while it read
  foreground,
  engine,             \* "choose" between the two halves of GetContextTextPair
  clicks,
  all,                \* history: every word committed
  keptFrom,           \* history: commits before the last event that clears the history
  movedAt,            \* history: commits before the last signal
  signals,            \* history: resets, and clicks after the engine thread first looked
  noticed, movedBefore   \* history: signals and movedAt when it looked last

store   == <<text, valid, age>>
memory  == <<buffer, bufferGen, limited, limitedGen, based>>
com     == <<started, snap, reader>>
history == <<all, keptFrom, movedAt, signals, noticed, movedBefore>>
vars    == <<store, gen, memory, clicked, com, foreground, engine, clicks, history>>

Texts    == UNION {[1..n -> Word] : n \in 0..TextMax}
Snapshot == [window : Window, title : Window, at : Nat, late : BOOLEAN, old : BOOLEAN]
Reading  == [window : Window, at : Nat, late : BOOLEAN]

TypeOK ==
  /\ text \in Texts /\ valid \in BOOLEAN /\ age \in 0..2
  /\ gen \in 0..MaxReset
  /\ buffer \in Seq(Word) /\ Len(buffer) <= HistMax /\ bufferGen \in 0..gen
  /\ limited \in BOOLEAN /\ limitedGen \in 0..gen /\ based \in BOOLEAN
  /\ clicked \in BOOLEAN /\ started \in BOOLEAN
  /\ snap \in Snapshot \cup {None} /\ reader \in Reading \cup {None}
  /\ foreground \in Window /\ engine \in {"idle", "choose"} /\ clicks \in 0..MaxClick
  /\ all \in Seq(Word) /\ Len(all) <= MaxCommit
  /\ keptFrom \in 0..Len(all) /\ movedAt \in 0..Len(all)
  /\ signals \in Nat /\ noticed \in 0..signals /\ movedBefore \in 0..movedAt

Init ==
  /\ text = <<>> /\ valid = FALSE /\ age = 2 /\ gen = 0
  /\ buffer = <<>> /\ bufferGen = 0
  /\ limited = FALSE /\ limitedGen = 0
  /\ based = FALSE /\ clicked = FALSE
  /\ started = FALSE /\ snap = None /\ reader = None
  /\ foreground \in Window /\ engine = "idle" /\ clicks = 0
  /\ all = <<>> /\ keptFrom = 0
  /\ movedAt = 0 /\ signals = 0 /\ noticed = 0 /\ movedBefore = 0

------------------------------------------------------------------------------
(* The judgements of ctx_logic. *)

Lower(m, n) == IF m < n THEN m ELSE n
LastWords(s, n) == SubSeq(s, Len(s) - Lower(n, Len(s)) + 1, Len(s))
EndsWith(s, t)  == IsSuffix(t, s)

\* an application that only shows its last composition
Lagging(t, h) == 2 * Len(t) < Len(h) /\ EndsWith(h, t)

\* a text without the last words of the history
Stale(t, h) == LET tail == LastWords(h, TailMax) IN tail # <<>> /\ tail \notin SubSeqs(t)

TailConsistent(h, t) == EndsWith(h, t) \/ EndsWith(t, h)

------------------------------------------------------------------------------
(* The history of commits, and the COM snapshot. *)

\* the history, once the generation was compared
Synced_Never == buffer
Synced == IF gen = bufferGen THEN buffer ELSE <<>>

\* comctx::invalidate
Invalidated == /\ snap' = None
               /\ reader' = IF reader = None THEN None ELSE [reader EXCEPT !.late = TRUE]

\* comctx::snapshot, of a text that is not empty
Usable == snap # None /\ ~snap.old /\
          (snap.title = foreground \/ {snap.title, foreground} \cap Untitled # {})

------------------------------------------------------------------------------
(* The engine thread. *)

Bounded_Not(h) == h
Bounded(h) == LastWords(h, HistMax)

\* OnCommit
Commit(w) ==
  /\ engine = "idle"
  /\ Len(all) < MaxCommit
  /\ all' = Append(all, w)
  /\ buffer' = Bounded(Append(Synced, w))
  /\ bufferGen' = gen
  /\ UNCHANGED <<store, gen, limited, limitedGen, based, clicked, com, foreground, engine,
                 clicks, keptFrom, movedAt, signals, noticed, movedBefore>>

\* Apply, of an input the ranking is not for: it only starts the COM thread
Start ==
  /\ engine = "idle"
  /\ started' = TRUE
  /\ UNCHANGED <<store, gen, memory, clicked, snap, reader, foreground, engine, clicks,
                 history>>

\* the first look cannot tell when the button went down
Clicked_Ignored == FALSE
Clicked == based /\ clicked

\* a fresh text that does not continue the history
Moved == text # <<>> /\ age < 2 /\ ~TailConsistent(buffer, text)

Outdates_ByReset == gen # limitedGen
Outdates == Clicked \/ gen # limitedGen

\* Apply, and GetContextTextPair up to the choice
Look ==
  /\ engine = "idle"
  /\ engine' = "choose"
  /\ started' = TRUE
  /\ based' = TRUE /\ clicked' = FALSE
  /\ IF Clicked \/ Moved
       THEN buffer' = <<>> /\ keptFrom' = Len(all)
       ELSE UNCHANGED <<buffer, keptFrom>>
  /\ limited' = (limited /\ (gen = limitedGen \/ foreground \in Office))
  /\ limitedGen' = gen
  /\ IF Outdates THEN Invalidated ELSE UNCHANGED <<snap, reader>>
  /\ noticed' = signals /\ movedBefore' = movedAt
  /\ UNCHANGED <<store, gen, bufferGen, foreground, clicks, all, movedAt, signals>>

\* the rest of GetContextTextPair: where the text comes from
Choice ==
  CASE foreground \in Office /\ Usable              -> "com"
    [] OTHER ->
       IF limited THEN "history"
       ELSE IF text # <<>>
         THEN IF Synced # <<>> /\ (Lagging(text, Synced) \/ (age = 2 /\ Stale(text, Synced)))
                THEN "history" ELSE "tsf"
       ELSE IF valid
         THEN IF age = 0 /\ Synced # <<>> THEN "history" ELSE "tsf"
       ELSE "history"

Choose ==
  /\ engine = "choose"
  /\ engine' = "idle"
  /\ IF Choice = "com"
       THEN UNCHANGED <<buffer, bufferGen, limited>>
       ELSE /\ buffer' = Synced
            /\ bufferGen' = gen
            /\ limited' = (limited \/ (text # <<>> /\ Lagging(text, Synced)))
  /\ UNCHANGED <<store, gen, limitedGen, based, clicked, com, foreground, clicks, history>>

------------------------------------------------------------------------------
(* The server, between two calls of the engine. *)

\* RimeSetContextText
Deliver(t) ==
  /\ engine = "idle"
  /\ text' = t
  /\ valid' = (valid \/ (t # text /\ t # <<>>))
  /\ age' = 0
  /\ UNCHANGED <<gen, memory, clicked, com, foreground, engine, clicks, history>>

\* RimeResetContextText; the hook is there once the COM thread was started
Reset ==
  /\ engine = "idle"
  /\ gen < MaxReset
  /\ gen' = gen + 1
  /\ text' = <<>> /\ valid' = FALSE
  /\ IF started THEN Invalidated ELSE UNCHANGED <<snap, reader>>
  /\ keptFrom' = Len(all) /\ movedAt' = Len(all) /\ signals' = signals + 1
  /\ UNCHANGED <<age, memory, clicked, started, foreground, engine, clicks, all, noticed,
                 movedBefore>>

------------------------------------------------------------------------------
(* The COM thread. *)

\* a round in which a document is read
ComRead ==
  /\ started
  /\ reader = None
  /\ foreground \in Office
  /\ reader' = [window |-> foreground, at |-> signals, late |-> FALSE]
  /\ UNCHANGED <<store, gen, memory, clicked, started, snap, foreground, engine, clicks,
                 history>>

\* it publishes what it read, or clears the snapshot: no document, or nothing before
\* the caret
ComPublish ==
  /\ reader # None
  /\ reader' = None
  /\ \/ snap' = [window |-> reader.window, title |-> foreground, at |-> reader.at,
                 late |-> reader.late, old |-> FALSE]
     \/ snap' = None
  /\ UNCHANGED <<store, gen, memory, clicked, started, foreground, engine, clicks, history>>

------------------------------------------------------------------------------
(* The user and the clock. *)

Click ==
  /\ clicks < MaxClick
  /\ clicks' = clicks + 1
  /\ clicked' = TRUE
  /\ IF based THEN movedAt' = Len(all) /\ signals' = signals + 1
              ELSE UNCHANGED <<movedAt, signals>>
  /\ UNCHANGED <<store, gen, memory, com, foreground, engine, all, keptFrom, noticed,
                 movedBefore>>

Switch ==
  /\ foreground' \in Window \ {foreground}
  /\ UNCHANGED <<store, gen, memory, clicked, com, engine, clicks, history>>

Tick ==
  /\ \/ age < 2 /\ age' = age + 1 /\ UNCHANGED snap
     \/ snap # None /\ snap' = [snap EXCEPT !.old = TRUE] /\ UNCHANGED age
  /\ UNCHANGED <<text, valid, gen, memory, clicked, started, reader, foreground, engine,
                 clicks, history>>

Next ==
  \/ \E w \in Word : Commit(w)
  \/ Start \/ Look \/ Choose
  \/ \E t \in Texts : Deliver(t)
  \/ Reset
  \/ ComRead \/ ComPublish
  \/ Click \/ Switch \/ Tick

Spec == Init /\ [][Next]_vars

------------------------------------------------------------------------------
(* Properties. *)

Kept == SubSeq(all, keptFrom + 1, Len(all))

\* The generation is compared lazily, in three places that each see some of the calls;
\* yet the history any of them finds is the one that resets would have cleared at once:
\* nothing from before the last clearing, and every commit since, up to its bound.
HistoryIsKept == Synced = LastWords(Kept, HistMax)

\* A ranking never rests on words committed before a reset or a click (only those before
\* the engine thread's very first look go unnoticed).
HistoryFromHere ==
  engine = "choose" /\ Choice = "history" /\ Synced # <<>> => keptFrom >= movedBefore

\* Nor on a document read before such a signal, unless the reading was under way when
\* the snapshot was invalidated.
DocumentFromNow ==
  engine = "choose" /\ Choice = "com" /\ ~snap.late => snap.at >= noticed

\* llm_filter.cc:746-749 the reset hook re-reads the document at once, for otherwise "the
\* first word after an edit has no context": what was read since is not thrown away.
RereadIsUsed ==
  [][Look /\ snap # None /\ ~snap.late /\ snap.at = signals => snap' = snap]_vars

------------------------------------------------------------------------------
(* Promises of comments that the code does not keep, beyond the one above; the README *)
(* tells how.  They are stated for the reader and checked by no run.                 *)

\* llm_filter.cc:764 between an invalidation and the next reading "an old snapshot does
\* not pass for the new text".
NoOldSnapshot == engine = "choose" /\ Choice = "com" => snap.at >= noticed

\* llm_filter.cc:780 the title refuses a snapshot of another window.
SnapshotOfThisWindow ==
  engine = "choose" /\ Choice = "com" /\ foreground \notin Untitled => snap.window = foreground
==============================================================================
