------------------------------ MODULE UserDict ------------------------------
(***************************************************************************)
(* One user dictionary and the typists of one server that share it: every  *)
(* engine has its own UserDictionary object (user_dictionary.cc), with its *)
(* own tick_ and transaction_time_, and all of them one LevelDb (db_pool_, *)
(* level_db.cc), with one batch and one in_transaction_.  A commit writes  *)
(* into the batch; the next commit, query, key or leaving typist writes    *)
(* the batch to disk, a BackSpace soon enough drops it (memory.cc:99-160). *)
(*                                                                         *)
(* The calls of the typists come one at a time (the server's mutex); the   *)
(* recovery task runs beside them and is one step at its end.              *)
(***************************************************************************)
EXTENDS Integers, Sequences, FiniteSets

CONSTANTS
    Typists,     \* the Memory objects, each with its UserDictionary
    Words,
    Phrases,     \* what one commit can update: sequences of [word, add]
    None,
    Snapshots,   \* what a snapshot in the sync directory may hold: [store, clock]
    Window,      \* how long a commit can be reverted; 3 seconds in the code
    MaxTick,     \* bound on the ticks explored
    MaxCount     \* bound on the commits of a word explored

Update == [word : Words, add : {0, 1}]

NoClock == -1

ASSUME DictAssumption ==
    /\ None \notin Typists
    /\ Phrases \subseteq Seq(Update)
    /\ Snapshots \subseteq [store : [Words -> Int], clock : Nat \cup {NoClock}]
    /\ Window \in Nat /\ MaxTick \in Nat /\ MaxCount \in Nat

VARIABLES
    \* the database
    store,       \* on disk: commits of each word, negative once deleted, 0 for no entry
    clock,       \* on disk: "/tick", NoClock when it is missing
    batch,       \* the words written since the transaction began
    batchClock,  \* "/tick" in the batch
    inTx,        \* in_transaction_
    loaded,      \* loaded_
    disabled,    \* disabled_: the recovery task has the database
    refusing,    \* the disk takes nothing: every write of LevelDB fails
    \* the typists
    here,        \* those with an engine
    composing,   \* those with a composition
    tick,        \* tick_
    age,         \* seconds since transaction_time_, up to Window + 1
    \* history
    owner,       \* who began the transaction
    behind       \* whose tick_ was read before the clock on disk last changed

database == <<store, clock, batch, batchClock, inTx, loaded, disabled, refusing>>
vars == <<database, here, composing, tick, age, owner, behind>>

Nothing == [w \in {} |-> 0]
Magnitude(n) == IF n < 0 THEN -n ELSE n
Usable == loaded /\ ~disabled

(***************************************************************************)
(* The transaction.  Finishing it writes the batch over the store, or,     *)
(* when the write fails, drops the batch all the same (level_db.cc:319).   *)
(* All objects but the one that began it then hold an old tick.            *)
(***************************************************************************)
Written == inTx /\ ~refusing
StoreAfter == [w \in Words |-> IF Written /\ w \in DOMAIN batch THEN batch[w] ELSE store[w]]
ClockAfter == IF Written /\ batchClock # NoClock THEN batchClock ELSE clock
BehindAfter == IF ClockAfter = clock THEN behind ELSE behind \cup (Typists \ {owner})

Emptied == batch' = Nothing /\ batchClock' = NoClock /\ inTx' = FALSE /\ owner' = None

CommitPendingTransaction ==
    store' = StoreAfter /\ clock' = ClockAfter /\ Emptied

(* The window is not tested.                                               *)
CanRevert_Always(u) == inTx

CanRevert(u) == inTx /\ age[u] <= Window

(* Every update of a commit reads the store and not the batch, so that the *)
(* last update of a word decides what it counts (level_db.cc:60, 173).     *)
Adds(p, w) ==
    IF \E i \in DOMAIN p : /\ p[i] = [word |-> w, add |-> 1]
                           /\ \A j \in DOMAIN p : j > i => p[j].word # w
    THEN 1 ELSE 0

Ticks(p) == Cardinality({i \in DOMAIN p : p[i].add = 1})

(* A deleted word is not revived by a commit.                              *)
Counted_NotRevived(n, add) == n + add

(* What an update makes of a count: UpdateEntry.                           *)
Counted(n, add) == IF add = 0 THEN n ELSE Magnitude(n) + add
Deleted(n) == IF n > 0 THEN -n ELSE -1

(***************************************************************************)
(* What a typist's Lookup leaves in tick_: that of a script translator     *)
(* reads the clock, LookupWords of a table translator does not.            *)
(***************************************************************************)
Fetches(script) == script /\ Usable /\ ClockAfter # NoClock

(* Lookup keeps the tick it had.                                           *)
Fetched_Never(u, script) == tick[u]

Fetched(u, script) == IF Fetches(script) THEN ClockAfter ELSE tick[u]

(* FinishSession and Lookup, in the Query of a translator.                 *)
Query(u, script) ==
    /\ CommitPendingTransaction
    /\ tick' = [tick EXCEPT ![u] = Fetched(u, script)]
    /\ behind' = IF Fetches(script) THEN BehindAfter \ {u} ELSE BehindAfter
    /\ UNCHANGED <<loaded, disabled, refusing, here, age>>

Type(u, script) ==
    /\ u \in here
    /\ Query(u, script)
    /\ composing' = composing \cup {u}

Escape(u) ==
    /\ u \in composing
    /\ composing' = composing \ {u}
    /\ UNCHANGED <<database, here, tick, age, owner, behind>>

(***************************************************************************)
(* OnCommit: begin a transaction, which finishes the one there was, and    *)
(* update every word of the phrase.                                        *)
(***************************************************************************)
OnCommit(u, p) ==
    /\ u \in composing
    /\ tick[u] + Ticks(p) <= MaxTick
    /\ composing' = composing \ {u}
    /\ age' = [age EXCEPT ![u] = 0]
    /\ tick' = [tick EXCEPT ![u] = @ + Ticks(p)]
    /\ IF loaded
       THEN /\ store' = StoreAfter /\ clock' = ClockAfter
            /\ inTx' = TRUE
            /\ batch' = [w \in {p[i].word : i \in DOMAIN p} |->
                           Counted(StoreAfter[w], Adds(p, w))]
            /\ batchClock' = IF Ticks(p) = 0 THEN NoClock ELSE tick'[u]
            /\ owner' = u
            /\ behind' = BehindAfter
            /\ \A w \in DOMAIN batch' : Magnitude(batch'[w]) <= MaxCount
       ELSE UNCHANGED <<store, clock, batch, batchClock, inTx, owner, behind>>
    /\ UNCHANGED <<loaded, disabled, refusing, here>>

(* OnDeleteEntry: the update, then the refresh, which queries again.       *)
DeletedStore(w) ==
    IF refusing THEN store ELSE [StoreAfter EXCEPT ![w] = Deleted(store[w])]

OnDeleteEntry(u, w, script) ==
    /\ u \in composing
    /\ loaded
    /\ store' = DeletedStore(w)
    /\ clock' = ClockAfter /\ Emptied
    /\ tick' = [tick EXCEPT ![u] = Fetched(u, script)]
    /\ behind' = IF Fetches(script) THEN BehindAfter \ {u} ELSE BehindAfter
    /\ UNCHANGED <<loaded, disabled, refusing, here, composing, age>>

(***************************************************************************)
(* OnUnhandledKey.  A BackSpace is left to the application only when there *)
(* is no composition.                                                      *)
(***************************************************************************)
FinishSession ==
    /\ CommitPendingTransaction
    /\ behind' = BehindAfter
    /\ UNCHANGED <<loaded, disabled, refusing, here, composing, tick, age>>

UnhandledKey(u) == u \in here /\ inTx /\ FinishSession

BackSpace(u) ==
    /\ u \in here \ composing
    /\ inTx
    /\ \/ /\ CanRevert(u)
          /\ Emptied
          /\ UNCHANGED <<store, clock, loaded, disabled, refusing, here, composing, tick, age,
                         behind>>
       \/ /\ ~CanRevert(u)
          /\ FinishSession

Elapse ==
    /\ \E u \in Typists : age[u] <= Window
    /\ age' = [u \in Typists |-> IF age[u] <= Window THEN age[u] + 1 ELSE age[u]]
    /\ UNCHANGED <<database, here, composing, tick, owner, behind>>

(***************************************************************************)
(* Engines come and go.  An object that cannot open the database gives it  *)
(* to the recovery task, when the deployer is free, and stays without it   *)
(* until somebody else loads it.                                           *)
(***************************************************************************)
Arrives(u) ==
    /\ u \notin here
    /\ here' = here \cup {u}
    /\ age' = [age EXCEPT ![u] = Window + 1]
    /\ UNCHANGED <<store, batch, inTx, refusing, composing, owner>>

Load(u) ==
    /\ Arrives(u)
    /\ ~disabled
    /\ loaded' = TRUE
    /\ tick' = [tick EXCEPT ![u] = IF clock = NoClock THEN 0 ELSE clock]
    /\ behind' = behind \ {u}
    /\ clock' = IF clock = NoClock /\ ~inTx /\ ~refusing THEN 0 ELSE clock
    /\ batchClock' = IF clock = NoClock /\ inTx THEN 0 ELSE batchClock
    /\ UNCHANGED disabled

LoadFails(u) ==
    /\ Arrives(u)
    /\ ~loaded \/ disabled
    /\ disabled' \in {disabled, TRUE}
    /\ tick' = [tick EXCEPT ![u] = 0]
    /\ behind' = behind \cup {u}
    /\ UNCHANGED <<clock, batchClock, loaded>>

(* The last object closes the database before it commits.                  *)
Leave_ClosesFirst(u) ==
    /\ u \in here
    /\ here' = here \ {u}
    /\ composing' = composing \ {u}
    /\ IF here' = {} THEN Emptied /\ UNCHANGED <<store, clock, behind>>
                     ELSE CommitPendingTransaction /\ behind' = BehindAfter
    /\ loaded' = (loaded /\ here' # {})
    /\ UNCHANGED <<disabled, refusing, tick, age>>

(* ~UserDictionary; the last one takes the database with it, unless the    *)
(* recovery task holds it.                                                 *)
Leave(u) ==
    /\ u \in here
    /\ here' = here \ {u}
    /\ composing' = composing \ {u}
    /\ IF Usable THEN CommitPendingTransaction /\ behind' = BehindAfter
                 ELSE UNCHANGED <<store, clock, batch, batchClock, inTx, owner, behind>>
    /\ loaded' = (loaded /\ (here' # {} \/ disabled))
    /\ UNCHANGED <<disabled, refusing, tick, age>>

(***************************************************************************)
(* The recovery task repairs the file, with the loss of some entries; or   *)
(* replaces it, restores what a snapshot held and leaves it open; or       *)
(* fails.  Neither the damage nor the age of the snapshot is the code's.   *)
(***************************************************************************)
Repaired ==
    {r \in [store : [Words -> -MaxCount..MaxCount], clock : {NoClock, clock}] :
       \A w \in Words : r.store[w] \in {0, store[w]}}
Salvaged == Repaired \cup Snapshots

Recover ==
    /\ disabled /\ ~loaded
    /\ disabled' = FALSE
    /\ \/ UNCHANGED <<store, clock, loaded>>
       \/ /\ \E r \in Salvaged : store' = r.store /\ clock' = r.clock
          /\ loaded' \in BOOLEAN
    /\ behind' = Typists
    /\ UNCHANGED <<batch, batchClock, inTx, refusing, here, composing, tick, age, owner>>

(* The disk fills up, or has room again.                                   *)
DiskTurns ==
    /\ refusing' = ~refusing
    /\ UNCHANGED <<store, clock, batch, batchClock, inTx, loaded, disabled, here, composing,
                   tick, age, owner, behind>>

Crash ==
    /\ here # {}
    /\ here' = {} /\ composing' = {}
    /\ Emptied
    /\ loaded' = FALSE /\ disabled' = FALSE
    /\ UNCHANGED <<store, clock, refusing, tick, age, behind>>

Init ==
    /\ store = [w \in Words |-> 0] /\ clock = NoClock
    /\ batch = Nothing /\ batchClock = NoClock
    /\ inTx = FALSE /\ loaded = FALSE /\ disabled = FALSE /\ refusing \in BOOLEAN
    /\ here = {} /\ composing = {}
    /\ tick = [u \in Typists |-> 0] /\ age = [u \in Typists |-> Window + 1]
    /\ owner = None /\ behind = {}

Next ==
    \/ \E u \in Typists, script \in BOOLEAN :
         Type(u, script) \/ \E w \in Words : OnDeleteEntry(u, w, script)
    \/ \E u \in Typists, p \in Phrases : OnCommit(u, p)
    \/ \E u \in Typists : Escape(u) \/ UnhandledKey(u) \/ BackSpace(u)
    \/ \E u \in Typists : Load(u) \/ LoadFails(u) \/ Leave(u)
    \/ Elapse \/ Recover \/ DiskTurns \/ Crash

Spec == Init /\ [][Next]_vars

-----------------------------------------------------------------------------
(* The counts as a typist sees them once the transaction is finished; with *)
(* a disk that takes nothing, those on disk.                               *)
View == StoreAfter

TypeOK ==
    /\ store \in [Words -> Int] /\ clock \in Nat \cup {NoClock}
    /\ DOMAIN batch \subseteq Words /\ batch \in [DOMAIN batch -> Int]
    /\ batchClock \in Nat \cup {NoClock}
    /\ inTx \in BOOLEAN /\ loaded \in BOOLEAN /\ disabled \in BOOLEAN /\ refusing \in BOOLEAN
    /\ here \subseteq Typists /\ composing \subseteq here
    /\ tick \in [Typists -> Nat] /\ age \in [Typists -> 0..Window + 1]
    /\ owner \in Typists \cup {None} /\ behind \subseteq Typists

(* The many objects, with their clocks, times, loads and recoveries, are   *)
(* one dictionary with at most one tentative commit: a word never counts   *)
(* twice for a commit, half a commit is never kept, and a deletion is not  *)
(* taken back with somebody's commit (user_dictionary.cc:486-510).         *)
Learned == INSTANCE LearnedWords
             WITH Words <- Words, kept <- store, open <- inTx, tentative <- batch,
                  refusing <- refusing
OneDictionary == Learned!Spec

(* The file is never being recovered while somebody learns into it, and    *)
(* nothing waits in the batch of a closed database or of an engine that is *)
(* gone (user_dictionary.cc:158-180).                                      *)
NothingLeftWaiting ==
    /\ loaded => ~disabled
    /\ inTx => loaded /\ owner \in here
    /\ ~inTx => batch = Nothing /\ batchClock = NoClock

(* A BackSpace never takes back a commit older than the window, whoever    *)
(* made the commit: the time that is tested is that of the typist's own    *)
(* last commit (user_dictionary.cc:499).                                   *)
RevertIsRecent ==
    [][\A u \in Typists : BackSpace(u) /\ View' # View => age[owner] <= Window]_vars

(* Only a BackSpace, a deletion, a later commit, the loss of the process   *)
(* and a disk that takes nothing change what the typists have learned:     *)
(* engines that come and go, queries and other keys keep it.  The last     *)
(* engine to go commits before the database closes                         *)
(* (user_dictionary.cc:158).                                               *)
Quiet(u) ==
    \/ \E script \in BOOLEAN : Type(u, script)
    \/ Escape(u) \/ UnhandledKey(u) \/ Load(u) \/ LoadFails(u) \/ Leave(u)
QuietStepsKeepAll == [][(\E u \in Typists : Quiet(u)) => View' = View]_vars

(* The clock on disk goes back only through a typist who has not read it   *)
(* since somebody else moved it: a table translator, which never reads it  *)
(* again, an open composition, or an object that could not load            *)
(* (user_dictionary.cc:459, 472).                                          *)
ClockGoesForward ==
    [][clock' < clock => owner \in behind \/ disabled]_vars

(* The promise of memory.cc:156, "forget about last commit": what a        *)
(* BackSpace takes back is the commit of the typist who pressed it.        *)
ForgetsOwnCommit ==
    [][\A u \in Typists : BackSpace(u) /\ View' # View => owner = u]_vars
=============================================================================
