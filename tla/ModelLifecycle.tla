--------------------------- MODULE ModelLifecycle ---------------------------
(***************************************************************************)
(* Loading and unloading of the language model (llm_filter.cc).  The       *)
(* engine thread builds a filter at each deployment or schema change and   *)
(* loads, reloads or unloads the model; a detached thread loads it; the    *)
(* engine thread scores with it, and prepare threads use it too.  g_mutex  *)
(* is held by the holder of "lock".  Rime calls are serialised by the      *)
(* server's g_api_mutex, so there is one engine thread.                    *)
(*                                                                         *)
(* The loading thread takes g_mutex for its warm-up only: it assigns       *)
(* g_model, g_vocab and g_ctx unlocked, and it reads g_model_path, which   *)
(* the engine thread may assign meanwhile, twice.                          *)
(***************************************************************************)
EXTENDS Naturals

CONSTANTS Path,       \* model files
          None,       \* nullptr
          Loader,     \* identities for loading threads
          Preparer,   \* identities for prepare threads
          MaxDeploy, MaxFail   \* bounds: filters built, loads that fail

ASSUME PathAssumption == None \notin Path
ASSUME LockAssumption == {"free", "engine"} \cap Preparer = {}
ASSUME BoundAssumption == MaxDeploy \in Nat /\ MaxFail \in Nat

VARIABLES
  want, enabled,        \* g_model_path, g_enabled
  model, vocab, ctx,    \* the file behind g_model; what g_vocab and g_ctx belong to
  loaded, loading,      \* g_loaded, g_loading
  loadedFrom,           \* g_loaded_from
  lock,                 \* who holds g_mutex
  engine,               \* where the engine thread stands
  loader,               \* where each loading thread stands
  preparer,             \* where each prepare thread stands
  found,                \* what g_ctx belonged to when each prepare thread got the lock
  deploys, fails,
  leaked                \* history: a load overwrote a model nobody had freed

memory == <<model, vocab, ctx>>
vars   == <<want, enabled, model, vocab, ctx, loaded, loading, loadedFrom, lock, engine,
            loader, preparer, found, deploys, fails, leaked>>

File == Path \cup {None}

TypeOK ==
  /\ want \in Path /\ enabled \in BOOLEAN
  /\ model \in File /\ vocab \in File /\ ctx \in File
  /\ loaded \in BOOLEAN /\ loading \in BOOLEAN
  /\ loadedFrom \in (IF loaded THEN Path ELSE File)
  /\ lock \in {"free", "engine"} \cup Preparer
  /\ engine \in {"idle", "compare", "reload", "unload", "loaded?", "loading?", "score"}
  /\ loader \in [Loader -> {"idle", "file", "context", "warm", "name", "loaded", "done"}]
  /\ preparer \in [Preparer -> {"idle", "tokenize", "lock", "decode"}]
  /\ found \in [Preparer -> File]
  /\ deploys \in 0..MaxDeploy /\ fails \in 0..MaxFail /\ leaked \in BOOLEAN

Init ==
  /\ want \in Path /\ enabled = FALSE
  /\ model = None /\ vocab = None /\ ctx = None
  /\ loaded = FALSE /\ loading = FALSE /\ loadedFrom = None
  /\ lock = "free" /\ engine = "idle"
  /\ loader = [l \in Loader |-> "idle"]
  /\ preparer = [p \in Preparer |-> "idle"] /\ found = [p \in Preparer |-> None]
  /\ deploys = 0 /\ fails = 0 /\ leaked = FALSE

------------------------------------------------------------------------------
(* The engine thread: the filter's constructor, then load_model_async or unload_model. *)

\* the schema's parameters are applied
Deploy(p, on) ==
  /\ engine = "idle"
  /\ deploys < MaxDeploy
  /\ deploys' = deploys + 1
  /\ want' = p
  /\ enabled' = on
  /\ engine' = IF on THEN "compare" ELSE "unload"
  /\ UNCHANGED <<memory, loaded, loading, loadedFrom, lock, loader, preparer, found, fails,
                 leaked>>

\* has the path changed since the model was loaded?
Compare ==
  /\ engine = "compare"
  /\ engine' = IF loaded /\ loadedFrom # want THEN "reload" ELSE "loaded?"
  /\ UNCHANGED <<want, enabled, memory, loaded, loading, loadedFrom, lock, loader, preparer,
                 found, deploys, fails, leaked>>

MayUnload_NoWait == lock = "free"
MayUnload_NoLock == ~loading
MayUnload == ~loading /\ lock = "free"

AfterUnload_Stop == "idle"
AfterUnload == IF engine = "reload" THEN "loaded?" ELSE "idle"

InUse == loaded \/ model # None \/ ctx # None

\* unload_model: wait for a load under way, then free everything under the lock; when
\* there is nothing to free, a g_vocab left by a failed load stays
Unload ==
  /\ engine \in {"reload", "unload"}
  /\ MayUnload
  /\ vocab' = IF InUse THEN None ELSE vocab
  /\ model' = None /\ ctx' = None
  /\ loaded' = FALSE
  /\ engine' = AfterUnload
  /\ UNCHANGED <<want, enabled, loading, loadedFrom, lock, loader, preparer, found, deploys,
                 fails, leaked>>

\* "if (g_loaded || g_loading) return": two reads, with the loading thread between them
ReadLoaded ==
  /\ engine = "loaded?"
  /\ engine' = IF loaded THEN "idle" ELSE "loading?"
  /\ UNCHANGED <<want, enabled, memory, loaded, loading, loadedFrom, lock, loader, preparer,
                 found, deploys, fails, leaked>>

MayLoad_Unchecked == TRUE
MayLoad == ~loading

ReadLoading ==
  /\ engine = "loading?"
  /\ engine' = "idle"
  /\ \/ /\ MayLoad
        /\ loading' = TRUE
        /\ \E l \in Loader :
             loader[l] = "idle" /\ loader' = [loader EXCEPT ![l] = "file"]
     \/ ~MayLoad /\ UNCHANGED <<loading, loader>>
  /\ UNCHANGED <<want, enabled, memory, loaded, loadedFrom, lock, preparer, found, deploys,
                 fails, leaked>>

\* Apply and Collect test g_enabled and g_loaded, score_batch takes the lock
ScoreBegins ==
  /\ engine = "idle"
  /\ enabled /\ loaded
  /\ lock = "free"
  /\ lock' = "engine"
  /\ engine' = "score"
  /\ UNCHANGED <<want, enabled, memory, loaded, loading, loadedFrom, loader, preparer, found,
                 deploys, fails, leaked>>

ScoreEnds ==
  /\ engine = "score"
  /\ lock' = "free"
  /\ engine' = "idle"
  /\ UNCHANGED <<want, enabled, memory, loaded, loading, loadedFrom, loader, preparer, found,
                 deploys, fails, leaked>>

------------------------------------------------------------------------------
(* The loading thread. *)

LoadFails_StillLoading == UNCHANGED loading
LoadFails == loading' = FALSE

\* the file cannot be read
FileFails(l) ==
  /\ loader[l] = "file"
  /\ fails < MaxFail
  /\ fails' = fails + 1
  /\ model' = None
  /\ leaked' = (leaked \/ model # None)
  /\ LoadFails
  /\ loader' = [loader EXCEPT ![l] = "idle"]
  /\ UNCHANGED <<want, enabled, vocab, ctx, loaded, loadedFrom, lock, engine, preparer,
                 found, deploys>>

\* llama_model_load_from_file(g_model_path)
LoadFile(l) ==
  /\ loader[l] = "file"
  /\ model' = want
  /\ vocab' = want
  /\ leaked' = (leaked \/ model # None)
  /\ loader' = [loader EXCEPT ![l] = "context"]
  /\ UNCHANGED <<want, enabled, ctx, loaded, loading, loadedFrom, lock, engine, preparer,
                 found, deploys, fails>>

\* the context cannot be created: the model is freed, g_vocab is not reset
ContextFails(l) ==
  /\ loader[l] = "context"
  /\ fails < MaxFail
  /\ fails' = fails + 1
  /\ model' = None
  /\ ctx' = None
  /\ LoadFails
  /\ loader' = [loader EXCEPT ![l] = "idle"]
  /\ UNCHANGED <<want, enabled, vocab, loaded, loadedFrom, lock, engine, preparer, found,
                 deploys, leaked>>

MakeContext(l) ==
  /\ loader[l] = "context"
  /\ ctx' = model
  /\ loader' = [loader EXCEPT ![l] = "warm"]
  /\ UNCHANGED <<want, enabled, model, vocab, loaded, loading, loadedFrom, lock, engine,
                 preparer, found, deploys, fails, leaked>>

AfterWarmUp_Unnamed == "loaded"
AfterWarmUp == "name"

\* the warm-up decode, under the lock
WarmUp(l) ==
  /\ loader[l] = "warm"
  /\ lock = "free"
  /\ loader' = [loader EXCEPT ![l] = AfterWarmUp]
  /\ UNCHANGED <<want, enabled, memory, loaded, loading, loadedFrom, lock, engine, preparer,
                 found, deploys, fails, leaked>>

\* g_loaded_from = g_model_path, g_loaded = true, g_loading = false, one after the other
Publish(l) ==
  /\ \/ /\ loader[l] = "name"
        /\ loadedFrom' = want
        /\ loader' = [loader EXCEPT ![l] = "loaded"]
        /\ UNCHANGED <<loaded, loading>>
     \/ /\ loader[l] = "loaded"
        /\ loaded' = TRUE
        /\ loader' = [loader EXCEPT ![l] = "done"]
        /\ UNCHANGED <<loadedFrom, loading>>
     \/ /\ loader[l] = "done"
        /\ loading' = FALSE
        /\ loader' = [loader EXCEPT ![l] = "idle"]
        /\ UNCHANGED <<loadedFrom, loaded>>
  /\ UNCHANGED <<want, enabled, memory, lock, engine, preparer, found, deploys, fails,
                 leaked>>

------------------------------------------------------------------------------
(* A prepare thread. *)

\* on_context_changed and OnCommit test g_loaded and g_loading, then start a thread
PrepareRequested(p) ==
  /\ preparer[p] = "idle"
  /\ loaded /\ ~loading
  /\ preparer' = [preparer EXCEPT ![p] = "tokenize"]
  /\ UNCHANGED <<want, enabled, memory, loaded, loading, loadedFrom, lock, engine, loader,
                 found, deploys, fails, leaked>>

\* the text is tokenized with g_vocab, unlocked
Tokenize(p) ==
  /\ preparer[p] = "tokenize"
  /\ preparer' = [preparer EXCEPT ![p] = "lock"]
  /\ UNCHANGED <<want, enabled, memory, loaded, loading, loadedFrom, lock, engine, loader,
                 found, deploys, fails, leaked>>

\* prepare tries the lock, and gives up when it is taken
PrepareLocks(p) ==
  /\ preparer[p] = "lock"
  /\ \/ /\ lock = "free"
        /\ lock' = p
        /\ found' = [found EXCEPT ![p] = ctx]
        /\ preparer' = [preparer EXCEPT ![p] = "decode"]
     \/ /\ lock # "free"
        /\ preparer' = [preparer EXCEPT ![p] = "idle"]
        /\ UNCHANGED <<lock, found>>
  /\ UNCHANGED <<want, enabled, memory, loaded, loading, loadedFrom, engine, loader, deploys,
                 fails, leaked>>

PrepareEnds(p) ==
  /\ preparer[p] = "decode"
  /\ lock' = "free"
  /\ found' = [found EXCEPT ![p] = None]
  /\ preparer' = [preparer EXCEPT ![p] = "idle"]
  /\ UNCHANGED <<want, enabled, memory, loaded, loading, loadedFrom, engine, loader, deploys,
                 fails, leaked>>

Engine  == Compare \/ Unload \/ ReadLoaded \/ ReadLoading \/ ScoreEnds
Load(l) == LoadFile(l) \/ MakeContext(l) \/ WarmUp(l) \/ Publish(l)
Prepare(p) == Tokenize(p) \/ PrepareLocks(p) \/ PrepareEnds(p)

Next ==
  \/ \E p \in Path, on \in BOOLEAN : Deploy(p, on)
  \/ Engine
  \/ ScoreBegins
  \/ \E l \in Loader : Load(l) \/ FileFails(l) \/ ContextFails(l)
  \/ \E p \in Preparer : PrepareRequested(p) \/ Prepare(p)

Spec == Init /\ [][Next]_vars

\* Threads that can run do run.  The lock is handed out in no particular order, so a
\* thread waiting for it needs strong fairness; nobody has to deploy, score or prepare.
Fairness ==
  /\ WF_vars(Compare) /\ WF_vars(ReadLoaded) /\ WF_vars(ReadLoading) /\ WF_vars(ScoreEnds)
  /\ SF_vars(Unload)
  /\ \A l \in Loader : SF_vars(Load(l) \/ FileFails(l) \/ ContextFails(l))
  /\ \A p \in Preparer : WF_vars(Prepare(p))

FairSpec == Spec /\ Fairness

------------------------------------------------------------------------------
(* Properties. *)

\* g_loading is true exactly while one thread loads: two would assign g_model and
\* g_ctx over each other, and unload_model waits for one.
OneLoader ==
  /\ \A k, l \in Loader : loader[k] # "idle" /\ loader[l] # "idle" => k = l
  /\ loading <=> \E l \in Loader : loader[l] # "idle"

\* Whoever decodes under the lock keeps the model he found, and a score finds one, for
\* g_loaded is set last and cleared first - until a load overwrites a model in memory.
DecodersKeepModel ==
  ~leaked =>
    /\ engine = "score" => model # None /\ ctx = model /\ vocab = model
    /\ \A p \in Preparer : preparer[p] = "decode" /\ found[p] # None => found[p] = ctx

\* Once the constructor of a filter switched off has returned, nothing is loaded and no
\* load under way will bring a model back.
DisabledFrees ==
  engine = "idle" /\ ~enabled =>
    /\ model = None /\ ctx = None /\ ~loaded
    /\ \A l \in Loader : loader[l] = "idle"

\* The engine thread, and the keyboard behind it, is never left waiting: whatever fails,
\* a load ends and lets unload_model go on.
EngineReturns == engine # "idle" ~> engine = "idle"

\* A filter that is switched on gets its model, if no load fails: a change of path
\* unloads the old model and loads the new one.
EnabledLoads == enabled ~> loaded \/ ~enabled \/ fails > 0

\* llm_filter.cc:106 g_loaded_from is "the path the loaded model came from (to detect
\* changes)".
LoadedFromTellsModel == loaded => loadedFrom = model

------------------------------------------------------------------------------
(* A promise of a comment that the code does not keep, beyond the last one above; the *)
(* README tells how.  It is stated for the reader and checked by no run.              *)

\* llm_filter.cc:1204 switching off "really frees the memory instead of staying resident
\* until the process exits": no model is left behind that nothing points to.
SwitchingOffFreesAll == engine = "idle" /\ ~enabled => ~leaked
==============================================================================
