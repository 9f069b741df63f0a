------------------------ MODULE ModelLifecycleProofs ------------------------
(***************************************************************************)
(* Theorems about ModelLifecycle, for any model files, any number of       *)
(* loading and prepare threads, deployments and failures.  The inductive   *)
(* invariant says, for each position of the loading thread, what is in     *)
(* memory; it is void of that once a model has been overwritten.           *)
(***************************************************************************)
EXTENDS ModelLifecycle, TLAPS

\* The path is recorded before the model counts as loaded.
Named == \A l \in Loader : loader[l] \in {"loaded", "done"} => loadedFrom \in Path

\* g_mutex is held by whoever decodes, and by nobody else.
LockHeld ==
  /\ lock = "engine" <=> engine = "score"
  /\ \A p \in Preparer : lock = p <=> preparer[p] = "decode"

\* Loading is begun by a filter that is switched on; scoring needs a model.
EngineOn ==
  /\ engine \in {"compare", "reload", "loaded?", "loading?"} => enabled
  /\ engine = "unload" => ~enabled
  /\ engine = "score" => enabled /\ loaded

Freed ==
  /\ model = None /\ ctx = None /\ ~loaded
  /\ \A l \in Loader : loader[l] = "idle"

FreedWhenOff == ~enabled /\ engine # "unload" => Freed

InMemory == model \in Path /\ vocab = model /\ ctx = model

\* What is in memory when it is loaded, while it is loaded, and before.
MemoryTold ==
  /\ loaded => InMemory /\ \A l \in Loader : loader[l] \in {"idle", "file", "done"}
  /\ \A l \in Loader : loader[l] = "context" => model \in Path /\ vocab = model /\ ctx = None
  /\ \A l \in Loader : loader[l] \in {"warm", "name", "loaded", "done"} => InMemory
  /\ \A l \in Loader : loader[l] = "done" => loaded
  /\ ~loaded /\ (\A l \in Loader : loader[l] \in {"idle", "file"}) => model = None /\ ctx = None

FoundKept == \A p \in Preparer : preparer[p] = "decode" /\ found[p] # None => found[p] = ctx

IInv ==
  /\ TypeOK /\ OneLoader /\ Named /\ LockHeld /\ EngineOn /\ FreedWhenOff
  /\ ~leaked => MemoryTold /\ FoundKept

LEMMA Distinct == None \notin Path /\ "free" \notin Preparer /\ "engine" \notin Preparer
  BY PathAssumption, LockAssumption

LEMMA InitIInv == Init => IInv
  <1> SUFFICES ASSUME Init PROVE IInv
    OBVIOUS
  <1> USE DEF Init
  <1>1. TypeOK
    <2>1. loader \in [Loader -> {"idle", "file", "context", "warm", "name", "loaded", "done"}]
      OBVIOUS
    <2>2. preparer \in [Preparer -> {"idle", "tokenize", "lock", "decode"}]
          /\ found \in [Preparer -> File]
      BY DEF File
    <2>3. deploys \in 0..MaxDeploy /\ fails \in 0..MaxFail
      BY BoundAssumption
    <2> QED
      BY <2>1, <2>2, <2>3 DEF TypeOK, File
  <1>2. OneLoader /\ Named /\ EngineOn
    BY DEF OneLoader, Named, EngineOn
  <1>3. LockHeld
    BY Distinct DEF LockHeld
  <1>4. FreedWhenOff /\ MemoryTold /\ FoundKept
    BY DEF FreedWhenOff, Freed, MemoryTold, FoundKept
  <1> QED
    BY <1>1, <1>2, <1>3, <1>4 DEF IInv

LEMMA DeployKeeps == ASSUME NEW w \in Path, NEW on \in BOOLEAN, IInv, Deploy(w, on) PROVE IInv'
  <1> USE DEF IInv, TypeOK, Deploy, memory
  <1>1. TypeOK'
    BY BoundAssumption DEF File
  <1>2. OneLoader'
    BY DEF OneLoader
  <1>3. Named'
    BY DEF Named, OneLoader
  <1>4. LockHeld' /\ EngineOn'
    BY Distinct DEF LockHeld, EngineOn
  <1>5. FreedWhenOff'
    BY DEF FreedWhenOff, Freed, EngineOn, OneLoader
  <1>6. ~leaked' => MemoryTold'
    BY Distinct DEF MemoryTold, InMemory, OneLoader, FreedWhenOff, Freed, EngineOn
  <1>7. ~leaked' => FoundKept'
    BY Distinct DEF MemoryTold, FoundKept, InMemory, OneLoader, LockHeld
  <1> QED
    BY <1>1, <1>2, <1>3, <1>4, <1>5, <1>6, <1>7

LEMMA CompareKeeps == ASSUME IInv, Compare PROVE IInv'
  <1> USE DEF IInv, TypeOK, Compare, memory
  <1>1. TypeOK'
    BY BoundAssumption DEF File
  <1>2. OneLoader'
    BY DEF OneLoader
  <1>3. Named'
    BY DEF Named, OneLoader
  <1>4. LockHeld' /\ EngineOn'
    BY Distinct DEF LockHeld, EngineOn
  <1>5. FreedWhenOff'
    BY DEF FreedWhenOff, Freed, EngineOn, OneLoader
  <1>6. ~leaked' => MemoryTold'
    BY Distinct DEF MemoryTold, InMemory, OneLoader, FreedWhenOff, Freed, EngineOn
  <1>7. ~leaked' => FoundKept'
    BY Distinct DEF MemoryTold, FoundKept, InMemory, OneLoader, LockHeld
  <1> QED
    BY <1>1, <1>2, <1>3, <1>4, <1>5, <1>6, <1>7

LEMMA UnloadKeeps == ASSUME IInv, Unload PROVE IInv'
  <1> USE DEF IInv, TypeOK, Unload, MayUnload, AfterUnload, memory
  <1>1. TypeOK'
    BY BoundAssumption DEF File
  <1>2. OneLoader'
    BY DEF OneLoader
  <1>3. Named'
    BY DEF Named, OneLoader
  <1>4. LockHeld' /\ EngineOn'
    BY Distinct DEF LockHeld, EngineOn
  <1>5. FreedWhenOff'
    BY DEF FreedWhenOff, Freed, EngineOn, OneLoader
  <1>6. ~leaked' => MemoryTold'
    BY Distinct DEF MemoryTold, InMemory, OneLoader, FreedWhenOff, Freed, EngineOn
  <1>7. ~leaked' => FoundKept'
    BY Distinct DEF MemoryTold, FoundKept, InMemory, OneLoader, LockHeld
  <1> QED
    BY <1>1, <1>2, <1>3, <1>4, <1>5, <1>6, <1>7

LEMMA ReadLoadedKeeps == ASSUME IInv, ReadLoaded PROVE IInv'
  <1> USE DEF IInv, TypeOK, ReadLoaded, memory
  <1>1. TypeOK'
    BY BoundAssumption DEF File
  <1>2. OneLoader'
    BY DEF OneLoader
  <1>3. Named'
    BY DEF Named, OneLoader
  <1>4. LockHeld' /\ EngineOn'
    BY Distinct DEF LockHeld, EngineOn
  <1>5. FreedWhenOff'
    BY DEF FreedWhenOff, Freed, EngineOn, OneLoader
  <1>6. ~leaked' => MemoryTold'
    BY Distinct DEF MemoryTold, InMemory, OneLoader, FreedWhenOff, Freed, EngineOn
  <1>7. ~leaked' => FoundKept'
    BY Distinct DEF MemoryTold, FoundKept, InMemory, OneLoader, LockHeld
  <1> QED
    BY <1>1, <1>2, <1>3, <1>4, <1>5, <1>6, <1>7

LEMMA ReadLoadingKeeps == ASSUME IInv, ReadLoading PROVE IInv'
  <1> USE DEF IInv, TypeOK, ReadLoading, MayLoad, memory
  <1>1. TypeOK'
    BY BoundAssumption DEF File
  <1>2. OneLoader'
    BY DEF OneLoader
  <1>3. Named'
    BY DEF Named, OneLoader
  <1>4. LockHeld' /\ EngineOn'
    BY Distinct DEF LockHeld, EngineOn
  <1>5. FreedWhenOff'
    BY DEF FreedWhenOff, Freed, EngineOn, OneLoader
  <1>6. ~leaked' => MemoryTold'
    BY Distinct DEF MemoryTold, InMemory, OneLoader, FreedWhenOff, Freed, EngineOn
  <1>7. ~leaked' => FoundKept'
    BY Distinct DEF MemoryTold, FoundKept, InMemory, OneLoader, LockHeld
  <1> QED
    BY <1>1, <1>2, <1>3, <1>4, <1>5, <1>6, <1>7

LEMMA ScoreBeginsKeeps == ASSUME IInv, ScoreBegins PROVE IInv'
  <1> USE DEF IInv, TypeOK, ScoreBegins, memory
  <1>1. TypeOK'
    BY BoundAssumption DEF File
  <1>2. OneLoader'
    BY DEF OneLoader
  <1>3. Named'
    BY DEF Named, OneLoader
  <1>4. LockHeld' /\ EngineOn'
    BY Distinct DEF LockHeld, EngineOn
  <1>5. FreedWhenOff'
    BY DEF FreedWhenOff, Freed, EngineOn, OneLoader
  <1>6. ~leaked' => MemoryTold'
    BY Distinct DEF MemoryTold, InMemory, OneLoader, FreedWhenOff, Freed, EngineOn
  <1>7. ~leaked' => FoundKept'
    BY Distinct DEF MemoryTold, FoundKept, InMemory, OneLoader, LockHeld
  <1> QED
    BY <1>1, <1>2, <1>3, <1>4, <1>5, <1>6, <1>7

LEMMA ScoreEndsKeeps == ASSUME IInv, ScoreEnds PROVE IInv'
  <1> USE DEF IInv, TypeOK, ScoreEnds, memory
  <1>1. TypeOK'
    BY BoundAssumption DEF File
  <1>2. OneLoader'
    BY DEF OneLoader
  <1>3. Named'
    BY DEF Named, OneLoader
  <1>4. LockHeld' /\ EngineOn'
    BY Distinct DEF LockHeld, EngineOn
  <1>5. FreedWhenOff'
    BY DEF FreedWhenOff, Freed, EngineOn, OneLoader
  <1>6. ~leaked' => MemoryTold'
    BY Distinct DEF MemoryTold, InMemory, OneLoader, FreedWhenOff, Freed, EngineOn
  <1>7. ~leaked' => FoundKept'
    BY Distinct DEF MemoryTold, FoundKept, InMemory, OneLoader, LockHeld
  <1> QED
    BY <1>1, <1>2, <1>3, <1>4, <1>5, <1>6, <1>7

LEMMA FileFailsKeeps == ASSUME NEW k \in Loader, IInv, FileFails(k) PROVE IInv'
  <1> USE DEF IInv, TypeOK, FileFails, LoadFails, memory
  <1>1. TypeOK'
    <2>1. fails' \in 0..MaxFail
      BY BoundAssumption
    <2>2. loader' \in [Loader -> {"idle", "file", "context", "warm", "name", "loaded", "done"}]
      OBVIOUS
    <2> QED
      BY <2>1, <2>2 DEF File
  <1>2. OneLoader'
    BY DEF OneLoader
  <1>3. Named'
    BY DEF Named, OneLoader
  <1>4. LockHeld' /\ EngineOn'
    BY Distinct DEF LockHeld, EngineOn
  <1>5. FreedWhenOff'
    BY DEF FreedWhenOff, Freed, EngineOn, OneLoader
  <1>6. ~leaked' => MemoryTold'
    BY Distinct DEF MemoryTold, InMemory, OneLoader, FreedWhenOff, Freed, EngineOn
  <1>7. ~leaked' => FoundKept'
    BY Distinct DEF MemoryTold, FoundKept, InMemory, OneLoader, LockHeld
  <1> QED
    BY <1>1, <1>2, <1>3, <1>4, <1>5, <1>6, <1>7

LEMMA LoadFileKeeps == ASSUME NEW k \in Loader, IInv, LoadFile(k) PROVE IInv'
  <1> USE DEF IInv, TypeOK, LoadFile, memory
  <1>1. TypeOK'
    BY BoundAssumption DEF File
  <1>2. OneLoader'
    BY DEF OneLoader
  <1>3. Named'
    BY DEF Named, OneLoader
  <1>4. LockHeld' /\ EngineOn'
    BY Distinct DEF LockHeld, EngineOn
  <1>5. FreedWhenOff'
    BY DEF FreedWhenOff, Freed, EngineOn, OneLoader
  <1>6. ~leaked' => MemoryTold'
    BY Distinct DEF MemoryTold, InMemory, OneLoader, FreedWhenOff, Freed, EngineOn
  <1>7. ~leaked' => FoundKept'
    BY Distinct DEF MemoryTold, FoundKept, InMemory, OneLoader, LockHeld
  <1> QED
    BY <1>1, <1>2, <1>3, <1>4, <1>5, <1>6, <1>7

LEMMA ContextFailsKeeps == ASSUME NEW k \in Loader, IInv, ContextFails(k) PROVE IInv'
  <1> USE DEF IInv, TypeOK, ContextFails, LoadFails, memory
  <1>1. TypeOK'
    <2>1. fails' \in 0..MaxFail
      BY BoundAssumption
    <2>2. loader' \in [Loader -> {"idle", "file", "context", "warm", "name", "loaded", "done"}]
      OBVIOUS
    <2> QED
      BY <2>1, <2>2 DEF File
  <1>2. OneLoader'
    BY DEF OneLoader
  <1>3. Named'
    BY DEF Named, OneLoader
  <1>4. LockHeld' /\ EngineOn'
    BY Distinct DEF LockHeld, EngineOn
  <1>5. FreedWhenOff'
    BY DEF FreedWhenOff, Freed, EngineOn, OneLoader
  <1>6. ~leaked' => MemoryTold'
    BY Distinct DEF MemoryTold, InMemory, OneLoader, FreedWhenOff, Freed, EngineOn
  <1>7. ~leaked' => FoundKept'
    BY Distinct DEF MemoryTold, FoundKept, InMemory, OneLoader, LockHeld
  <1> QED
    BY <1>1, <1>2, <1>3, <1>4, <1>5, <1>6, <1>7

LEMMA MakeContextKeeps == ASSUME NEW k \in Loader, IInv, MakeContext(k) PROVE IInv'
  <1> USE DEF IInv, TypeOK, MakeContext, memory
  <1>1. TypeOK'
    BY BoundAssumption DEF File
  <1>2. OneLoader'
    BY DEF OneLoader
  <1>3. Named'
    BY DEF Named, OneLoader
  <1>4. LockHeld' /\ EngineOn'
    BY Distinct DEF LockHeld, EngineOn
  <1>5. FreedWhenOff'
    BY DEF FreedWhenOff, Freed, EngineOn, OneLoader
  <1>6. ~leaked' => MemoryTold'
    BY Distinct DEF MemoryTold, InMemory, OneLoader, FreedWhenOff, Freed, EngineOn
  <1>7. ~leaked' => FoundKept'
    BY Distinct DEF MemoryTold, FoundKept, InMemory, OneLoader, LockHeld
  <1> QED
    BY <1>1, <1>2, <1>3, <1>4, <1>5, <1>6, <1>7

LEMMA WarmUpKeeps == ASSUME NEW k \in Loader, IInv, WarmUp(k) PROVE IInv'
  <1> USE DEF IInv, TypeOK, WarmUp, AfterWarmUp, memory
  <1>1. TypeOK'
    BY BoundAssumption DEF File
  <1>2. OneLoader'
    BY DEF OneLoader
  <1>3. Named'
    BY DEF Named, OneLoader
  <1>4. LockHeld' /\ EngineOn'
    BY Distinct DEF LockHeld, EngineOn
  <1>5. FreedWhenOff'
    BY DEF FreedWhenOff, Freed, EngineOn, OneLoader
  <1>6. ~leaked' => MemoryTold'
    BY Distinct DEF MemoryTold, InMemory, OneLoader, FreedWhenOff, Freed, EngineOn
  <1>7. ~leaked' => FoundKept'
    BY Distinct DEF MemoryTold, FoundKept, InMemory, OneLoader, LockHeld
  <1> QED
    BY <1>1, <1>2, <1>3, <1>4, <1>5, <1>6, <1>7

LEMMA PublishKeeps == ASSUME NEW k \in Loader, IInv, Publish(k) PROVE IInv'
  <1> USE DEF IInv, TypeOK, Publish, memory
  <1>1. TypeOK'
    <2>1. loader' \in [Loader -> {"idle", "file", "context", "warm", "name", "loaded", "done"}]
      OBVIOUS
    <2>2. loadedFrom' \in (IF loaded' THEN Path ELSE File)
      BY DEF File, Named
    <2>3. loaded' \in BOOLEAN /\ loading' \in BOOLEAN
      OBVIOUS
    <2> QED
      BY <2>1, <2>2, <2>3
  <1>2. OneLoader'
    BY DEF OneLoader
  <1>3. Named'
    BY DEF Named, OneLoader
  <1>4. LockHeld' /\ EngineOn'
    BY Distinct DEF LockHeld, EngineOn
  <1>5. FreedWhenOff'
    BY DEF FreedWhenOff, Freed, EngineOn, OneLoader
  <1>6. ~leaked' => MemoryTold'
    <2> SUFFICES ASSUME ~leaked' PROVE MemoryTold'
      OBVIOUS
    <2>1. MemoryTold /\ InMemory /\ InMemory'
      BY DEF MemoryTold, InMemory
    <2>2. \A l \in Loader : l # k => loader[l] = "idle" /\ loader'[l] = "idle"
      BY DEF OneLoader
    <2>3. \/ loader[k] = "name" /\ loader'[k] = "loaded" /\ loaded' = loaded
          \/ loader[k] = "loaded" /\ loader'[k] = "done" /\ loaded'
          \/ loader[k] = "done" /\ loader'[k] = "idle" /\ loaded' = loaded
      OBVIOUS
    <2>4. loaded' => loader'[k] \in {"idle", "done"}
      BY <2>1, <2>3 DEF MemoryTold
    <2> QED
      BY <2>1, <2>2, <2>3, <2>4 DEF MemoryTold
  <1>7. ~leaked' => FoundKept'
    BY Distinct DEF MemoryTold, FoundKept, InMemory, OneLoader, LockHeld
  <1> QED
    BY <1>1, <1>2, <1>3, <1>4, <1>5, <1>6, <1>7

LEMMA PrepareRequestedKeeps == ASSUME NEW t \in Preparer, IInv, PrepareRequested(t) PROVE IInv'
  <1> USE DEF IInv, TypeOK, PrepareRequested, memory
  <1>1. TypeOK'
    BY BoundAssumption DEF File
  <1>2. OneLoader'
    BY DEF OneLoader
  <1>3. Named'
    BY DEF Named, OneLoader
  <1>4. LockHeld' /\ EngineOn'
    BY Distinct DEF LockHeld, EngineOn
  <1>5. FreedWhenOff'
    BY DEF FreedWhenOff, Freed, EngineOn, OneLoader
  <1>6. ~leaked' => MemoryTold'
    BY Distinct DEF MemoryTold, InMemory, OneLoader, FreedWhenOff, Freed, EngineOn
  <1>7. ~leaked' => FoundKept'
    BY Distinct DEF MemoryTold, FoundKept, InMemory, OneLoader, LockHeld
  <1> QED
    BY <1>1, <1>2, <1>3, <1>4, <1>5, <1>6, <1>7

LEMMA TokenizeKeeps == ASSUME NEW t \in Preparer, IInv, Tokenize(t) PROVE IInv'
  <1> USE DEF IInv, TypeOK, Tokenize, memory
  <1>1. TypeOK'
    BY BoundAssumption DEF File
  <1>2. OneLoader'
    BY DEF OneLoader
  <1>3. Named'
    BY DEF Named, OneLoader
  <1>4. LockHeld' /\ EngineOn'
    BY Distinct DEF LockHeld, EngineOn
  <1>5. FreedWhenOff'
    BY DEF FreedWhenOff, Freed, EngineOn, OneLoader
  <1>6. ~leaked' => MemoryTold'
    BY Distinct DEF MemoryTold, InMemory, OneLoader, FreedWhenOff, Freed, EngineOn
  <1>7. ~leaked' => FoundKept'
    BY Distinct DEF MemoryTold, FoundKept, InMemory, OneLoader, LockHeld
  <1> QED
    BY <1>1, <1>2, <1>3, <1>4, <1>5, <1>6, <1>7

LEMMA PrepareLocksKeeps == ASSUME NEW t \in Preparer, IInv, PrepareLocks(t) PROVE IInv'
  <1> USE DEF IInv, TypeOK, PrepareLocks, memory
  <1>1. TypeOK'
    BY BoundAssumption DEF File
  <1>2. OneLoader'
    BY DEF OneLoader
  <1>3. Named'
    BY DEF Named, OneLoader
  <1>4. LockHeld' /\ EngineOn'
    BY Distinct DEF LockHeld, EngineOn
  <1>5. FreedWhenOff'
    BY DEF FreedWhenOff, Freed, EngineOn, OneLoader
  <1>6. ~leaked' => MemoryTold'
    BY Distinct DEF MemoryTold, InMemory, OneLoader, FreedWhenOff, Freed, EngineOn
  <1>7. ~leaked' => FoundKept'
    BY Distinct DEF MemoryTold, FoundKept, InMemory, OneLoader, LockHeld
  <1> QED
    BY <1>1, <1>2, <1>3, <1>4, <1>5, <1>6, <1>7

LEMMA PrepareEndsKeeps == ASSUME NEW t \in Preparer, IInv, PrepareEnds(t) PROVE IInv'
  <1> USE DEF IInv, TypeOK, PrepareEnds, memory
  <1>1. TypeOK'
    BY BoundAssumption DEF File
  <1>2. OneLoader'
    BY DEF OneLoader
  <1>3. Named'
    BY DEF Named, OneLoader
  <1>4. LockHeld' /\ EngineOn'
    BY Distinct DEF LockHeld, EngineOn
  <1>5. FreedWhenOff'
    BY DEF FreedWhenOff, Freed, EngineOn, OneLoader
  <1>6. ~leaked' => MemoryTold'
    BY Distinct DEF MemoryTold, InMemory, OneLoader, FreedWhenOff, Freed, EngineOn
  <1>7. ~leaked' => FoundKept'
    BY Distinct DEF MemoryTold, FoundKept, InMemory, OneLoader, LockHeld
  <1> QED
    BY <1>1, <1>2, <1>3, <1>4, <1>5, <1>6, <1>7

LEMMA NextKeeps == IInv /\ [Next]_vars => IInv'
  <1> SUFFICES ASSUME IInv, [Next]_vars PROVE IInv'
    OBVIOUS
  <1>1. ASSUME NEW w \in Path, NEW on \in BOOLEAN, Deploy(w, on) PROVE IInv'
    BY <1>1, DeployKeeps
  <1>2. CASE Engine
    BY <1>2, CompareKeeps, UnloadKeeps, ReadLoadedKeeps, ReadLoadingKeeps, ScoreEndsKeeps
       DEF Engine
  <1>3. CASE ScoreBegins
    BY <1>3, ScoreBeginsKeeps
  <1>4. ASSUME NEW k \in Loader, Load(k) \/ FileFails(k) \/ ContextFails(k) PROVE IInv'
    BY <1>4, LoadFileKeeps, MakeContextKeeps, WarmUpKeeps, PublishKeeps, FileFailsKeeps,
       ContextFailsKeeps DEF Load
  <1>5. ASSUME NEW t \in Preparer, PrepareRequested(t) \/ Prepare(t) PROVE IInv'
    BY <1>5, PrepareRequestedKeeps, TokenizeKeeps, PrepareLocksKeeps, PrepareEndsKeeps
       DEF Prepare
  <1>6. CASE UNCHANGED vars
    BY <1>6 DEF vars, memory, IInv, TypeOK, OneLoader, Named, LockHeld, EngineOn, FreedWhenOff,
       Freed, MemoryTold, InMemory, FoundKept
  <1> QED
    BY <1>1, <1>2, <1>3, <1>4, <1>5, <1>6 DEF Next

LEMMA Invariance == Spec => []IInv
  BY InitIInv, NextKeeps, PTL DEF Spec

\* Every variable keeps its type, and the path of a loaded model has been recorded before
\* g_loaded is set (load_model_async).
THEOREM TypeCorrect == Spec => []TypeOK
  <1>1. IInv => TypeOK
    BY DEF IInv
  <1> QED
    BY <1>1, Invariance, PTL

\* g_loading admits one loading thread, however often filters are built.
THEOREM OneLoads == Spec => []OneLoader
  <1>1. IInv => OneLoader
    BY DEF IInv
  <1> QED
    BY <1>1, Invariance, PTL

\* No model is freed or replaced under a decode: unload_model takes g_mutex, and the
\* loading thread, which does not, assigns only while nothing is in memory.
THEOREM ModelKeptWhileDecoding == Spec => []DecodersKeepModel
  <1>1. IInv => DecodersKeepModel
    BY Distinct DEF IInv, DecodersKeepModel, MemoryTold, InMemory, FoundKept, EngineOn
  <1> QED
    BY <1>1, Invariance, PTL

\* A filter switched off leaves nothing loaded and nothing loading, because unload_model
\* waits for the load under way.
THEOREM OffMeansFreed == Spec => []DisabledFrees
  <1>1. IInv => DisabledFrees
    BY DEF IInv, DisabledFrees, FreedWhenOff, Freed
  <1> QED
    BY <1>1, Invariance, PTL
==============================================================================
