--------------------------- MODULE LlmScoreProofs ---------------------------
(***************************************************************************)
(* Theorems about LlmScore, for any contexts, candidates, memory size (as  *)
(* long as one score fits it), faults, requests and resets.                *)
(***************************************************************************)
EXTENDS LlmScore, FiniteSets, FiniteSetTheorems, TLAPS

\* The inductive invariant: how many cells the worker sequences hold at each step, and
\* whose context sequence 0, the saved logits and the score under way are of.
WorkersInv ==
  /\ phase \in {"free", "step1", "step2"} => workers = 0
  /\ phase = "step3" => workers <= round.m
  /\ phase = "finish" /\ round.m = 0 => workers = 0

CacheInv == cache.valid => scoredGen = cache.gen

\* Every request is waiting for its number or has had exactly one.
Waiting == {j \in jobs : j.seq = 0}
JobsInv ==
  /\ \A j \in jobs : j.id <= requests
  /\ IsFiniteSet(Waiting) /\ prepSeq + Cardinality(Waiting) = requests

\* The generation of the pre-decoded context is as many behind as there were passes without
\* logits since: behind at all, unless there was none.
GenInv == \E d \in 0..faults : seq0Gen = prepGen + d \/ seq0Gen + GenModulus = prepGen + d

Inv == WorkersInv /\ NeverExhausted /\ PrepMatchesMemory /\ ScoredInContext /\ CacheInv

LEMMA GenStaysInWidth ==
  ASSUME NEW n \in Gen
  PROVE  /\ (n + 1) % GenModulus \in Gen
         /\ (n + 1) % GenModulus = n + 1 \/ ((n + 1) % GenModulus) + GenModulus = n + 1
  BY NatAssumption DEF Gen

\* Whatever context sequence 0 holds, one score's candidates fit beside it.
LEMMA OneScoreFits ==
  ASSUME NEW c \in Ctx, NEW s \in Slot, NEW m \in 0..MaxCand, NEW k \in 0..MaxCand
  PROVE  Fits(s, m, k) /\ Fits(s, 0, m) /\ Fits(NoCtx, 0, CtxLen[c])
  <1>1. \A d \in Ctx : CtxLen[d] \in Nat /\ CtxLen[d] + MaxCand + MaxCand <= NCells
    BY CtxAssumption, CapacityAssumption
  <1>2. SeqLen(NoCtx) = 0
    BY CtxAssumption DEF SeqLen
  <1>3. SeqLen(s) \in Nat /\ SeqLen(s) + MaxCand + MaxCand <= NCells
    <2>1. CASE s \in Ctx
      BY <2>1, <1>1 DEF SeqLen
    <2>2. CASE s = NoCtx
      BY <2>2, <1>1, <1>2, NatAssumption
    <2> QED
      BY <2>1, <2>2 DEF Slot
  <1> QED
    BY <1>1, <1>2, <1>3, NatAssumption DEF Fits

LEMMA InitTypeOK == Init => TypeOK
  <1> SUFFICES ASSUME Init PROVE TypeOK
    OBVIOUS
  <1>1. 0 \in 0..MaxCand /\ 0 \in 0..MaxReset /\ 0 \in 0..MaxRequest /\ 0 \in 0..MaxFault
    BY NatAssumption
  <1>2. NoCtx \in Slot /\ 0 \in Gen
    BY NatAssumption DEF Slot, Gen
  <1>3. round \in Round /\ round.k <= round.m
    <2>1. PICK c \in Ctx, i \in Input :
            round = [ctx |-> c, input |-> i, m |-> 0, k |-> 0, hit |-> FALSE,
                     logits |-> NoCtx, bad |-> FALSE, gen |-> 0]
      BY DEF Init
    <2> QED
      BY <2>1, <1>1, <1>2 DEF Round
  <1>4. cache \in Cache
    <2>1. PICK i \in Input :
            cache = [valid |-> FALSE, ctx |-> NoCtx, input |-> i, bad |-> FALSE, gen |-> 0]
      BY DEF Init
    <2> QED
      BY <2>1, <1>1, <1>2 DEF Cache
  <1>5. /\ prepReady \in BOOLEAN /\ prepCtx \in Slot /\ prepLogits \in Slot
        /\ prepGen \in Gen /\ seq0Gen \in Gen /\ seq0 \in Slot
    BY <1>2 DEF Init
  <1>6. /\ resetGen \in 0..MaxReset /\ prepSeq \in 0..requests /\ requests \in 0..MaxRequest
        /\ jobs \subseteq Job /\ faults \in 0..MaxFault /\ scoredGen \in 0..MaxReset
        /\ workers \in Nat
    BY <1>1 DEF Init
  <1> QED
    BY <1>3, <1>4, <1>5, <1>6 DEF Init, TypeOK

LEMMA InitGenInv == Init => GenInv
  BY DEF Init, GenInv

LEMMA InitInv == Init => Inv
  BY CtxAssumption DEF Init, Inv, WorkersInv, NeverExhausted, PrepMatchesMemory,
                       ScoredInContext, CacheInv

\* A decode that fails or succeeds leaves the fault counter in its range.
LEMMA DecodeTypes ==
  ASSUME TypeOK, NEW s, NEW w, NEW n,
         DecodeFails(s, w, n) \/ DecodeSucceeds(s, w, n) \/ NoLogits(s, w, n)
  PROVE  faults' \in faults..MaxFault /\ faults' \in 0..MaxFault /\ exhausted' \in BOOLEAN
  <1>1. CASE DecodeSucceeds(s, w, n)
    BY <1>1, NatAssumption DEF TypeOK, DecodeSucceeds
  <1>2. CASE ~Fits(s, w, n) /\ exhausted' = TRUE /\ UNCHANGED faults
    BY <1>2, NatAssumption DEF TypeOK
  <1>3. CASE faults < MaxFault /\ faults' = faults + 1 /\ UNCHANGED exhausted
    BY <1>3, NatAssumption DEF TypeOK
  <1> QED
    BY <1>1, <1>2, <1>3 DEF DecodeFails, NoLogits

LEMMA FillPrepTypes ==
  ASSUME TypeOK, NEW c \in Ctx, FillPrep(c)
  PROVE  /\ prepReady' \in BOOLEAN /\ prepCtx' \in Slot /\ prepLogits' \in Slot
         /\ prepGen' \in Gen /\ seq0Gen' \in Gen /\ ctxLost' \in BOOLEAN
  <1>1. NextGen \in Gen
    BY GenStaysInWidth DEF TypeOK, NextGen
  <1> QED
    BY <1>1 DEF FillPrep, Slot

\* A pass that fills the memory and its record makes the two generations equal.
LEMMA FillPrepGen ==
  ASSUME TypeOK, NEW c, FillPrep(c), faults' \in Nat PROVE GenInv'
  <1>1. seq0Gen' = prepGen' /\ prepGen' \in Gen
    BY GenStaysInWidth DEF TypeOK, FillPrep, NextGen
  <1>2. \A n \in Gen : n \in Nat
    BY NatAssumption DEF Gen
  <1>3. \A n \in Nat : n = n + 0
    OBVIOUS
  <1>4. seq0Gen' = prepGen' + 0
    BY <1>1, <1>2, <1>3, Zenon
  <1>5. 0 \in 0..faults'
    OBVIOUS
  <1> QED
    BY <1>4, <1>5, Zenon DEF GenInv

\* A step that touches neither generation leaves them as far apart.
LEMMA GenKept ==
  ASSUME GenInv, faults \in Nat, faults' \in Nat, faults <= faults',
         UNCHANGED <<prepGen, seq0Gen>>
  PROVE  GenInv'
  <1>1. PICK d \in 0..faults : seq0Gen = prepGen + d \/ seq0Gen + GenModulus = prepGen + d
    BY DEF GenInv
  <1>2. d \in 0..faults'
    OBVIOUS
  <1>3. seq0Gen' = prepGen' + d \/ seq0Gen' + GenModulus = prepGen' + d
    BY <1>1
  <1> QED
    BY <1>2, <1>3 DEF GenInv

\* A pass without logits sets them one further apart, and never round to each other again.
LEMMA GenApart ==
  ASSUME TypeOK, GenInv, seq0Gen' = NextGen, prepGen' = prepGen,
         faults < MaxFault, faults' = faults + 1
  PROVE  GenInv' /\ seq0Gen' # prepGen'
  <1>1. PICK d \in 0..faults : seq0Gen = prepGen + d \/ seq0Gen + GenModulus = prepGen + d
    BY DEF GenInv
  <1>2. /\ seq0Gen' \in Gen
        /\ seq0Gen' = seq0Gen + 1 \/ seq0Gen' + GenModulus = seq0Gen + 1
    BY GenStaysInWidth DEF TypeOK, NextGen
  <1>3. /\ seq0Gen \in 0..(GenModulus - 1) /\ prepGen \in 0..(GenModulus - 1)
        /\ seq0Gen' \in 0..(GenModulus - 1) /\ GenModulus \in Nat
        /\ d + 1 \in 0..faults' /\ d + 1 < GenModulus /\ d \in Nat
    BY <1>2, NatAssumption, WidthAssumption DEF TypeOK, Gen
  <1>4. seq0Gen' = prepGen + (d + 1) \/ seq0Gen' + GenModulus = prepGen + (d + 1)
    BY <1>1, <1>2, <1>3
  <1>5. seq0Gen' # prepGen
    BY <1>3, <1>4
  <1>6. seq0Gen' = prepGen' + (d + 1) \/ seq0Gen' + GenModulus = prepGen' + (d + 1)
    BY <1>4
  <1> QED
    BY <1>3, <1>5, <1>6 DEF GenInv

LEMMA SyncedTypes == ASSUME TypeOK PROVE Synced \in Cache
  BY DEF TypeOK, Synced, Cache

LEMMA StepTypes ==
  ASSUME TypeOK, NEW n \in 0..MaxCand, NEW here,
         NEW next \in {"free", "step1", "step2", "step3", "finish"}, Step(n, here, next)
  PROVE  TypeOK'
  <1>1. n \in Nat
    BY NatAssumption
  <1>2. workers' \in Nat /\ prepReady' \in BOOLEAN
    <2>1. workers' = workers \/ workers' = workers + n
      BY DEF Step
    <2>2. prepReady' = prepReady \/ prepReady' = FALSE
      BY DEF Step
    <2>3. workers' \in Nat
      BY <1>1, <2>1 DEF TypeOK
    <2>4. prepReady' \in BOOLEAN
      BY <2>2, Zenon DEF TypeOK
    <2> QED
      BY <2>3, <2>4
  <1>3. round' \in Round /\ round'.k <= round'.m
    BY DEF TypeOK, Step, Round
  <1>4. faults' \in 0..MaxFault /\ exhausted' \in BOOLEAN
    <2>1. CASE UNCHANGED <<exhausted, faults>>
      BY <2>1 DEF TypeOK
    <2>2. \/ UNCHANGED <<exhausted, faults>>
          \/ \/ DecodeSucceeds(seq0, workers, n)
             \/ DecodeFails(seq0, workers, n)
             \/ NoLogits(seq0, workers, n)
      BY DEF Step
    <2> QED
      BY <2>1, <2>2, DecodeTypes
  <1> QED
    BY <1>2, <1>3, <1>4 DEF TypeOK, Step

LEMMA InitJobsInv == Init => JobsInv
  <1> SUFFICES ASSUME Init PROVE JobsInv
    OBVIOUS
  <1>1. Waiting = {}
    BY DEF Init, Waiting
  <1> QED
    BY <1>1, FS_EmptySet DEF Init, JobsInv

LEMMA NextTypeOK == TypeOK /\ JobsInv /\ [Next]_vars => TypeOK'
  <1> SUFFICES ASSUME TypeOK, JobsInv, [Next]_vars PROVE TypeOK'
    OBVIOUS
  <1>1. ASSUME NEW c \in Ctx, NEW i \in Input, CollectHit(c, i) PROVE TypeOK'
    BY <1>1, SyncedTypes DEF TypeOK, CollectHit, prep
  <1>14. CASE CollectTooShort
    BY <1>14, SyncedTypes DEF TypeOK, CollectTooShort, prep
  <1>2. ASSUME NEW c \in Ctx, NEW i \in Input, NEW m \in 0..MaxCand, NEW k \in 0..MaxCand,
               CollectMiss(c, i, m, k)
        PROVE  TypeOK'
    <2>1. round' \in Round /\ round'.k <= round'.m
      <3>1. NoCtx \in Slot /\ resetGen \in 0..MaxReset
        BY DEF Slot, TypeOK
      <3> QED
        BY <1>2, <3>1 DEF CollectMiss, Round
    <2> QED
      BY <1>2, <2>1, SyncedTypes DEF TypeOK, CollectMiss, prep
  <1>3. CASE Step1Hit
    <2>1. round' = [round EXCEPT !.hit = TRUE, !.logits = prepLogits]
      BY <1>3 DEF Step1Hit
    <2>2. round' \in Round
      BY <2>1 DEF TypeOK, Round
    <2>3. round'.k <= round'.m
      BY <2>1 DEF TypeOK, Round
    <2> QED
      BY <1>3, <2>2, <2>3 DEF TypeOK, Step1Hit, prep
  <1>4. CASE Step1Full
    <2>1. round.ctx \in Ctx /\ round.ctx \in Slot /\ NoCtx \in Slot
      BY DEF TypeOK, Round, Slot
    <2>2. CASE /\ DecodeSucceeds(NoCtx, 0, CtxLen[round.ctx])
               /\ seq0' = round.ctx
               /\ FillPrep(round.ctx)
               /\ round' = [round EXCEPT !.logits = round.ctx]
               /\ phase' = "step2"
      <3>1. round' \in Round /\ round'.k <= round'.m
        BY <2>1, <2>2 DEF TypeOK, Round
      <3> QED
        BY <1>4, <2>1, <2>2, <3>1, FillPrepTypes, DecodeTypes DEF TypeOK, Step1Full
    <2>3. NothingToScore \in Round /\ NothingToScore.k <= NothingToScore.m
      <3>1. 0 \in 0..MaxCand
        BY NatAssumption
      <3>2. NothingToScore \in Round
        BY <3>1 DEF TypeOK, Round, NothingToScore
      <3>3. NothingToScore.k = 0 /\ NothingToScore.m = 0
        BY DEF TypeOK, Round, NothingToScore
      <3> QED
        BY <3>2, <3>3
    <2>4. CASE /\ DecodeFails(NoCtx, 0, CtxLen[round.ctx])
               /\ seq0' = NoCtx
               /\ ctxLost' = TRUE
               /\ round' = NothingToScore
               /\ phase' = "finish"
               /\ UNCHANGED prep
      BY <1>4, <2>1, <2>3, <2>4, DecodeTypes DEF TypeOK, Step1Full, prep
    <2>5. CASE /\ NoLogits(NoCtx, 0, CtxLen[round.ctx])
               /\ seq0' = round.ctx
               /\ seq0Gen' = NextGen
               /\ ctxLost' = FALSE
               /\ round' = NothingToScore
               /\ phase' = "finish"
               /\ UNCHANGED <<prepReady, prepCtx, prepLogits, prepGen>>
      <3>1. seq0Gen' \in Gen
        BY <2>5, GenStaysInWidth DEF TypeOK, NextGen
      <3> QED
        BY <1>4, <2>1, <2>3, <2>5, <3>1, DecodeTypes DEF TypeOK, Step1Full
    <2> QED
      BY <1>4, <2>2, <2>4, <2>5 DEF Step1Full
  <1>5. CASE Step2
    BY <1>5, StepTypes DEF Step2, TypeOK, Round
  <1>6. CASE Step3
    BY <1>6, StepTypes DEF Step3, TypeOK, Round
  <1>7. CASE ScoreReturns
    <2>1. cache' \in Cache
      BY <1>7 DEF ScoreReturns, TypeOK, Round, Cache, Slot, CacheGen
    <2>2. scoredGen' \in 0..MaxReset /\ workers' \in Nat
      BY <1>7 DEF ScoreReturns, TypeOK, Round, LeftByWorkers
    <2> QED
      BY <1>7, <2>1, <2>2 DEF ScoreReturns, TypeOK, prep
  <1>8. ASSUME NEW c \in Ctx, RequestPrepare(c) PROVE TypeOK'
    <2>1. requests' \in 0..MaxRequest /\ requests' = requests + 1 /\ prepSeq' \in 0..requests'
      BY <1>8, NatAssumption DEF RequestPrepare, TypeOK
    <2>2. [id |-> requests + 1, ctx |-> c, seq |-> 0] \in Job
      <3>1. requests + 1 \in 1..MaxRequest /\ 0 \in 0..MaxRequest
        BY <1>8, NatAssumption DEF RequestPrepare, TypeOK
      <3> QED
        BY <3>1 DEF Job
    <2> QED
      BY <1>8, <2>1, <2>2 DEF RequestPrepare, TypeOK, prep
  <1>9. ASSUME NEW j \in jobs, NumberRequest(j) PROVE TypeOK'
    <2>1. prepSeq + 1 <= requests
      <3>1. j \in Waiting
        BY <1>9 DEF NumberRequest, Waiting
      <3>2. Cardinality(Waiting) \in Nat /\ Cardinality(Waiting) # 0
        BY <3>1, FS_CardinalityType, FS_EmptySet DEF JobsInv
      <3> QED
        BY <3>2 DEF JobsInv, TypeOK
    <2>2. prepSeq' \in 0..requests /\ prepSeq' \in 0..MaxRequest
      BY <1>9, <2>1, NatAssumption DEF NumberRequest, NextSeq, TypeOK
    <2>3. [j EXCEPT !.seq = prepSeq'] \in Job
      BY <2>2 DEF TypeOK, Job
    <2> QED
      BY <1>9, <2>2, <2>3 DEF NumberRequest, TypeOK, prep
  <1>10. ASSUME NEW j \in jobs, PrepareSkips(j) PROVE TypeOK'
    BY <1>10 DEF PrepareSkips, TypeOK, prep
  <1>11. ASSUME NEW j \in jobs, Prepare(j) PROVE TypeOK'
    <2>1. j.ctx \in Ctx /\ j.ctx \in Slot /\ NoCtx \in Slot
      BY DEF TypeOK, Job, Slot
    <2>2. jobs' \subseteq Job
      BY <1>11 DEF TypeOK, Prepare
    <2>3. CASE /\ DecodeSucceeds(NoCtx, 0, CtxLen[j.ctx])
               /\ seq0' = j.ctx
               /\ FillPrep(j.ctx)
      BY <1>11, <2>1, <2>2, <2>3, FillPrepTypes, DecodeTypes DEF TypeOK, Prepare
    <2>4. CASE /\ DecodeFails(NoCtx, 0, CtxLen[j.ctx])
               /\ seq0' = NoCtx
               /\ ForgetPrep
               /\ UNCHANGED ctxLost
      BY <1>11, <2>1, <2>2, <2>4, DecodeTypes DEF TypeOK, Prepare, ForgetPrep
    <2>5. CASE /\ NoLogits(NoCtx, 0, CtxLen[j.ctx])
               /\ seq0' = j.ctx
               /\ ForgetPrep
               /\ ctxLost' = FALSE
      BY <1>11, <2>1, <2>2, <2>5, DecodeTypes DEF TypeOK, Prepare, ForgetPrep
    <2> QED
      BY <1>11, <2>3, <2>4, <2>5 DEF Prepare
  <1>12. CASE ResetContext
    BY <1>12, NatAssumption DEF ResetContext, TypeOK, prep
  <1>13. CASE UNCHANGED vars
    BY <1>13 DEF TypeOK, vars
  <1>15. CASE Reload
    <2>1. cache' \in Cache
      BY <1>15 DEF Reload, TypeOK, Cache
    <2>2. NoCtx \in Slot
      BY DEF Slot
    <2> QED
      BY <1>15, <2>1, <2>2 DEF Reload, ForgetPrep, TypeOK
  <1> QED
    BY <1>1, <1>2, <1>3, <1>4, <1>5, <1>6, <1>7, <1>8, <1>9, <1>10, <1>11, <1>12, <1>13,
       <1>14, <1>15
    DEF Next, Collect, Score

LEMMA NextJobsInv == TypeOK /\ JobsInv /\ [Next]_vars => JobsInv'
  <1> SUFFICES ASSUME TypeOK, JobsInv, [Next]_vars PROVE JobsInv'
    OBVIOUS
  <1>1. ASSUME NEW c \in Ctx, RequestPrepare(c) PROVE JobsInv'
    <2> DEFINE new == [id |-> requests + 1, ctx |-> c, seq |-> 0]
    <2>1. new \notin jobs /\ jobs' = jobs \cup {new} /\ requests' = requests + 1
      BY <1>1 DEF RequestPrepare, JobsInv, TypeOK
    <2>2. Waiting' = Waiting \cup {new} /\ new \notin Waiting
      BY <2>1 DEF Waiting
    <2>3. IsFiniteSet(Waiting') /\ Cardinality(Waiting') = Cardinality(Waiting) + 1
      BY <2>2, FS_AddElement DEF JobsInv
    <2>4. \A j \in jobs' : j.id <= requests'
      BY <2>1 DEF JobsInv, TypeOK, Job
    <2>5. prepSeq' = prepSeq /\ Cardinality(Waiting) \in Nat
      BY <1>1, FS_CardinalityType DEF RequestPrepare, prep, JobsInv
    <2>6. prepSeq' + Cardinality(Waiting') = requests'
      BY <2>1, <2>3, <2>5 DEF JobsInv, TypeOK
    <2> QED
      BY <2>3, <2>4, <2>6 DEF JobsInv
  <1>2. ASSUME NEW j \in jobs, NumberRequest(j) PROVE JobsInv'
    <2> DEFINE numbered == [j EXCEPT !.seq = prepSeq']
    <2>1. /\ jobs' = (jobs \ {j}) \cup {numbered}
          /\ prepSeq' = prepSeq + 1 /\ requests' = requests
      BY <1>2 DEF NumberRequest, NextSeq
    <2>2. numbered.seq # 0 /\ numbered.id = j.id
      BY <2>1 DEF TypeOK, Job
    <2>3. j \in Waiting /\ Waiting' = Waiting \ {j}
      BY <1>2, <2>1, <2>2 DEF NumberRequest, Waiting
    <2>4. IsFiniteSet(Waiting') /\ Cardinality(Waiting') = Cardinality(Waiting) - 1
      BY <2>3, FS_RemoveElement DEF JobsInv
    <2>5. \A i \in jobs' : i.id <= requests'
      BY <2>1, <2>2 DEF JobsInv
    <2>6. Cardinality(Waiting) \in Nat
      BY FS_CardinalityType DEF JobsInv
    <2>7. prepSeq' + Cardinality(Waiting') = requests'
      BY <2>1, <2>4, <2>6 DEF JobsInv, TypeOK
    <2> QED
      BY <2>4, <2>5, <2>7 DEF JobsInv
  <1>3. ASSUME NEW j \in jobs, PrepareSkips(j) \/ Prepare(j) PROVE JobsInv'
    <2>1. /\ j.seq > 0 /\ jobs' = jobs \ {j}
          /\ prepSeq' = prepSeq /\ requests' = requests
      BY <1>3 DEF PrepareSkips, Prepare, prep
    <2>2. Waiting' = Waiting
      BY <2>1 DEF Waiting
    <2> QED
      BY <2>1, <2>2 DEF JobsInv
  <1>4. ASSUME UNCHANGED <<jobs, prepSeq, requests>> PROVE JobsInv'
    BY <1>4 DEF JobsInv, Waiting
  <1>5. Collect \/ Score \/ ResetContext \/ Reload \/ UNCHANGED vars =>
          UNCHANGED <<jobs, prepSeq, requests>>
    BY DEF Collect, CollectHit, CollectMiss, CollectTooShort, Score, Step1Hit, Step1Full,
           Step2, Step3, Step, ScoreReturns, ResetContext, Reload, vars
  <1> QED
    BY <1>1, <1>2, <1>3, <1>4, <1>5 DEF Next

LEMMA NextGenInv == TypeOK /\ GenInv /\ [Next]_vars => GenInv'
  <1> SUFFICES ASSUME TypeOK, GenInv, [Next]_vars PROVE GenInv'
    OBVIOUS
  <1> USE DEF TypeOK
  <1>1. faults \in 0..MaxFault /\ faults \in Nat
    OBVIOUS
  <1>2. ASSUME NEW s, NEW w, NEW n,
               DecodeFails(s, w, n) \/ DecodeSucceeds(s, w, n) \/ NoLogits(s, w, n)
        PROVE  faults' \in Nat /\ faults <= faults'
    BY <1>2, DecodeTypes, NatAssumption
  <1>3. ASSUME NEW s, NEW w, NEW n, NoLogits(s, w, n), seq0Gen' = NextGen, prepGen' = prepGen
        PROVE  GenInv'
    BY <1>3, GenApart DEF NoLogits
  <1>4. CASE Step1Full
    BY <1>1, <1>2, <1>3, <1>4, FillPrepGen, GenKept DEF Step1Full, prep
  <1>5. ASSUME NEW n, NEW here, NEW next, Step(n, here, next) PROVE GenInv'
    <2>1. UNCHANGED <<prepGen, seq0Gen>>
      BY <1>5 DEF Step
    <2>2. faults' \in Nat /\ faults <= faults'
      BY <1>1, <1>2, <1>5 DEF Step
    <2> QED
      BY <1>1, <2>1, <2>2, GenKept
  <1>6. ASSUME NEW j \in jobs, Prepare(j) PROVE GenInv'
    BY <1>1, <1>2, <1>6, FillPrepGen, GenKept DEF Prepare, ForgetPrep
  <1>7. CASE Reload
    BY <1>1, <1>7, GenKept DEF Reload, ForgetPrep
  <1>8. \/ Collect \/ Step1Hit \/ ScoreReturns \/ ResetContext
        \/ \E c \in Ctx : RequestPrepare(c)
        \/ \E j \in jobs : NumberRequest(j) \/ PrepareSkips(j)
        \/ UNCHANGED vars
        => UNCHANGED <<prepGen, seq0Gen, faults>>
    BY DEF Collect, CollectHit, CollectMiss, CollectTooShort, Step1Hit, ScoreReturns,
           ResetContext, RequestPrepare, NumberRequest, PrepareSkips, vars, prep
  <1>9. UNCHANGED <<prepGen, seq0Gen, faults>> => GenInv'
    BY <1>1, GenKept
  <1> QED
    BY <1>4, <1>5, <1>6, <1>7, <1>8, <1>9 DEF Next, Score, Step2, Step3

LEMMA NextInv == TypeOK /\ GenInv /\ Inv /\ [Next]_vars => Inv'
  <1> SUFFICES ASSUME TypeOK, GenInv, Inv, [Next]_vars PROVE Inv'
    OBVIOUS
  <1> USE DEF Inv
  <1>1. CASE Collect
    <2>1. /\ phase = "free" /\ (phase' = "free" \/ phase' = "step1") /\ cache' = Synced
          /\ UNCHANGED <<prep, seq0, workers, exhausted, ctxLost, scoredGen>>
      BY <1>1 DEF Collect, CollectHit, CollectMiss, CollectTooShort
    <2>2. WorkersInv' /\ ScoredInContext'
      BY <2>1 DEF WorkersInv, ScoredInContext
    <2>3. NeverExhausted' /\ PrepMatchesMemory'
      BY <2>1 DEF NeverExhausted, PrepMatchesMemory, prep
    <2>4. CacheInv'
      BY <2>1 DEF CacheInv, Synced, TypeOK, Cache
    <2> QED
      BY <2>2, <2>3, <2>4
  <1>2. CASE Step1Hit
    <2>1. /\ phase = "step1" /\ phase' = "step2"
          /\ round'.ctx = round.ctx /\ round'.logits = prepLogits
          /\ prepReady /\ round.ctx = prepCtx /\ seq0Gen = prepGen
      BY <1>2 DEF Step1Hit, UsePrep, TypeOK, Round
    <2>2. WorkersInv' /\ NeverExhausted' /\ PrepMatchesMemory' /\ CacheInv'
      BY <1>2, <2>1 DEF Step1Hit, WorkersInv, NeverExhausted, PrepMatchesMemory, CacheInv, prep
    <2>3. ScoredInContext'
      BY <1>2, <2>1 DEF Step1Hit, ScoredInContext, PrepMatchesMemory
    <2> QED
      BY <2>2, <2>3
  <1>3. CASE Step1Full
    <2>1. Fits(NoCtx, 0, CtxLen[round.ctx])
      BY OneScoreFits, NatAssumption DEF TypeOK, Round, Slot
    <2>2. exhausted' = exhausted
      BY <1>3, <2>1 DEF Step1Full, DecodeFails, DecodeSucceeds, NoLogits
    <2>3. WorkersInv'
      BY <1>3 DEF Step1Full, WorkersInv
    <2>4. PrepMatchesMemory' /\ CacheInv'
      <3>1. NoLogits(NoCtx, 0, CtxLen[round.ctx]) /\ seq0Gen' = NextGen /\ prepGen' = prepGen
              => seq0Gen' # prepGen'
        BY GenApart DEF NoLogits
      <3> QED
        BY <1>3, <3>1 DEF Step1Full, FillPrep, PrepMatchesMemory, CacheInv
    <2>5. ScoredInContext'
      BY <1>3 DEF Step1Full, ScoredInContext, TypeOK, Round
    <2> QED
      BY <2>2, <2>3, <2>4, <2>5 DEF NeverExhausted
  <1>4. CASE Step2
    <2>1. round.m \in 0..MaxCand /\ round.m \in Nat /\ round.ctx \in Ctx /\ seq0 \in Slot
      BY NatAssumption DEF TypeOK, Round
    <2>2. phase = "step2" /\ workers = 0 /\ phase' = "step3"
      BY <1>4 DEF Step2, Step, WorkersInv
    <2>3. Fits(seq0, workers, round.m)
      BY <2>1, <2>2, OneScoreFits
    <2>4. exhausted' = exhausted
      BY <1>4, <2>3 DEF Step2, Step, DecodeFails, DecodeSucceeds, NoLogits
    <2>5. round'.m = round.m /\ round'.ctx = round.ctx /\ round'.logits = round.logits
      BY <1>4 DEF Step2, Step, TypeOK, Round
    <2>6. WorkersInv'
      BY <1>4, <2>1, <2>2, <2>5 DEF Step2, Step, WorkersInv
    <2>7. prepReady' => prepReady
      BY <1>4 DEF Step2, Step
    <2>8. PrepMatchesMemory' /\ ScoredInContext' /\ CacheInv'
      BY <1>4, <2>2, <2>5, <2>7
      DEF Step2, Step, PrepMatchesMemory, ScoredInContext, CacheInv
    <2> QED
      BY <2>4, <2>6, <2>8 DEF NeverExhausted
  <1>5. CASE Step3
    <2>1. /\ round.k \in 0..MaxCand /\ round.m \in 0..MaxCand /\ round.k <= round.m
          /\ round.ctx \in Ctx /\ seq0 \in Slot /\ workers \in Nat
      BY DEF TypeOK, Round
    <2>2. phase = "step3" /\ workers <= round.m /\ phase' = "finish"
      BY <1>5 DEF Step3, Step, WorkersInv
    <2>3. Fits(seq0, workers, round.k)
      <3>1. workers \in 0..MaxCand
        BY <2>1, <2>2, NatAssumption
      <3> QED
        BY <2>1, <3>1, OneScoreFits
    <2>4. exhausted' = exhausted
      BY <1>5, <2>3 DEF Step3, Step, DecodeFails, DecodeSucceeds, NoLogits
    <2>5. round'.m = round.m
      BY <1>5 DEF Step3, Step, TypeOK, Round
    <2>6. WorkersInv'
      <3>1. round.m = 0 => workers = 0 /\ ~(round.k > 0)
        BY <2>1, <2>2
      <3>2. round.m = 0 => workers' = 0
        BY <1>5, <3>1 DEF Step3, Step
      <3> QED
        BY <2>2, <2>5, <3>2 DEF WorkersInv
    <2>7. prepReady' => prepReady
      BY <1>5 DEF Step3, Step
    <2>8. PrepMatchesMemory' /\ ScoredInContext' /\ CacheInv'
      BY <1>5, <2>2, <2>7 DEF Step3, Step, PrepMatchesMemory, ScoredInContext, CacheInv
    <2> QED
      BY <2>4, <2>6, <2>8 DEF NeverExhausted
  <1>6. CASE ScoreReturns
    <2>1. phase = "finish" /\ phase' = "free" /\ round.m \in Nat
      BY <1>6, NatAssumption DEF ScoreReturns, TypeOK, Round
    <2>2. workers' = 0
      BY <1>6, <2>1 DEF ScoreReturns, LeftByWorkers, WorkersInv
    <2>3. CacheInv'
      BY <1>6 DEF ScoreReturns, CacheInv, CacheGen
    <2> QED
      BY <1>6, <2>1, <2>2, <2>3
      DEF ScoreReturns, WorkersInv, NeverExhausted, PrepMatchesMemory, ScoredInContext, prep
  <1>7. ASSUME NEW j \in jobs, Prepare(j) PROVE Inv'
    <2>1. phase = "free" /\ phase' = "free" /\ workers' = 0 /\ j.ctx \in Ctx
      BY <1>7 DEF Prepare, MayPrepare, Superseded, TypeOK, Job
    <2>2. Fits(NoCtx, 0, CtxLen[j.ctx])
      BY <2>1, OneScoreFits, NatAssumption DEF Slot
    <2>3. exhausted' = exhausted
      BY <1>7, <2>2 DEF Prepare, DecodeFails, DecodeSucceeds, NoLogits
    <2>4. PrepMatchesMemory'
      BY <1>7 DEF Prepare, FillPrep, ForgetPrep, PrepMatchesMemory
    <2>5. CacheInv'
      BY <1>7 DEF Prepare, CacheInv
    <2> QED
      BY <2>1, <2>3, <2>4, <2>5 DEF WorkersInv, NeverExhausted, ScoredInContext
  <1>8. ASSUME UNCHANGED <<prep, seq0, workers, phase, round, cache, exhausted, ctxLost,
                           scoredGen>>
        PROVE  Inv'
    BY <1>8 DEF WorkersInv, NeverExhausted, PrepMatchesMemory, ScoredInContext, CacheInv, prep
  <1>9. ASSUME \/ \E c \in Ctx : RequestPrepare(c)
               \/ \E j \in jobs : NumberRequest(j) \/ PrepareSkips(j)
               \/ ResetContext
               \/ UNCHANGED vars
        PROVE  UNCHANGED <<prep, seq0, workers, phase, round, cache, exhausted, ctxLost,
                           scoredGen>>
    BY <1>9 DEF RequestPrepare, NumberRequest, PrepareSkips, ResetContext, vars, prep
  <1>10. CASE Reload
    <2>1. phase' = "free" /\ workers' = 0 /\ ~prepReady' /\ ~cache'.valid
      BY <1>10 DEF Reload, ForgetPrep, TypeOK, Cache
    <2> QED
      BY <1>10, <2>1
      DEF Reload, WorkersInv, NeverExhausted, PrepMatchesMemory, ScoredInContext, CacheInv
  <1> QED
    BY <1>1, <1>2, <1>3, <1>4, <1>5, <1>6, <1>7, <1>8, <1>9, <1>10 DEF Next, Score

LEMMA Invariance == Spec => [](TypeOK /\ JobsInv /\ GenInv /\ Inv)
  <1>1. Init => TypeOK /\ JobsInv /\ GenInv /\ Inv
    BY InitTypeOK, InitJobsInv, InitGenInv, InitInv
  <1>2. TypeOK /\ JobsInv /\ GenInv /\ Inv /\ [Next]_vars
          => (TypeOK /\ JobsInv /\ GenInv /\ Inv)'
    BY NextTypeOK, NextJobsInv, NextGenInv, NextInv
  <1> QED
    BY <1>1, <1>2, PTL DEF Spec

\* Every variable keeps its type; the numbers of prepare requests stay within the
\* requests made, so that a later request always outdates an earlier one.
THEOREM TypeCorrect == Spec => []TypeOK
  BY Invariance, PTL

\* Between scores no memory cell belongs to a worker sequence.
THEOREM WorkersAreReleased == Spec => []WorkersReleased
  <1>1. Inv => WorkersReleased
    BY DEF Inv, WorkersInv, WorkersReleased
  <1> QED
    BY <1>1, Invariance, PTL

\* No decode ever fails for want of room, as long as one score fits the memory.
THEOREM MemoryNeverFull == Spec => []NeverExhausted
  <1>1. Inv => NeverExhausted
    BY DEF Inv
  <1> QED
    BY <1>1, Invariance, PTL

\* A ready pre-decoded context of the memory's generation is the one sequence 0 holds, short
\* of a full pass whose decode failed.
THEOREM PrepIsWhatMemoryHolds == Spec => []PrepMatchesMemory
  <1>1. Inv => PrepMatchesMemory
    BY DEF Inv
  <1> QED
    BY <1>1, Invariance, PTL

\* No prepare thread changes the memory under a score.
THEOREM ScoresSeeTheirContext == Spec => []ScoredInContext
  <1>1. Inv => ScoredInContext
    BY DEF Inv
  <1> QED
    BY <1>1, Invariance, PTL

\* A ranking begun before a reset is never replayed after it.
THEOREM ReplayIsOfThisGeneration == Spec => []CacheOfThisGeneration
  <1>1. Inv => CacheOfThisGeneration
    BY DEF Inv, CacheInv, CacheOfThisGeneration
  <1> QED
    BY <1>1, Invariance, PTL
=============================================================================
