------------------------------ MODULE LlmScore ------------------------------
(***************************************************************************)
(* Scoring candidates with the language model (llm_filter.cc): the cache   *)
(* of rankings (Collect), the three decoding steps of score_batch, and the *)
(* prepare threads that decode a context ahead of the next score.  They    *)
(* share the model's key-value memory, of NCells cells, and the state      *)
(* prep*, which says whose context sequence 0 of that memory holds.        *)
(*                                                                         *)
(* score_batch holds g_mutex from its first step to its return; phase is   *)
(* where it stands, "free" when the mutex is free.  prepare only tries the *)
(* mutex, so the whole of it is one step.  A decode fails when it does not *)
(* fit the memory; MaxFault times it may fail for another reason, or fill  *)
(* the memory and give no logits.                                          *)
(***************************************************************************)
EXTENDS Naturals

CONSTANTS Ctx,         \* contexts, as token sequences
          NoCtx,       \* nothing decoded, or the warm-up token of load_model_async
          Input,       \* input codes
          CtxLen,      \* tokens of each context, at most max_tokens
          MaxCand,     \* llm_rerank/max_candidates
          NCells,      \* g_n_ctx
          GenModulus,  \* 2^w: g_seq0_gen is a long
          MaxFault, MaxRequest, MaxReset   \* bounds

ASSUME CtxAssumption == NoCtx \notin Ctx /\ CtxLen \in [Ctx -> Nat]
ASSUME NatAssumption ==
  /\ MaxCand \in Nat /\ NCells \in Nat /\ GenModulus \in Nat \ {0}
  /\ MaxFault \in Nat /\ MaxRequest \in Nat /\ MaxReset \in Nat
\* fewer passes without logits than generations: g_seq0_gen does not come round to one of them
ASSUME WidthAssumption == MaxFault < GenModulus
\* "11 seqs x (ctx 10 + cand 2)" would not fit 128 cells were they copied; they are shared
ASSUME CapacityAssumption == \A c \in Ctx : CtxLen[c] + MaxCand + MaxCand <= NCells

VARIABLES
  prepReady, prepCtx, prepLogits, prepGen,   \* g_prep_*; prepLogits: the context they are of
  seq0Gen,                                   \* g_seq0_gen
  seq0,         \* the context in sequence 0 of the memory
  workers,      \* cells that belong to worker sequences only
  phase, round, \* score_batch: where it stands, and its arguments and locals
  cache,        \* s_cache_*; bad: a sentinel score is among the scores
  resetGen,     \* g_context_reset_gen
  prepSeq,      \* g_prep_seq
  jobs,         \* request_prepare and prepare threads; seq = 0: not numbered yet
  requests, faults,                          \* how many so far
  exhausted,    \* history: a decode failed because the memory was full
  ctxLost,      \* history: a full pass cleared sequence 0 and failed to fill it
  scoredGen     \* history: resetGen when the cached ranking's Collect began

prep  == <<prepReady, prepCtx, prepLogits, prepGen, seq0Gen>>
vars  == <<prepReady, prepCtx, prepLogits, prepGen, seq0Gen, seq0, workers, phase, round,
           cache, resetGen, prepSeq, jobs, requests, faults, exhausted, ctxLost, scoredGen>>

Slot == Ctx \cup {NoCtx}
Gen  == 0..(GenModulus - 1)

Job   == [id : 1..MaxRequest, ctx : Ctx, seq : 0..MaxRequest]
Round == [ctx : Ctx, input : Input, m : 0..MaxCand, k : 0..MaxCand, hit : BOOLEAN,
          logits : Slot, bad : BOOLEAN, gen : 0..MaxReset]
Cache == [valid : BOOLEAN, ctx : Slot, input : Input, bad : BOOLEAN, gen : 0..MaxReset]

TypeOK ==
  /\ prepReady \in BOOLEAN /\ prepCtx \in Slot /\ prepLogits \in Slot
  /\ prepGen \in Gen /\ seq0Gen \in Gen
  /\ seq0 \in Slot /\ workers \in Nat
  /\ phase \in {"free", "step1", "step2", "step3", "finish"}
  /\ round \in Round /\ round.k <= round.m
  /\ cache \in Cache
  /\ resetGen \in 0..MaxReset
  /\ prepSeq \in 0..requests /\ requests \in 0..MaxRequest
  /\ jobs \subseteq Job
  /\ faults \in 0..MaxFault
  /\ exhausted \in BOOLEAN /\ ctxLost \in BOOLEAN /\ scoredGen \in 0..MaxReset

Init ==
  /\ prepReady = FALSE /\ prepCtx = NoCtx /\ prepLogits = NoCtx
  /\ prepGen = 0 /\ seq0Gen = 0
  /\ seq0 = NoCtx /\ workers = 0
  /\ phase = "free"
  /\ round \in [ctx : Ctx, input : Input, m : {0}, k : {0}, hit : {FALSE},
                logits : {NoCtx}, bad : {FALSE}, gen : {0}]
  /\ cache \in [valid : {FALSE}, ctx : {NoCtx}, input : Input, bad : {FALSE}, gen : {0}]
  /\ resetGen = 0
  /\ prepSeq = 0 /\ requests = 0 /\ jobs = {} /\ faults = 0
  /\ exhausted = FALSE /\ ctxLost = FALSE /\ scoredGen = 0

------------------------------------------------------------------------------
(* The key-value memory. *)

SeqLen(s) == IF s \in Ctx THEN CtxLen[s] ELSE 0

\* n more cells fit beside what the memory holds
Fits(s, w, n) == SeqLen(s) + w + n <= NCells

\* llama_decode returns an error for a batch of n tokens: there is no room, or a fault
DecodeFails(s, w, n) ==
  \/ ~Fits(s, w, n) /\ exhausted' = TRUE /\ UNCHANGED faults
  \/ faults < MaxFault /\ faults' = faults + 1 /\ UNCHANGED exhausted

DecodeSucceeds(s, w, n) == Fits(s, w, n) /\ UNCHANGED <<exhausted, faults>>

\* the memory is filled, but llama_get_logits_ith has nothing to give
NoLogits(s, w, n) ==
  Fits(s, w, n) /\ faults < MaxFault /\ faults' = faults + 1 /\ UNCHANGED exhausted

NextGen == (seq0Gen + 1) % GenModulus

\* the state after a pass over context c filled sequence 0
FillPrep(c) ==
  /\ seq0Gen' = NextGen
  /\ prepGen' = NextGen
  /\ prepCtx' = c
  /\ prepLogits' = c
  /\ prepReady' = TRUE
  /\ ctxLost' = FALSE

------------------------------------------------------------------------------
(* Collect and score_batch, on the engine thread. *)

\* Collect begins by dropping a cache of an older reset generation
Synced == [cache EXCEPT !.valid = cache.valid /\ cache.gen = resetGen, !.gen = resetGen]

Cached(c, i) == Synced.valid /\ Synced.ctx = c /\ Synced.input = i

\* the cached ranking is replayed
CollectHit(c, i) ==
  /\ phase = "free"
  /\ Cached(c, i)
  /\ cache' = Synced
  /\ UNCHANGED <<prep, seq0, workers, phase, round, resetGen, prepSeq, jobs, requests,
                 faults, exhausted, ctxLost, scoredGen>>

\* fewer than min_tokens tokens of context: nothing is scored or stored
CollectTooShort ==
  /\ phase = "free"
  /\ cache' = Synced
  /\ UNCHANGED <<prep, seq0, workers, phase, round, resetGen, prepSeq, jobs, requests,
                 faults, exhausted, ctxLost, scoredGen>>

\* m of the candidates have a second token, k a third; score_batch takes g_mutex
CollectMiss(c, i, m, k) ==
  /\ phase = "free"
  /\ ~Cached(c, i)
  /\ k <= m
  /\ cache' = Synced
  /\ round' = [ctx |-> c, input |-> i, m |-> m, k |-> k, hit |-> FALSE, logits |-> NoCtx,
               bad |-> FALSE, gen |-> resetGen]
  /\ phase' = "step1"
  /\ UNCHANGED <<prep, seq0, workers, resetGen, prepSeq, jobs, requests, faults,
                 exhausted, ctxLost, scoredGen>>

UsePrep(c) == prepReady /\ c = prepCtx /\ seq0Gen = prepGen

\* Step 1, pre-decode hit
Step1Hit ==
  /\ phase = "step1"
  /\ UsePrep(round.ctx)
  /\ round' = [round EXCEPT !.hit = TRUE, !.logits = prepLogits]
  /\ phase' = "step2"
  /\ UNCHANGED <<prep, seq0, workers, cache, resetGen, prepSeq, jobs, requests, faults,
                 exhausted, ctxLost, scoredGen>>

\* what a full pass that gives no logits leaves of the arguments: nothing more to decode
NothingToScore == [round EXCEPT !.m = 0, !.k = 0, !.bad = TRUE]

\* Step 1, full pass: clear the memory, decode the context.  A pass without logits raises
\* the generation, which outdates the pre-decoded context it has overwritten; a decode that
\* fails does not.
Step1Full ==
  /\ phase = "step1"
  /\ ~UsePrep(round.ctx)
  /\ workers' = 0
  /\ \/ /\ DecodeSucceeds(NoCtx, 0, CtxLen[round.ctx])
        /\ seq0' = round.ctx
        /\ FillPrep(round.ctx)
        /\ round' = [round EXCEPT !.logits = round.ctx]
        /\ phase' = "step2"
     \/ /\ DecodeFails(NoCtx, 0, CtxLen[round.ctx])
        /\ seq0' = NoCtx
        /\ ctxLost' = TRUE
        /\ round' = NothingToScore
        /\ phase' = "finish"
        /\ UNCHANGED prep
     \/ /\ NoLogits(NoCtx, 0, CtxLen[round.ctx])
        /\ seq0' = round.ctx
        /\ seq0Gen' = NextGen
        /\ ctxLost' = FALSE
        /\ round' = NothingToScore
        /\ phase' = "finish"
        /\ UNCHANGED <<prepReady, prepCtx, prepLogits, prepGen>>
  /\ UNCHANGED <<cache, resetGen, prepSeq, jobs, requests, scoredGen>>

\* Steps 2 and 3: decode n tokens on the worker sequences, which share the cells of
\* sequence 0; a failure gives sentinel scores and forgets the pre-decoded context, missing
\* logits give sentinel scores only
Step(n, here, next) ==
  /\ phase = here
  /\ \/ n = 0 /\ UNCHANGED <<workers, prepReady, round, exhausted, faults>>
     \/ /\ n > 0
        /\ DecodeSucceeds(seq0, workers, n)
        /\ workers' = workers + n
        /\ UNCHANGED <<prepReady, round>>
     \/ /\ n > 0
        /\ DecodeFails(seq0, workers, n)
        /\ round' = [round EXCEPT !.bad = TRUE]
        /\ prepReady' = FALSE
        /\ UNCHANGED workers
     \/ /\ n > 0
        /\ NoLogits(seq0, workers, n)
        /\ round' = [round EXCEPT !.bad = TRUE]
        /\ workers' = workers + n
        /\ UNCHANGED prepReady
  /\ phase' = next
  /\ UNCHANGED <<prepCtx, prepLogits, prepGen, seq0Gen, seq0, cache, resetGen, prepSeq,
                 jobs, requests, ctxLost, scoredGen>>

Step2 == Step(round.m, "step2", "step3")
Step3 == Step(round.k, "step3", "finish")

LeftByWorkers_All(m) == workers
LeftByWorkers(m) == IF m > 0 THEN 0 ELSE workers

CacheGen_Now(r) == resetGen
CacheGen(r) == r.gen

\* the cells of the worker sequences are released, the mutex too; Collect stores the
\* ranking, sentinels included
ScoreReturns ==
  /\ phase = "finish"
  /\ phase' = "free"
  /\ workers' = LeftByWorkers(round.m)
  /\ cache' = [valid |-> TRUE, ctx |-> round.ctx, input |-> round.input, bad |-> round.bad,
               gen |-> CacheGen(round)]
  /\ scoredGen' = round.gen
  /\ UNCHANGED <<prep, seq0, round, resetGen, prepSeq, jobs, requests, faults, exhausted,
                 ctxLost>>

------------------------------------------------------------------------------
(* Pre-decoding, on detached threads; resets and reloads. *)

\* request_prepare: the thread that will tokenize is started
RequestPrepare(c) ==
  /\ requests < MaxRequest
  /\ requests' = requests + 1
  /\ jobs' = jobs \cup {[id |-> requests + 1, ctx |-> c, seq |-> 0]}
  /\ UNCHANGED <<prep, seq0, workers, phase, round, cache, resetGen, prepSeq, faults,
                 exhausted, ctxLost, scoredGen>>

NextSeq_Twice == prepSeq + 2
NextSeq == prepSeq + 1

\* tokenized: the request takes its number and starts its prepare thread
NumberRequest(j) ==
  /\ j.seq = 0
  /\ prepSeq' = NextSeq
  /\ jobs' = (jobs \ {j}) \cup {[j EXCEPT !.seq = prepSeq']}
  /\ UNCHANGED <<prep, seq0, workers, phase, round, cache, resetGen, requests, faults,
                 exhausted, ctxLost, scoredGen>>

\* prepare gives up: the mutex is taken, the context is ready, or it is outdated
Superseded(j) ==
  \/ phase # "free"
  \/ prepReady /\ j.ctx = prepCtx
  \/ j.seq # prepSeq

PrepareSkips(j) ==
  /\ j.seq > 0
  /\ Superseded(j)
  /\ jobs' = jobs \ {j}
  /\ UNCHANGED <<prep, seq0, workers, phase, round, cache, resetGen, prepSeq, requests,
                 faults, exhausted, ctxLost, scoredGen>>

MayPrepare_Unlocked(j) == ~(prepReady /\ j.ctx = prepCtx) /\ j.seq = prepSeq
MayPrepare(j) == ~Superseded(j)

ForgetPrep_KeepFlag == UNCHANGED <<prepReady, prepCtx, prepLogits, prepGen, seq0Gen>>
ForgetPrep ==
  /\ prepReady' = FALSE /\ prepCtx' = NoCtx /\ prepLogits' = NoCtx
  /\ UNCHANGED <<prepGen, seq0Gen>>

\* prepare: clear the memory, decode the context; what a failure leaves is not ready
Prepare(j) ==
  /\ j.seq > 0
  /\ MayPrepare(j)
  /\ jobs' = jobs \ {j}
  /\ workers' = 0
  /\ \/ /\ DecodeSucceeds(NoCtx, 0, CtxLen[j.ctx])
        /\ seq0' = j.ctx
        /\ FillPrep(j.ctx)
     \/ /\ DecodeFails(NoCtx, 0, CtxLen[j.ctx])
        /\ seq0' = NoCtx
        /\ ForgetPrep
        /\ UNCHANGED ctxLost
     \/ /\ NoLogits(NoCtx, 0, CtxLen[j.ctx])
        /\ seq0' = j.ctx
        /\ ForgetPrep
        /\ ctxLost' = FALSE
  /\ UNCHANGED <<phase, round, cache, resetGen, prepSeq, requests, scoredGen>>

\* RimeResetContextText.  Weasel's server runs every handler under one mutex, so there it comes
\* between two Collects; here it may come at any time, which is more than that.
ResetContext ==
  /\ resetGen < MaxReset
  /\ resetGen' = resetGen + 1
  /\ UNCHANGED <<prep, seq0, workers, phase, round, cache, prepSeq, jobs, requests, faults,
                 exhausted, ctxLost, scoredGen>>

\* unload_model and the loading of the next model: ModelLifecycle tells how they get there
Reload ==
  /\ phase = "free"
  /\ ForgetPrep
  /\ cache' = [cache EXCEPT !.valid = FALSE]
  /\ seq0' = NoCtx /\ workers' = 0 /\ ctxLost' = FALSE
  /\ UNCHANGED <<phase, round, resetGen, prepSeq, jobs, requests, faults, exhausted,
                 scoredGen>>

Collect ==
  \/ \E c \in Ctx, i \in Input :
       CollectHit(c, i) \/ \E m \in 0..MaxCand, k \in 0..MaxCand : CollectMiss(c, i, m, k)
  \/ CollectTooShort

Score == Step1Hit \/ Step1Full \/ Step2 \/ Step3 \/ ScoreReturns

Next ==
  \/ Collect
  \/ Score
  \/ \E c \in Ctx : RequestPrepare(c)
  \/ \E j \in jobs : NumberRequest(j) \/ PrepareSkips(j) \/ Prepare(j)
  \/ ResetContext
  \/ Reload

Spec == Init /\ [][Next]_vars

------------------------------------------------------------------------------
(* Properties. *)

\* Between scores no cell belongs to a worker sequence: repeated scores of one
\* context, which do not clear the memory, cost nothing in the long run.
WorkersReleased == phase = "free" => workers = 0

\* So no decode ever fails for want of room, the cause of "reranking stops by itself".
NeverExhausted == ~exhausted

\* The pre-decoded state is what it says it is: sequence 0 holds prepCtx and the saved
\* logits are of prepCtx as long as the generation says so, though passes that gave no
\* logits overwrite it - unless a full pass cleared the memory and its decode failed.
PrepMatchesMemory ==
  prepReady /\ seq0Gen = prepGen /\ ~ctxLost => seq0 = prepCtx /\ prepLogits = prepCtx

\* From step 2 on, a score's memory and logits are of the context it was asked for,
\* whatever prepare threads do in the meantime (with the same exception).
ScoredInContext ==
  phase \in {"step2", "step3"} /\ ~ctxLost => seq0 = round.ctx /\ round.logits = round.ctx

\* A ranking that can be replayed was begun in the current reset generation, wherever
\* between its beginning and its replay the resets come.
CacheOfThisGeneration == cache.valid /\ cache.gen = resetGen => scoredGen = resetGen

\* llm_filter.cc:1504 a failed decode is to heal itself, the next score taking the full
\* pass: a ranking with sentinel scores is never replayed.
FailedRankingNotReplayed ==
  \A c \in Ctx, i \in Input : phase = "free" /\ Cached(c, i) => ~cache.bad

\* One more promise of a comment, checked by no run because the code does not keep it
\* either: llm_filter.cc:1410 a hit means that "seq0 was not overwritten since".
HitFindsItsContext == \A c \in Ctx : UsePrep(c) => seq0 = c
==============================================================================
