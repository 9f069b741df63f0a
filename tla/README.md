# rime-llm-ime in TLA+

rime-llm-ime is a Windows input method: Weasel (a TSF text service in every application and one
server process) around librime (the engine), with one addition of its own: candidates are ranked
by a small language model that is given the text before the caret. This directory models the parts
where that addition meets threads, messages and failures, and the parts it stands on: the sessions
of the server, the engine's context, and the user dictionary that all engines share. It checks the
models with TLC on small instances, and proves the main invariants with TLAPS for all values of the
constants.

Sources are quoted from the root of the repository; `llm_filter.cc` is
`src/librime/src/rime/gear/llm_filter.cc`, `WeaselTSF.cpp` is `src/weasel/WeaselTSF/WeaselTSF.cpp`.
`PROJECT.json` maps every definition that models code to the lines it models.

## 1. Inventory

### How a ranking comes about

    application --TSF--> text service (a DLL in the application)        one process per application
                           collects the text before the caret, debounces it,
                           sends it from a flush thread; sends a reset for an
                           edit key or a window switch from one thread each
                              | named pipe: SetContextText, ResetContext, keys
                              v
                         server: one pipe thread per client, all calls under g_api_mutex
                              | rime API
                              v
                         librime: context-text store --> LlmFilter (on the calling thread)
                              source selection: delivered text / COM text / commit history
                              ranking cache -> score_batch (three decodes) -> order
                              commit -> history, user frequencies, a prepare thread
                         beside it: a COM thread that reads WPS documents,
                                    a thread that loads the model,
                                    prepare threads that decode a context ahead

### Components

| component | state it keeps | operations | what is hard | correct when | module |
|---|---|---|---|---|---|
| caret-text debouncer (TSF) | `m_ctx_pending`, `m_ctx_last_sent`, `m_ctx_flush_running`, the age of the queue, two flags, a sequence number | a text is collected, an edit key, a focus switch, the flush thread's loop | texts, resets and the flush thread race; the mutex is left while sending; waiting by time and by news | one flush thread; no text is left behind; texts arrive in order, at most once, and eventually | ContextDebounce, ContextDelivery, ContextChannel |
| context-text store (server) | `g_context_text`, validity, time, reset generation, reset hook | set, reset, read | resets and texts come on different threads | it holds the newest text that was sent | ContextDebounce, ContextSource, LlmScore |
| context source selection | commit history, restricted-window mark, generations seen, COM snapshot | commit, look, choose; COM read and publish | three consumers of one generation; polled clicks; a thread that reads for a while | no ranking rests on words or a document from before a reset or a click | ContextSource |
| scoring and pre-decoding | the model's key-value memory, `g_prep_*`, `s_cache_*` | Collect, score_batch, request_prepare, prepare | prepare threads and scores share the memory; every decode may fail, or fill the memory and give no logits | the memory never fills up; a score decodes in its own context; no ranking outlives a reset | LlmScore |
| model life cycle | `g_model`, `g_vocab`, `g_ctx`, `g_loaded`, `g_loading`, `g_loaded_from` | construct a filter, load, unload | loading is asynchronous and only partly locked | one load at a time; nobody decodes with a freed model; switching off frees; the engine thread comes back | ModelLifecycle |
| user word frequency | `g_user_freq`, `g_user_tick`, the dirty count, `user_freq.tsv` | load, count a commit, save | the process may end at any time, in a save too; a cut file is read as if whole | a restart loses only what was not saved; no word is younger than the clock | UserFreq |
| candidate ranking | none | scores, frequencies and word lengths give an order | duplicate texts, candidates without a score | the order is a permutation | planned |
| IPC pipe and server | pipe handle per thread, message buffers, the mutex of the handlers | connect, transact, retry, dispatch | reconnection in the middle of a call; the server ends between two messages | every message is one step of one handler, or lost | WeaselSession; ContextDebounce for the two context messages |
| RimeWithWeasel handler | table of sessions, the active one, maintenance mode | add, find, remove a session; start and end maintenance; initialize | numbers start again when the table is cleared; a deployment, the tray and the end of a process come between any two messages | every client types into its own session; a deployment has the dictionaries to itself; who types on is served | WeaselSession |
| TSF keys, composition, candidate list | a pending test key, the composition | key down/up, test key, start and end composition | test and real callbacks are unpaired in some applications | every key is processed once | only the connection a key needs, in WeaselSession |
| engine core | the input, the caret, segments with their candidates and choices | type, delete, move, select, confirm, take back, commit | each key cuts and translates the input again and keeps what it can | segments tile the input, nothing typed is lost or doubled, choices survive typing on, taking back restores | Segmentation, EngineCore |
| deployment | work queue, maintenance thread | start, run, join | a thread and its joiner | maintenance ends | planned |
| configuration | resources, dependencies | compile, resolve, patch | cycles and priorities of dependencies | every dependency resolved once or reported | planned |
| user dictionary | LevelDB with one batch and one `in_transaction_`, a tick and a transaction time per engine | load, query, learn, delete, take back, leave, recover | all engines share the batch, each has a clock of its own; the database may not open, be repaired, be lost with the process | it is one dictionary with at most one tentative commit; a BackSpace takes back nothing old | UserDict, LearnedWords |
| compiled dictionaries | tables, prisms, reverse tables | build, look up | - | - | not modelled: binary formats |
| processors, segmentors, translators | key state | process a key | long key sequences | modes return | speller, selector, navigator, editors in EngineCore; the translators' memory in UserDict; punctuation, chords and key bindings planned |
| algorithms | none | syllabify, spell, encode | boundaries | agree with a reference | planned |
| tray, service, deployer programs | the deployer's mutex | lock, tell, work, resume | it may end at any step | see the handler | WeaselSession for the mutex and the two messages |
| settings tool, candidate window, setup, scripts | dialogs, drawings, registry | - | - | - | not modelled: pure user interface and file operations |

### The hazards

`PROJECT.json` lists each with its line. In short: the flush thread's exit against a text accepted
at that moment; a text sent outside the mutex while a newer one arrives; a reset and a text on two
threads; the debouncing clock restarted or not; memory cells of worker sequences; a prepare thread
under a score; a decode that fails in the middle of a score; two loads at once; unloading under a decode; a process that ends while a file is rewritten;
a generation consumed in three places; a document read while it is invalidated; a session's number
that means another session after a deployment; a server that starts while the deployer works; a
server that nothing takes out of maintenance; a segment kept one letter too long over an edited
input; a choice taken back after an edit; a commit put together from converted and raw parts; a
transaction that belongs to whoever comes next; a clock copied and written back; a database that
closes over a commit; a write that fails while the transaction ends.

Three details of the ranking's timing are not in that list, because no state of the models tells
right from wrong there: prepare requests are numbered by racing threads (llm_filter.cc:1608), a
text delivered before the last commit is trusted for 5 s (:2273), an empty text is transient for
1.5 s (:2374). `ContextSource` and `LlmScore` have these steps; their properties hold whatever the
outcome.

## 2. The modules

A definition named `X_Fault`, beside a definition `X`, is `X` with a plausible bug; no specification
uses it. Each property of a passing run is violated when one of them takes the place of its `X`.

### ContextDebounce, ContextDelivery, ContextChannel: the caret text on its way

`ContextDebounce` has one variable for each member of `WeaselTSF` that the debouncer uses, for the
locals of the flush threads, for the messages under way, and for the server's store. A step is one
critical section of `m_ctx_debounce_mutex`, one message handled, or one tick.

| action | code |
|---|---|
| `CollectOnEdit`, `CollectOnCommit`, `CollectAfterEditKey` | `_OnContextTextReady`, called from OnEndEdit, the end of a composition, and the timer of an edit key |
| `RecollectDenied` | that timer when the application denies the edit session |
| `EditKey`, `FocusSwitch` | `_HandleEditKeyReset`, `OnSetFocus`: a detached ResetContext thread and `_OnContextReset` |
| `FlushCheck`, `FlushWake`, `FlushDone` | the three critical sections of the flush loop |
| `ServerSet`, `ServerReset` | the messages, handled |
| `SetFails`, `ResetFails` | the messages, lost: SendContextText and SendContextReset swallow what the pipe throws (WeaselClientImpl.cpp:125, :150), so the sender goes on as if they had arrived |
| `Tick` | GetTickCount64 |

What the application answers is arbitrary: any text may be collected at any time.

`ContextDelivery` adds history: the number of each accepted text, which number each thread took,
which one was delivered. `ContextChannel` is the abstract specification: texts are numbered as they
are accepted, and those delivered carry growing numbers. `AcceptedInOrder == Channel!Spec` is the
refinement, checked by TLC and proved.

### ContextSource: which text a ranking is based on

| action | code |
|---|---|
| `Commit` | OnCommit: generation compared, word appended, history trimmed to 64 bytes |
| `Start` | Apply of an input that is not ranked: `ensure_started` |
| `Look` | GetContextTextPair up to the choice: click polled, a caret moved, generation compared |
| `Choose` | the rest of it, with CommitHistoryText |
| `Deliver`, `Reset` | RimeSetContextText, RimeResetContextText with the reset hook |
| `ComRead`, `ComPublish` | a round of the COM thread, in two steps |
| `Click`, `Switch`, `Tick` | GetAsyncKeyState, GetForegroundWindow, the clocks |

`Look` and `Choose` are two steps because the COM thread, the mouse and the windows may act in
between; what g_api_mutex serialises may not. A text is a sequence of words; of a COM text only its
window, its title and the number of signals it has seen are kept. `LastWords`, `Lagging`, `Stale`
and `TailConsistent` are the pure judgements of `ctx_logic`, with the 64 and 8 bytes counted in
words. `kick` and the COM thread's delays are left out: it may read at any time, so every timing
they can produce is covered. Ages are three classes (below 1.5 s, below 5 s, older).

### LlmScore: scores, pre-decoded contexts, the cache

The key-value memory is: whose context sequence 0 holds, and how many cells belong to worker
sequences only. `CollectHit`, `CollectTooShort`, `CollectMiss`, `Step1Hit`, `Step1Full`, `Step2`,
`Step3`, `ScoreReturns` are Collect and score_batch, which holds g_mutex for all its steps.
`Reload` is what unload_model and the next load do to all this. `RequestPrepare`, `NumberRequest`,
`PrepareSkips`, `Prepare` are the detached threads: `prepare` only tries the mutex, so the whole of
it is one step. `ResetContext` is the reset generation raised. In the server both it and Collect run
under g_api_mutex, so a reset comes between two Collects; the model also lets it come while a score
is under way, which is more than that server does, and CacheOfThisGeneration holds even so.

Every decode fails when it does not fit, and a few times without a reason; or it fills the memory and
llama_get_logits_ith has nothing to give (`NoLogits`). A full pass treats the two apart: one without
logits raises `g_seq0_gen` (llm_filter.cc:1432), which outdates the pre-decoded context it has
overwritten, one that fails does not. So PrepMatchesMemory speaks of a context whose generation is
the memory's, which is what a score asks before it uses it (`UsePrep`).

### ModelLifecycle: loading and unloading

`Deploy`, `Compare`, `Unload`, `ReadLoaded`, `ReadLoading` are the filter's constructor with
load_model_async and unload_model: the two reads of `if (g_loaded || g_loading)` are two steps.
`LoadFile`, `MakeContext`, `WarmUp`, `Publish` and their failures are the loading thread, which is
locked for its warm-up only; a context that cannot be made leaves `g_vocab` pointing into the freed
model, and an `Unload` that then finds nothing in use (`InUse`) leaves it so. `ScoreBegins`, `ScoreEnds`, `PrepareRequested`, `Tokenize`,
`PrepareLocks`, `PrepareEnds` are those who use the model.

### UserFreq: the frequency file

`Load`, `Commit`, `Crash`, `CrashWhileSaving`. The file is modelled as what reading gives: full
lines, and lines that are read as of the old two-field format. A save that is cut short leaves any
prefix, with its last number cut too (`Cut`: 12 may be read as 12 or 1).

### WeaselSession: who types into which session

The server's handlers all run under one mutex (WeaselServerImpl.cpp:180), so a handler is one step.
What comes between two messages is what the module is about.

| action | code |
|---|---|
| `KeyDown`, `EndSession`, `StartSession`, `Check`, `ProcessKey` | `_EnsureServerConnected` and the key after it: echo, EndSession and StartSession of a number that is not found, echo again, the key |
| `Call`, `Point` | the other calls by number: those that a disabled server ignores and that make the session the active one, and those that point at a candidate or a page; HighlightCandidateOnCurrentPage and ChangePage look the number up without asking whether the server is disabled |
| `FocusOut`, `Deactivate`, `AppEnds` | the end of the focus, of the text service, of the application |
| `TrayOption` | an option set from the tray for the active session |
| `ServerStarts`, `ServerEnds`, `Edit` | the process, and a configuration newer than what is compiled |
| `Lock`, `Tell`, `Unlock`, `Resume`, `Quit` | the deployer: its mutex, StartMaintenance, the work, the mutex closed, EndMaintenance; it may end anywhere |

`AddSession`, `RemoveSession`, `FindSession`, `StartMaintenance`, `EndMaintenance` and `Initialize`
are the functions of RimeWithWeasel.cpp. Two habits of the code are kept because properties depend
on them: looking a number up enters it into the table (`Looked`), and numbers start again at the
process number when the table is cleared (`NewId`). librime's sessions are addresses, used again.

### Segmentation, EngineCore: the composition under the keys

`Segmentation` has the operations on segments and the rounds of the two segmentors every schema ends
with. `EngineCore` has the methods of Context as operators on a record, `Compose` (which every
update calls), and one action per key: `SpellKey`, `CharKey`, `EditorKey` (confirm, commit, toggle,
commit raw or script text, revert, back, delete, cancel), `Move`, `SelectKey`, `HighlightKey`,
`OptionUpdate`, `SwitchCommitText`, and the session's `CommitCall`, `ClearCall`, `ApplySchema`.
Automatic selection is modelled with its splitting of the input at an earlier match.

What translators answer is an operator, `Lengths`: how much of a text each of its candidates
converts. A candidate's text is named by the code it converts, so "what was typed" and "what is
shown or sent" can be compared. `misfit` records the three ways in which the code shows candidates
of another text; the properties speak of the compositions before that:

- `edited`: a choice is reopened although the input was edited since (the finding below);
- `recut`: a choice is reopened after its segment was cut shorter than its candidates' text;
- `reused`: the speller takes the previous match for a letter typed in the middle (speller.cc:199).

### UserDict, LearnedWords: what is learned, and taken back

| action | code |
|---|---|
| `Type`, `Escape` | a translator's query (which finishes the transaction; only a script translator's reads the clock), and the end of a composition |
| `OnCommit`, `OnDeleteEntry`, `UnhandledKey`, `BackSpace` | the handlers of memory.cc |
| `Load`, `LoadFails`, `Leave` | `UserDictionary::Load` with its failure, the destructor with the last one closing the database |
| `Recover` | the recovery task's end: a repair that lost some entries (`Repaired`), or a snapshot of any age (`Snapshots`) |
| `DiskTurns`, `Crash`, `Elapse` | the disk takes no writes, or takes them again; the end of the process; time |

Every engine has its own `tick` and `age` (transaction_time_); the database, its batch and
`inTx` are shared by all of them. `LearnedWords` is the abstract specification: a count for each
word, and at most one tentative commit that is kept or forgotten as a whole.
`OneDictionary == Learned!Spec` is the refinement (kept <- store, open <- inTx, tentative <- batch),
checked by TLC and proved. A transaction ends and its batch is cleared whether or not the batch was
written (level_db.cc:319), so with a disk that takes nothing (`refusing`) a commit is lost as a whole;
the abstraction allows exactly that. `Adds` is what the code does to a word updated twice in one commit: every
update reads the database and not the batch (level_db.cc:60), so the last one decides.

## 3. What the runs check

| run | states | properties | shows |
|---|---|---|---|
| delivery_safety | 337 711 | TypeOK, OneFlusher, NoOrphanedPending, RestingServerHoldsPending, AcceptedInOrder | one flush thread; the text left when it exits was sent; texts arrive in the order of acceptance, each at most once |
| debounce_live | 270 618 | SendProgress, AcceptedReachesServer | a storm cannot postpone sending; a pending text that is not replaced arrives |
| context_safety | 3 376 112 | TypeOK, HistoryIsKept, HistoryFromHere, DocumentFromNow | the history is what resets would have left had they cleared it at once; rankings rest on nothing older than the signals the engine thread could see |
| score_safety | 1 283 526 | TypeOK, WorkersReleased, NeverExhausted, PrepMatchesMemory, ScoredInContext, CacheOfThisGeneration | cells are released, scores see their own context, rankings do not outlive resets |
| lifecycle_all | 7 082 | TypeOK, OneLoader, DecodersKeepModel, DisabledFrees, EngineReturns, EnabledLoads | one load; no decode with a freed model; off means freed; the engine thread comes back; a filter switched on gets its model |
| userfreq_safety | 615 554 | TypeOK, NoWordFromTheFuture, OnlyUnsavedLost | restarts lose at most what was not saved, each only once |
| engine_safety | 46 944 | Tiled (with TypeOK), ShownIsTyped, CommittedInFull, UndoRestores, TypingConserves, ChoicesKept | segments tile the input; what is shown and sent is what was typed; a choice taken back leaves what was; typing on and moving keep the choices before the caret |
| session_all | 311 261 | OwnSession, ListedIsLive, MaintenanceExcludes, Served | every client's number leads to the session made for it; the table is what librime has; a deployment that told the server is alone; who types on is served |
| userdict_safety | 555 066 | OneDictionary, RevertIsRecent, QuietStepsKeepAll, ClockGoesForward | all engines together are one dictionary; no old commit is taken back; coming, going and typing lose nothing as long as the disk takes writes; only a typist who is behind turns the clock back |

Three more runs each check one promise of a comment that the code does not keep; TLC finds it
violated, and `PROJECT.json` describes each finding:

| run | promise | what happens |
|---|---|---|
| debounce_RestingServerHoldsCaretText | WeaselTSF.h:189, WeaselTSF.cpp:547: the latest text is sent | x sent, y pending, x collected again: the early return keeps y pending, and y is what the server is left with |
| userfreq_CrashLosesAtMostUnsaved | llm_filter.cc:828: a crash loses 19 commits at most | a crash while the truncated file is rewritten loses the rest of it |
| engine_NoReopenAfterEditing | context.cc:231: "do not reopen the previous selection after editing input" | only the last choice is marked as edited; taking back two choices reopens the one before it |

The modules state further promises that TLC refutes on the same instances. No listed run is spent on
them. The first four have a .cfg of their own, named `<module>_<definition>.cfg`; for the others put
the name as INVARIANT (or PROPERTY, for `EditResetMarksPending`, `ImmediateBelongsToPending`,
`AtMostOnePerDelay`, `EmptyIsHeld` and `ForgetsOwnCommit`) in a copy of the component's safety .cfg.

| definition | promise | what happens |
|---|---|---|
| NoTextFromBeforeReset | ThreadMgrEventSink.cpp:18: the reset keeps the old window's text away from the new one | a pending text survives `_OnContextReset` and is delivered after the reset |
| RereadIsUsed | llm_filter.cc:746-749: re-reading at the reset gives the first word a context | the first look sees the same generation and throws the fresh reading away |
| FailedRankingNotReplayed | llm_filter.cc:1504: a failed decode heals itself | sentinel scores are stored in the cache and replayed |
| LoadedFromTellsModel | llm_filter.cc:106: `g_loaded_from` is the path of the loaded model | the path is read again when the load ends |
| ForgetsOwnCommit | memory.cc:156: "forget about last commit" | one transaction for all engines: a BackSpace in one application, soon after a commit there, drops the commit made in another one since |
| ResetForcesResend | WeaselTSF.cpp:446: after a reset an equal text is sent again | the flush thread writes `m_ctx_last_sent` over the reset that came while it was sending (:540) |
| LastSentReachedServer | WeaselTSF.h:190: the text already sent | SendContextText swallows what the pipe throws (WeaselClientImpl.cpp:125) and the text counts as sent (:540) |
| EditResetMarksPending | WeaselTSF.cpp:518: an edit key's empty text waits 50 ms | EditResetCollectProc leaves the third argument at its default (:461), so the flag is never set |
| ImmediateBelongsToPending | WeaselTSF.cpp:547: the mark belongs to the pending text | the flag is sticky: an ordinary text after an immediate one is sent at once (:493) |
| AtMostOnePerDelay | WeaselTSF.cpp:476: one message per 100 ms at most | the age is of the queue, which does not empty in a storm (:490) |
| EmptyIsHeld | WeaselTSF.cpp:477: an empty text always waits 800 ms | the same age: it may be sent as soon as accepted |
| ResetBeforeNewText | ThreadMgrEventSink.cpp:34: clear first, then receive | two threads, two pipes: the order is not kept |
| HitFindsItsContext | llm_filter.cc:1410: a hit means sequence 0 was not overwritten | a full pass that fails clears the memory and leaves `g_prep_ready` set (:1438) |
| SwitchingOffFreesAll | llm_filter.cc:1204: switching off really frees the memory | a load that starts between the two reads at :1131 overwrites `g_model` |
| NoOldSnapshot | llm_filter.cc:764: no old snapshot until the document is read again | a reading under way is published after the invalidation |
| SnapshotOfThisWindow | llm_filter.cc:780: the title refuses another window's text | the title is taken after the text was read (:712) |

Two comments disagree with the code without a property: TextEditSink.cpp:65 speaks of 300 ms where
the debouncer waits 100, KeyEventSink.cpp of 80 ms where its timer is 120.

### Bounds

Every bound is a constant and is named as one in its module.

- ContextDebounce: two texts and the empty one (what was sent, what is pending, what is collected
  can all differ); two flush threads (the property is that the second never starts); delays 1 and 2
  ticks, so that one text's quota is over while another's is not; `m_ctx_seq` modulo 3, so that it
  wraps; one reset, one lost message (of either kind), three acceptances - the shortest history in which a text is
  accepted before, during and after a send.
- ContextSource: two words, four commits against a history of three (it is trimmed), one reset and
  one click in any order, one window that COM can read and one it cannot; texts of one word, so
  that `Lagging`, `Stale` and `TailConsistent` take both values.
- LlmScore: two contexts of different length, up to two candidates, just as many cells as one score
  needs (one cell kept too long fails the next score), two prepare requests, one reset, two faults
  (failed decodes or missing logits) and generations modulo 3, the fewest that two passes without
  logits do not wrap around (`WidthAssumption`).
- ModelLifecycle: two paths, two loading threads, one prepare thread, three filters built, one
  failing load.
- UserFreq: two words, saves every 3 commits instead of 20, eight commits (two saves and a rest),
  two crashes, one open denied.
- EngineCore: two letters and a digit, inputs of three (a choice, a second one and a rest), all four
  editors, and words chosen so that a text is converted whole, in part, or not at all any more.
- WeaselSession: two clients, so that one meets the other's numbers; two deployments, edits or ends of
  processes, which is what it takes to come back to a cleared table with an old number; two process
  numbers, so that a restarted server counts from elsewhere or from the same place. Seven sessions
  and numbers up to 12 are more than two clients and two events can use up: those two bounds are
  never met.
- UserDict: two typists, two words; a commit of nothing, of a word, and of a word updated twice with
  another. The window of 3 seconds is one step of `Elapse`: a commit is at its end, within it or
  past it. Two ticks and two counts of a word let a clock be behind and a word be learned,
  deleted, and learned again; snapshots of an older clock and smaller counts let a recovery go back.

In the passing runs no bound hides the case a property is about: each property is violated in its
run by a fault listed under "mutants". The violation runs use the same or smaller bounds. CHECK_DEADLOCK FALSE stands only where
a bound stops the system (no commits, no deployments left).

History variables (`accepted`, `taken`, `scoredGen`, `ctxLost`, `leaked`, `made`, `forgiven`,
`spoiled`, `all`, `keptFrom`, `signals`, `late`, `own`, `strayed`, `dropped`, `owner`, `behind`, ...)
are written and never read by the actions' guards; `misfit` is the exception, for a composition
whose candidates do not fit is not followed further. Seven of them are exceptions in properties, each an event the code does not
defend against:
`ctxLost` (a full pass cleared the memory and failed), `leaked` (a load over a loaded model),
`spoiled` (a save cut short or an open denied), `late` (a COM reading under way when the snapshot was
invalidated), `misfit` (above), `strayed` (a client with a number from before a clearing ended the
session that has the number now: the server cannot tell them apart, and their next keys make new
sessions), `dropped` (EndMaintenance clears the table of a server that was already serving, RimeWithWeasel.cpp:486;
librime keeps the sessions until it is finalized). The first four come with a promise above that
shows what the event does.

A property with an exception says nothing of the hazard that is the exception: of a full pass whose
decode fails (llm_filter.cc:1438), of a COM reading under way (:766), of a stale number that ends
another's session (WeaselClientImpl.cpp:217) and of a typist who is behind (user_dictionary.cc:459)
the properties show that they are the only way to go wrong, not that the code avoids them.
`PROJECT.json` says so at each hazard.

### Fairness

Only what a scheduler gives: threads that can run do run (`WF` of the flush threads, of the engine
thread's steps, of the prepare threads), messages on the pipe are handled, time passes. Nothing
forces a user or an application to act. In ModelLifecycle a thread that waits for g_mutex needs
strong fairness (`Unload`, the loading thread): std::mutex hands itself out in no particular order,
but it is free again and again, for the others hold it for one decode at a time.
In WeaselSession users type on (without keys nobody asks for a session), a client that finds no
server starts one (WeaselTSF.cpp:273), and a deployment ends, by resuming the server or without.
`AcceptedReachesServer` and `EnabledLoads` exempt the failures the code does not retry: a message
lost, a load that failed.

## 4. What is proved

Eight modules of proofs, all checked by tlapm for all values of the constants that satisfy the named
assumptions.

| theorem | says | by |
|---|---|---|
| ContextDeliveryProofs: TypeCorrect, AtMostOneFlusher, NothingOrphaned, PendingServed | TypeOK (in it `ResetsAccounted`: the server's generation lags the resets sent by no more than those on their way and the messages lost), OneFlusher, NoOrphanedPending, RestingServerHoldsPending | the conjunction of the three with `SentIsServed`: what is true at rest has to be known already of the thread that just came back from the server |
| ContextDeliveryProofs: ImplementsChannel | `SpecH => Channel!Spec`, for any number of threads, texts, resets | `OrderInv`: where each thread stands relative to what was accepted and delivered; it needs OneFlusher |
| LlmScoreProofs: TypeCorrect, WorkersAreReleased, MemoryNeverFull, PrepIsWhatMemoryHolds, ScoresSeeTheirContext, ReplayIsOfThisGeneration | the invariants of score_safety | `WorkersInv` counts the cells step by step: none outside a score, at most m after step 2, m + k after step 3; `GenInv`: the two generations are as far apart as there were passes without logits since they were equal, so never round to each other; `CacheInv` |
| ModelLifecycleProofs: TypeCorrect, OneLoads, ModelKeptWhileDecoding, OffMeansFreed | the invariants of lifecycle_all | `IInv`: who holds the lock, what is in memory before, during and after a load, that nothing is there once switched off |
| UserFreqProofs: TypeCorrect, NoWordIsFromTheFuture, RestartsLoseOnlyUnsaved | the invariants of userfreq_safety | files and memory are ordered (no word above the tick), cutting keeps them ordered; memory and file differ by at most `dirty` commits |
| ContextSourceProofs: TypeCorrect, HistoryKept, HistoryIsFromHere, DocumentIsFromNow | the invariants of context_safety | `LastWordsAppend`: trimming before and after a commit gives the same words; `ClearedInTime`: until a click is seen the history was cleared after the last signal; `ReadInTime`: nothing outdates the snapshot but a signal not noticed yet |
| WeaselSessionProofs: TypeCorrect, SessionsAreOwn, TableIsLive, DeployerIsAlone | TypeOK and the invariants of session_all, for any number of clients | `Off`: a server that is not serving has no sessions; `Told`: a deployment that told the server holds its mutex or is done; `Book`: what numbers, table, addresses and history say of each other, preserved by `Looked`, `Create` and `Forget` in one lemma each |
| UserDictProofs: TypeCorrect, NothingWaits, RevertedIsRecent, ClockForward, QuietStepsKeep, IsOneDictionary | TypeOK, NothingLeftWaiting, the action properties and the refinement of userdict_safety, for any typists, words and phrases | `NothingLeftWaiting`: a transaction needs an open database and its typist; `OwnerIsLatest`: no typist committed later than the one who owns the batch; `Fresh`: who is not behind holds a tick no older than the clock |
| EngineCoreProofs: Invariance, TiledAlways, ShownIsTypedAlways, CommittedInFullAlways, ChoicesKeptAlways | as long as candidates fit (`Fits`), every key keeps `Resting`, and with it Tiled, ShownIsTyped, CommittedInFull and the action property ChoicesKept, for any alphabet, any translators that convert a non-empty start of a text, any editor and any schema options | between two keys the segments tile the input, their candidates fit the text under them, the composition reaches the caret, and only the last segment is open (`Resting`); inside a key, where segments reach past an input that was just cut, weaker forms hold step by step (`Good`, `Standing`, `Composed`) |
| EngineCoreProofs: LetteredAlways, TypingConservedAlways | under automatic commit every commit is of all that was composed, and TypingConserves: a letter typed into an input shorter than `MaxInput` is neither lost nor doubled by automatic selection, nor is one typed before it | `Lettered`: the input is letters, every segment but the last is chosen and ends where its candidate does (`ConservingInv` = `Inv` and this); during a search what was sent and what is left are parts of the text, end to end (`Parted`), and `Remaining` falls with each try, so that the search ends within `MaxTries` |
| EngineCoreProofs: UndoRestoresAlways | UndoRestores: a choice at the end of the input, taken back, leaves the segments, their menus and the choice as they were | `Resting` alone; a choice of all that is left is never reopened (`WholeNotReopened`), one of a part leaves letters, which one round of segmentation cuts into one segment (`LastRound`, `PartKept`, `PartReopened`) |

TypeOK of WeaselSession and UserDict and `NothingLeftWaiting` are proved and not listed in a run.

The proof about EngineCore is the longest, for each key runs through deletion, reopening, the rounds
of segmentation, translation and the search for an earlier match. Three things carry it. A segment
reopened on the way to a new composition need not fit the text under it until it is translated again:
`Good(c, X)` says what holds of a context but for the segments at the places X, and each operation
says what it does to X. The rounds and the searches are recursive functions with a bound on their
steps; `Iterates` and `IsRun` unfold them into runs, and what every round keeps holds of the run.
`ChoicesKept` compares two states: `Held`, `Carried` and `Spares` say which segments an operation
leaves as they were, and each key is a sequence of operations that spare what lies before the
caret. `TypingConserves` has to know that the search for an earlier match ends: each try shortens the
part tried, each match the text left, and `Remaining` counts down over both.

The assumptions: `SessionAssumption` (the allocator returns an address not in use),
`DictAssumption`, `TextAssumption`, `DelayAssumption` (the order of the three delays),
`CapacityAssumption` (one score fits the memory: true of the defaults, 128 cells, 10 tokens, 5
candidates; the code does not enforce it when a schema raises them), `WidthAssumption` (fewer passes
without logits than `g_seq0_gen`, a long, has values), `LockAssumption`,
`PathAssumption`, `SaveAssumption`, `SetAssumption`, `CandidateAssumption` (a candidate converts a
non-empty start of the text it is offered for, no more than all of it), `PartAssumption` (a candidate
that converts less than all of a text is offered for letters only, see below), `EngineAssumption`, and
that the bounds are natural numbers.

Only model-checked: SendProgress, AcceptedReachesServer, EngineReturns, EnabledLoads and Served,
because liveness under fairness is out of the prover's reach. Every safety invariant, action property
and refinement of the passing runs is proved.

`PartAssumption` came out of the proof of UndoRestores, which fails without it. Give digits candidates
of their own (d and dd as words beside a), and TLC finds a composition of a chosen a and a raw segment
dd: choosing d for the first digit leaves the fallback segmentor the second, which it appends to the
segment before it and clears (fallback_segmentor.cc:42). The choice is lost as it is made, and taking
back reopens the one before it. A schema can do this only by giving a table or script translator the
tag raw (translator_commons.cc:143); none of those in the repository does.

The violated promises have counterexamples instead of proofs.

## 5. Not modelled, and why

- The model's arithmetic and the order it gives: a score is good or a sentinel.
- What TSF and COM answer: arbitrary texts.
- The merging of one edit key's callbacks within 500 ms (KeyEventSink.cpp:141): it only removes
  resets.
- The decayed count of a word: it follows from its commits and their ticks.
- Undefined behaviour that a data race could add (g_model_path is a std::string written and read by
  two threads, llm_filter.cc:1193): modelled as the read of the old or the new value.
- The user dictionary's recovery is one step at its end. The task restores a snapshot word by word
  into an open database (user_db_recovery_task.cc:55), and a commit made meanwhile shares its batch
  without a lock: undefined, and bounded only by what the disk may lose, which `Recover` allows.
- The decayed weight of an entry; merging the dictionaries of other machines; the writing of
  snapshots (what one holds when it is restored is arbitrary within `Snapshots`).
- The switcher's menu, RimeSetInput and RimeSetCaretPos (the front end does not call them), commit
  comments, key bindings, punctuation, chords, and a speller with a maximal code length.
- The codes a table translator encodes for phrases (they add entries, which `Phrases` allows).
- A session that librime itself drops after five minutes: the server asks it to
  (RimeCleanupStaleSessions) nowhere.
- The compiled dictionaries, the windows, dialogs, the settings tool and the installer: formats,
  drawing and files.
- Everything the inventory calls planned.

The share of the repository's lines these models stand for is small and stays so: of its 113 000
lines of implementation more than half are headers of WTL and other libraries, generated tables,
windows and their drawing; the logic with state, threads or failures is a few thousand lines.

## 6. Plan

Done since the first version: the sessions, the engine core, the user dictionary. What is left, the
most useful first:

1. `Rerank`: the order Collect builds, over small sets of candidates, texts and scores, against a
   reference: a permutation, stable for equals, the replay equal to the fresh ranking.
2. `KeyEvents`: test and real key callbacks, the composition's life cycle, the edit-key timer,
   composed with WeaselSession's client.
3. `PipeChannel`: one call over a pipe that may break: connect, write, retry, read; at most one
   request handled per call. It would replace ContextDebounce's `SetFails` and `ResetFails`.
4. `Deployment` and `ConfigCompiler`: the maintenance thread and its joiner, which decide when
   WeaselSession's `Initialize` stays disabled; dependency resolution against a reference order.
5. EngineCore: punctuation and key bindings.
6. A composition of ContextSource with LlmScore, so that the generation of the store is one variable
   of both and CacheOfThisGeneration speaks of the words used.
7. `Algorithms`: syllabifier, spelling algebra, encoder as functions, against reference definitions
   on bounded inputs.

## 7. Checking it

    tlc -workers 2 -config ContextSource_safety.cfg MCContextSource.tla
    tlapm ContextSourceProofs.tla

Each run's module and .cfg are in `PROJECT.json`. All runs together take about eight minutes on two
workers, the proofs about twenty, fourteen of them EngineCoreProofs.
