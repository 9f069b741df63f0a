--------------------------- MODULE ContextDebounce ---------------------------
(***************************************************************************)
(* How the text before the caret travels from an application to the input  *)
(* method server.  The TSF text service (WeaselTSF.cpp) collects the text  *)
(* in edit sessions on its UI thread, debounces it, and hands it to a      *)
(* detached flush thread that performs the blocking IPC; edit keys and     *)
(* window switches send a ResetContext from one more detached thread and   *)
(* forget what was last sent.  The server side is the context-text store   *)
(* of rime_api_impl.h.                                                     *)
(*                                                                         *)
(* A step of the model is one critical section of m_ctx_debounce_mutex,    *)
(* one request handled by the server (requests are serialised by the       *)
(* client's send_mutex_ and the server's g_api_mutex; a thread waiting for *)
(* either has not been handled yet), or one tick of the clock.             *)
(* m_ctx_pending_since is kept as the age GetTickCount64() -               *)
(* m_ctx_pending_since, capped at the largest delay any comparison can     *)
(* tell apart.                                                             *)
(*                                                                         *)
(* A definition X_Fault is X with a plausible bug; no specification uses   *)
(* one.  They show that each property can be broken by a change of code.   *)
(***************************************************************************)
EXTENDS Naturals

CONSTANTS Text,            \* what may stand before the caret
          Empty,           \* the empty text, a member of Text
          Flusher,         \* identities for flush threads
          NormalDelay,     \* 100 ms, in ticks
          EmptyDelay,      \* 800 ms
          EditResetDelay,  \* 50 ms
          RecollectDelay,  \* 120 ms between an edit key and the recollection
          FocusThrottle,   \* 1 s between two resets for a window switch
          SeqModulus,      \* 2^64: m_ctx_seq is a uint64_t
          MaxReset,        \* bound: resets sent
          MaxFailure       \* bound: messages of either kind the server never sees

ASSUME TextAssumption == Empty \in Text
ASSUME DelayAssumption ==
  /\ NormalDelay \in Nat /\ EmptyDelay \in Nat /\ EditResetDelay \in Nat
  /\ RecollectDelay \in Nat /\ FocusThrottle \in Nat
  /\ EditResetDelay <= EmptyDelay
  /\ NormalDelay <= EmptyDelay
ASSUME SeqAssumption == SeqModulus \in Nat \ {0}
ASSUME BoundAssumption == MaxReset \in Nat /\ MaxFailure \in Nat

VARIABLES
  textBeforeCaret,  \* m_textBeforeCaret: the last text collected
  pending,          \* m_ctx_pending
  lastSent,         \* m_ctx_last_sent
  running,          \* m_ctx_flush_running
  waited,           \* age of m_ctx_pending_since, at most EmptyDelay
  immediate,        \* m_ctx_pending_immediate
  fromEditReset,    \* m_ctx_from_edit_reset
  seq,              \* m_ctx_seq: texts accepted so far, modulo its width
  recollect,        \* ticks to the EditResetCollectProc timer; RecollectDelay + 1: not set
  focusAge,         \* age of m_last_focus_reset_tick, at most FocusThrottle
  pc,               \* where each flush thread stands
  send,             \* the local variable "send" of each flush thread
  waitSeq,          \* the local variable "seq" of each flush thread
  timer,            \* ticks left of each flush thread's wait_for
  resets,           \* ResetContext requests on their way (a detached thread each)
  resetsSent,       \* how many were ever sent
  failures,         \* SetContextText and ResetContext requests lost
  serverText,       \* g_context_text
  serverValid,      \* g_context_text_valid
  serverGen         \* g_context_reset_gen

debouncer == <<pending, lastSent, running, waited, immediate, fromEditReset, seq>>
ui        == <<textBeforeCaret, recollect, focusAge, resetsSent>>
threads   == <<pc, send, waitSeq, timer>>
server    == <<serverText, serverValid, serverGen>>
vars      == <<textBeforeCaret, pending, lastSent, running, waited, immediate,
               fromEditReset, seq, recollect, focusAge, pc, send, waitSeq, timer,
               resets, resetsSent, failures, serverText, serverValid, serverGen>>

NoTimer == RecollectDelay + 1

\* a reset is on its way, counted by the server, or lost; none is counted twice
ResetsAccounted ==
  /\ serverGen + resets <= resetsSent
  /\ resetsSent <= serverGen + resets + failures

TypeOK ==
  /\ textBeforeCaret \in Text /\ pending \in Text /\ lastSent \in Text
  /\ running \in BOOLEAN /\ immediate \in BOOLEAN /\ fromEditReset \in BOOLEAN
  /\ serverText \in Text /\ serverValid \in BOOLEAN
  /\ waited \in 0..EmptyDelay
  /\ seq \in 0..(SeqModulus - 1)
  /\ recollect \in 0..NoTimer
  /\ focusAge \in 0..FocusThrottle
  /\ pc \in [Flusher -> {"idle", "check", "wait", "send", "sent"}]
  /\ send \in [Flusher -> Text]
  /\ waitSeq \in [Flusher -> 0..(SeqModulus - 1)]
  /\ timer \in [Flusher -> 0..EmptyDelay]
  /\ resetsSent \in 0..MaxReset
  /\ resets \in 0..resetsSent
  /\ failures \in 0..MaxFailure
  /\ serverGen \in Nat
  /\ ResetsAccounted

Init ==
  /\ textBeforeCaret = Empty
  /\ pending = Empty
  /\ lastSent = Empty
  /\ running = FALSE
  /\ waited = EmptyDelay
  /\ immediate = FALSE
  /\ fromEditReset = FALSE
  /\ seq = 0
  /\ recollect = NoTimer
  /\ focusAge = FocusThrottle
  /\ pc = [f \in Flusher |-> "idle"]
  /\ send = [f \in Flusher |-> Empty]
  /\ waitSeq = [f \in Flusher |-> 0]
  /\ timer = [f \in Flusher |-> 0]
  /\ resets = 0
  /\ resetsSent = 0
  /\ failures = 0
  /\ serverText = Empty
  /\ serverValid = FALSE
  /\ serverGen = 0

------------------------------------------------------------------------------
(* The UI thread. *)

\* std::thread(...).detach(): the new flush thread starts at the head of its loop
Spawn(f) ==
  /\ pc[f] = "idle"
  /\ running' = TRUE
  /\ pc' = [pc EXCEPT ![f] = "check"]

EnsureFlusher_Always == \E f \in Flusher : Spawn(f)
EnsureFlusher ==
  \/ running /\ UNCHANGED <<running, pc>>
  \/ ~running /\ \E f \in Flusher : Spawn(f)

\* m_ctx_pending_since moves only when the queue goes from empty to non-empty
AgeOnAccept_Restart == 0
AgeOnAccept == IF pending = lastSent THEN 0 ELSE waited

\* _OnContextTextReady, past the early return: t is not what was last sent
Accept(t, imm, editReset) ==
  /\ waited' = AgeOnAccept
  /\ pending' = t
  /\ immediate' = (immediate \/ imm)
  /\ fromEditReset' = (fromEditReset \/ editReset)
  /\ seq' = (seq + 1) % SeqModulus
  /\ EnsureFlusher
  /\ UNCHANGED <<lastSent, send, waitSeq, timer>>

\* _OnContextTextReady
OnContextTextReady(t, imm, editReset) ==
  /\ textBeforeCaret' = t
  /\ \/ t = lastSent /\ UNCHANGED <<debouncer, threads>>
     \/ t # lastSent /\ Accept(t, imm, editReset)
  /\ UNCHANGED <<focusAge, resets, resetsSent, failures, server>>

\* CTextEditSink::OnEndEdit and the request OnSetFocus makes: an ordinary change
CollectOnEdit(t) ==
  /\ OnContextTextReady(t, FALSE, FALSE)
  /\ UNCHANGED recollect

\* CEndCompositionEditSession: a word was committed
CollectOnCommit(t) ==
  /\ OnContextTextReady(t, TRUE, FALSE)
  /\ UNCHANGED recollect

\* EditResetCollectProc: the timer an edit key set; _RequestContextText(ctx, true)
CollectAfterEditKey(t) ==
  /\ recollect = 0
  /\ recollect' = NoTimer
  /\ OnContextTextReady(t, TRUE, FALSE)

\* EditResetCollectProc when the application denies the edit session
RecollectDenied ==
  /\ recollect = 0
  /\ recollect' = NoTimer
  /\ UNCHANGED <<textBeforeCaret, focusAge, resetsSent, debouncer, threads, resets,
                 failures, server>>

\* a detached ResetContext thread, then _OnContextReset
Reset ==
  /\ resetsSent < MaxReset
  /\ resetsSent' = resetsSent + 1
  /\ resets' = resets + 1
  /\ lastSent' = Empty
  /\ UNCHANGED <<textBeforeCaret, pending, running, waited, immediate, fromEditReset,
                 seq, threads, failures, server>>

\* _HandleEditKeyReset for a key that moves the caret or edits the document
EditKey ==
  /\ Reset
  /\ recollect' = RecollectDelay
  /\ UNCHANGED focusAge

\* OnSetFocus on a change of document manager; within FocusThrottle of the last
\* reset it only collects again
FocusSwitch ==
  /\ focusAge = FocusThrottle
  /\ focusAge' = 0
  /\ Reset
  /\ UNCHANGED recollect

------------------------------------------------------------------------------
(* The flush thread. *)

Quota(t) == IF t = Empty
              THEN IF fromEditReset THEN EditResetDelay ELSE EmptyDelay
              ELSE IF immediate THEN 0 ELSE NormalDelay

\* the head of the loop: wait for what is left of the quota, or take the text
FlushCheck(f) ==
  /\ pc[f] = "check"
  /\ \/ /\ waited < Quota(pending)
        /\ pc' = [pc EXCEPT ![f] = "wait"]
        /\ waitSeq' = [waitSeq EXCEPT ![f] = seq]
        /\ timer' = [timer EXCEPT ![f] = Quota(pending) - waited]
        /\ UNCHANGED send
     \/ /\ waited >= Quota(pending)
        /\ pc' = [pc EXCEPT ![f] = "send"]
        /\ send' = [send EXCEPT ![f] = pending]
        /\ UNCHANGED <<waitSeq, timer>>
  /\ UNCHANGED <<ui, debouncer, resets, failures, server>>

WaitOver_OnlyNotified(f) == seq # waitSeq[f]
WaitOver(f) == timer[f] = 0 \/ seq # waitSeq[f]

\* wait_for returns: its time is up, or m_ctx_seq moved.  Locals that go out of
\* scope are reset, so that they do not tell states apart.
FlushWake(f) ==
  /\ pc[f] = "wait"
  /\ WaitOver(f)
  /\ pc' = [pc EXCEPT ![f] = "check"]
  /\ waitSeq' = [waitSeq EXCEPT ![f] = 0]
  /\ timer' = [timer EXCEPT ![f] = 0]
  /\ UNCHANGED <<ui, debouncer, send, resets, failures, server>>

NothingNewer_Unchecked(f) == TRUE
NothingNewer(f) == pending = send[f]

\* after SetContextText: record the text, stop if no newer one is pending
FlushDone(f) ==
  /\ pc[f] = "sent"
  /\ lastSent' = send[f]
  /\ send' = [send EXCEPT ![f] = Empty]
  /\ \/ /\ NothingNewer(f)
        /\ immediate' = FALSE
        /\ fromEditReset' = FALSE
        /\ running' = FALSE
        /\ pc' = [pc EXCEPT ![f] = "idle"]
     \/ /\ ~NothingNewer(f)
        /\ pc' = [pc EXCEPT ![f] = "check"]
        /\ UNCHANGED <<immediate, fromEditReset, running>>
  /\ UNCHANGED <<ui, pending, waited, seq, waitSeq, timer, resets, failures, server>>

------------------------------------------------------------------------------
(* The server, and the pipe that reaches it. *)

Stored_SkipsEmpty(t) == IF t = Empty THEN serverText ELSE t
Stored(t) == t

\* SetContextText delivered: RimeSetContextText.  An empty text is stored, but does
\* not count as the collection working.
ServerSet(f) ==
  /\ pc[f] = "send"
  /\ pc' = [pc EXCEPT ![f] = "sent"]
  /\ serverText' = Stored(send[f])
  /\ serverValid' = (serverValid \/ (send[f] # serverText /\ send[f] # Empty))
  /\ UNCHANGED <<ui, debouncer, send, waitSeq, timer, resets, failures, serverGen>>

\* SetContextText not delivered: ClientImpl::SendContextText catches what the pipe throws
SetFails(f) ==
  /\ pc[f] = "send"
  /\ failures < MaxFailure
  /\ failures' = failures + 1
  /\ pc' = [pc EXCEPT ![f] = "sent"]
  /\ UNCHANGED <<ui, debouncer, send, waitSeq, timer, resets, server>>

NextGeneration_Kept == serverGen
NextGeneration == serverGen + 1

\* ResetContext delivered: RimeResetContextText
ServerReset ==
  /\ resets > 0
  /\ resets' = resets - 1
  /\ serverText' = Empty
  /\ serverValid' = FALSE
  /\ serverGen' = NextGeneration
  /\ UNCHANGED <<ui, debouncer, threads, failures>>

\* ResetContext not delivered: ClientImpl::SendContextReset catches what the pipe throws
ResetFails ==
  /\ resets > 0
  /\ failures < MaxFailure
  /\ failures' = failures + 1
  /\ resets' = resets - 1
  /\ UNCHANGED <<ui, debouncer, threads, server>>

------------------------------------------------------------------------------
Smaller(a, b) == IF a < b THEN a ELSE b

\* one tick of the clock; a due timer or an expired wait may be served late
Tick ==
  /\ recollect' = IF recollect \in {0, NoTimer} THEN recollect ELSE recollect - 1
  /\ waited' = Smaller(waited + 1, EmptyDelay)
  /\ focusAge' = Smaller(focusAge + 1, FocusThrottle)
  /\ timer' = [f \in Flusher |-> IF timer[f] = 0 THEN 0 ELSE timer[f] - 1]
  /\ UNCHANGED <<textBeforeCaret, pending, lastSent, running, immediate, fromEditReset,
                 seq, pc, send, waitSeq, resets, resetsSent, failures, server>>

Collect == \E t \in Text :
  CollectOnEdit(t) \/ CollectOnCommit(t) \/ CollectAfterEditKey(t)

Flush(f) == FlushCheck(f) \/ FlushWake(f) \/ FlushDone(f)

Next ==
  \/ Collect
  \/ RecollectDenied
  \/ EditKey
  \/ FocusSwitch
  \/ \E f \in Flusher : Flush(f) \/ ServerSet(f) \/ SetFails(f)
  \/ ServerReset
  \/ ResetFails
  \/ Tick

\* Threads that can run do run, requests on the pipe are handled, time passes.
\* Nothing forces the user or the application to do anything.
Fairness ==
  /\ \A f \in Flusher : WF_vars(Flush(f)) /\ WF_vars(ServerSet(f))
  /\ WF_vars(ServerReset)
  /\ WF_vars(Tick)

Spec     == Init /\ [][Next]_vars
FairSpec == Spec /\ Fairness

------------------------------------------------------------------------------
(* Safety. *)

\* At most one flush thread exists, and m_ctx_flush_running says so: two of them
\* would send through two pipes and could hand the server an older text last.
OneFlusher ==
  /\ \A f, g \in Flusher : pc[f] # "idle" /\ pc[g] # "idle" => f = g
  /\ running <=> \E f \in Flusher : pc[f] # "idle"

\* When the flush thread has left, the text it left behind is the one that was
\* sent (or a reset has since forgotten it): no text is accepted between the
\* thread's last look at m_ctx_pending and its exit and then never sent.
NoOrphanedPending == ~running => lastSent \in {pending, Empty}

\* As long as nothing was reset or lost, a debouncer at rest has brought the
\* server the pending text.
RestingServerHoldsPending ==
  ~running /\ resetsSent = 0 /\ failures = 0 => serverText = pending

\* What WeaselTSF.h:189 and the loop's comment promise, "the latest text": at rest,
\* with nothing reset or lost, the server holds the text last collected.
RestingServerHoldsCaretText ==
  ~running /\ resetsSent = 0 /\ failures = 0 => serverText = textBeforeCaret

------------------------------------------------------------------------------
(* Promises of comments that the code does not keep, beyond the one above; the README *)
(* tells how.  They are stated for the reader and checked by no run.                 *)

\* _OnContextReset exists so that a text the server no longer holds is sent again:
\* at rest, a text still marked as sent is the text the server holds, for an equal
\* text is never sent again.
ResetForcesResend ==
  ~running /\ resets = 0 /\ failures = 0 /\ lastSent # Empty => serverText = lastSent

\* m_ctx_last_sent is "the text already sent": at rest with no reset ever sent, the
\* server has it, so that skipping an equal text is harmless.
LastSentReachedServer ==
  ~running /\ resetsSent = 0 => serverText = lastSent

\* An empty text collected for an edit key is marked for the 50 ms delay.
EditResetMarksPending ==
  [][\A t \in Text : CollectAfterEditKey(t) /\ t # lastSent => fromEditReset']_vars

\* m_ctx_pending_immediate speaks of the pending text: once an ordinary change
\* replaced it, the new text is merged for 100 ms like any other.
ImmediateBelongsToPending ==
  [][\A t \in Text : CollectOnEdit(t) /\ t # lastSent => ~immediate']_vars

------------------------------------------------------------------------------
(* Liveness. *)

Waiting == \E f \in Flusher : pc[f] \in {"check", "wait"}

\* The clock of a pending text is not restarted by the texts that replace it, so a
\* storm of updates cannot postpone sending for ever.
SendProgress == Waiting ~> \E f \in Flusher : pc[f] = "send"

\* A text the flush thread has still to take, and that nothing replaces, reaches the
\* server, also when resets overtake it, unless the pipe loses a message.
AcceptedReachesServer ==
  \A t \in Text :
    (Waiting /\ pending = t) ~> (serverText = t \/ pending # t \/ failures > 0)
==============================================================================
