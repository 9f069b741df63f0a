----------------------- MODULE ContextDeliveryProofs -----------------------
(***************************************************************************)
(* Theorems about ContextDebounce and about ContextDelivery, for every     *)
(* value of their constants: any texts, any number of flush threads, any   *)
(* delays, resets and failures.                                            *)
(***************************************************************************)
EXTENDS ContextDelivery, TLAPS

LEMMA ConstantsInRange ==
  /\ Empty \in Text
  /\ EmptyDelay \in Nat /\ 0 \in 0..EmptyDelay /\ EmptyDelay \in 0..EmptyDelay
  /\ FocusThrottle \in Nat /\ 0 \in 0..FocusThrottle /\ FocusThrottle \in 0..FocusThrottle
  /\ NoTimer \in Nat /\ {0, RecollectDelay, NoTimer} \subseteq 0..NoTimer
  /\ 0 \in 0..(SeqModulus - 1)
  BY TextAssumption, DelayAssumption, SeqAssumption DEF NoTimer

LEMMA InitTypeOK == Init => TypeOK
  <1> SUFFICES ASSUME Init PROVE TypeOK
    OBVIOUS
  <1>1. /\ pc \in [Flusher -> {"idle", "check", "wait", "send", "sent"}]
        /\ send \in [Flusher -> Text]
        /\ waitSeq \in [Flusher -> 0..(SeqModulus - 1)]
        /\ timer \in [Flusher -> 0..EmptyDelay]
    BY ConstantsInRange DEF Init
  <1>2. /\ waited \in 0..EmptyDelay
        /\ seq \in 0..(SeqModulus - 1)
        /\ recollect \in 0..NoTimer
        /\ focusAge \in 0..FocusThrottle
    BY ConstantsInRange DEF Init
  <1>3. /\ resetsSent \in 0..MaxReset /\ resets \in 0..resetsSent
        /\ serverGen \in Nat /\ ResetsAccounted /\ failures \in 0..MaxFailure
    BY BoundAssumption DEF Init, ResetsAccounted
  <1> QED
    BY <1>1, <1>2, <1>3, TextAssumption DEF Init, TypeOK

\* Counting an acceptance keeps m_ctx_seq within its width.
LEMMA SeqStaysInWidth ==
  ASSUME NEW n \in 0..(SeqModulus - 1) PROVE (n + 1) % SeqModulus \in 0..(SeqModulus - 1)
  BY SeqAssumption

LEMMA AcceptTypeOK ==
  ASSUME TypeOK, NEW t \in Text, NEW imm \in BOOLEAN, NEW editReset \in BOOLEAN,
         OnContextTextReady(t, imm, editReset), recollect' \in 0..NoTimer
  PROVE  TypeOK'
  <1>1. CASE t = lastSent /\ UNCHANGED <<debouncer, threads>>
    BY <1>1 DEF TypeOK, ResetsAccounted, OnContextTextReady, debouncer, threads, server
  <1>2. CASE t # lastSent /\ Accept(t, imm, editReset)
    <2>1. AgeOnAccept \in 0..EmptyDelay
      BY ConstantsInRange DEF AgeOnAccept, TypeOK
    <2>2. (seq + 1) % SeqModulus \in 0..(SeqModulus - 1)
      BY SeqStaysInWidth DEF TypeOK
    <2>3. running' \in BOOLEAN /\ pc' \in [Flusher -> {"idle", "check", "wait", "send", "sent"}]
      BY <1>2 DEF Accept, EnsureFlusher, Spawn, TypeOK
    <2> QED
      BY <1>2, <2>1, <2>2, <2>3 DEF TypeOK, ResetsAccounted, OnContextTextReady, Accept, server
  <1> QED
    BY <1>1, <1>2 DEF OnContextTextReady

LEMMA QuotaBounded == TypeOK => Quota(pending) \in 0..EmptyDelay
  BY DelayAssumption DEF TypeOK, Quota

LEMMA NextTypeOK == TypeOK /\ [Next]_vars => TypeOK'
  <1> SUFFICES ASSUME TypeOK, [Next]_vars PROVE TypeOK'
    OBVIOUS
  <1>1. CASE Collect
    <2> PICK t \in Text : CollectOnEdit(t) \/ CollectOnCommit(t) \/ CollectAfterEditKey(t)
      BY <1>1 DEF Collect
    <2>1. CASE CollectOnEdit(t)
      BY <2>1, AcceptTypeOK DEF CollectOnEdit, TypeOK
    <2>2. CASE CollectOnCommit(t)
      BY <2>2, AcceptTypeOK DEF CollectOnCommit, TypeOK
    <2>3. CASE CollectAfterEditKey(t)
      BY <2>3, AcceptTypeOK, ConstantsInRange DEF CollectAfterEditKey
    <2> QED
      BY <2>1, <2>2, <2>3
  <1>2. CASE RecollectDenied
    BY <1>2, ConstantsInRange DEF RecollectDenied, TypeOK, ResetsAccounted, debouncer, threads, server
  <1>3. ASSUME Reset, recollect' \in 0..NoTimer, focusAge' \in 0..FocusThrottle
        PROVE  TypeOK'
    <2>1. resetsSent' \in 0..MaxReset /\ resets' \in 0..resetsSent' /\ ResetsAccounted'
      BY <1>3, BoundAssumption DEF Reset, TypeOK, ResetsAccounted, server
    <2> QED
      BY <1>3, <2>1, TextAssumption DEF Reset, TypeOK, threads, server
  <1>4. CASE EditKey
    BY <1>4, <1>3, ConstantsInRange DEF EditKey, TypeOK
  <1>5. CASE FocusSwitch
    BY <1>5, <1>3, ConstantsInRange DEF FocusSwitch, TypeOK
  <1>6. ASSUME NEW f \in Flusher, FlushCheck(f)
        PROVE  TypeOK'
    <2>1. /\ pc' \in [Flusher -> {"idle", "check", "wait", "send", "sent"}]
          /\ send' \in [Flusher -> Text]
          /\ waitSeq' \in [Flusher -> 0..(SeqModulus - 1)]
      BY <1>6 DEF FlushCheck, TypeOK, debouncer
    <2>2. waited < Quota(pending) => Quota(pending) - waited \in 0..EmptyDelay
      BY QuotaBounded, ConstantsInRange DEF TypeOK
    <2>3. timer' \in [Flusher -> 0..EmptyDelay]
      BY <1>6, <2>2 DEF FlushCheck, TypeOK
    <2> QED
      BY <1>6, <2>1, <2>3 DEF FlushCheck, TypeOK, ResetsAccounted, ui, debouncer, server
  <1>7. ASSUME NEW f \in Flusher, FlushWake(f)
        PROVE  TypeOK'
    BY <1>7, ConstantsInRange DEF FlushWake, TypeOK, ResetsAccounted, ui, debouncer, server
  <1>8. ASSUME NEW f \in Flusher, FlushDone(f)
        PROVE  TypeOK'
    BY <1>8, TextAssumption DEF FlushDone, TypeOK, ResetsAccounted, ui, server
  <1>9. ASSUME NEW f \in Flusher, ServerSet(f)
        PROVE  TypeOK'
    BY <1>9 DEF ServerSet, Stored, TypeOK, ResetsAccounted, ui, debouncer
  <1>10. ASSUME NEW f \in Flusher, SetFails(f)
         PROVE  TypeOK'
    <2>1. failures' \in 0..MaxFailure /\ ResetsAccounted'
      BY <1>10, BoundAssumption DEF SetFails, TypeOK, ResetsAccounted, ui, server
    <2> QED
      BY <1>10, <2>1 DEF SetFails, TypeOK, ui, debouncer, server
  <1>11. CASE ServerReset
    <2>1. resets' \in 0..resetsSent' /\ serverGen' \in Nat /\ ResetsAccounted'
      BY <1>11, BoundAssumption DEF ServerReset, NextGeneration, TypeOK, ResetsAccounted, ui
    <2> QED
      BY <1>11, <2>1, TextAssumption DEF ServerReset, TypeOK, ui, debouncer, threads
  <1>12. CASE Tick
    <2>1. \A n \in 0..EmptyDelay : Smaller(n + 1, EmptyDelay) \in 0..EmptyDelay
      BY ConstantsInRange DEF Smaller
    <2>2. \A n \in 0..FocusThrottle : Smaller(n + 1, FocusThrottle) \in 0..FocusThrottle
      BY ConstantsInRange DEF Smaller
    <2>3. timer' \in [Flusher -> 0..EmptyDelay]
      BY <1>12, ConstantsInRange DEF Tick, TypeOK
    <2>4. recollect' \in 0..NoTimer
      BY <1>12, ConstantsInRange DEF Tick, TypeOK
    <2> QED
      BY <1>12, <2>1, <2>2, <2>3, <2>4 DEF Tick, TypeOK, ResetsAccounted, server
  <1>13. CASE ResetFails
    <2>1. /\ resets' \in 0..resetsSent' /\ failures' \in 0..MaxFailure
          /\ ResetsAccounted'
      BY <1>13, BoundAssumption DEF ResetFails, TypeOK, ResetsAccounted, ui, server
    <2> QED
      BY <1>13, <2>1 DEF ResetFails, TypeOK, ui, debouncer, threads, server
  <1>14. CASE UNCHANGED vars
    BY <1>14 DEF vars, TypeOK, ResetsAccounted
  <1> QED
    BY <1>1, <1>2, <1>4, <1>5, <1>6, <1>7, <1>8, <1>9, <1>10, <1>11, <1>12, <1>13, <1>14
    DEF Next, Flush

\* Every variable keeps its type; every ResetContext sent is on its way, counted in
\* serverGen, or among the messages the pipe lost, and none is counted twice.
THEOREM TypeCorrect == Spec => []TypeOK
  BY InitTypeOK, NextTypeOK, PTL DEF Spec

------------------------------------------------------------------------------
(* The inductive invariant. *)

\* What RestingServerHoldsPending says of a debouncer at rest has to be known
\* already of a flush thread that has just come back from the server.
SentIsServed ==
  resetsSent = 0 /\ failures = 0 => \A f \in Flusher : pc[f] = "sent" => serverText = send[f]

Inv == OneFlusher /\ NoOrphanedPending /\ RestingServerHoldsPending /\ SentIsServed

LEMMA InitInv == Init => Inv
  BY DEF Init, Inv, OneFlusher, NoOrphanedPending, RestingServerHoldsPending, SentIsServed

\* Accepting a text leaves exactly one flush thread running.
LEMMA EnsureFlusherInv ==
  ASSUME TypeOK, OneFlusher, EnsureFlusher
  PROVE  /\ running' /\ OneFlusher'
         /\ \A f \in Flusher : pc'[f] = "sent" => pc[f] = "sent"
  <1>1. CASE running /\ UNCHANGED <<running, pc>>
    BY <1>1 DEF OneFlusher
  <1>2. ASSUME ~running, NEW f \in Flusher, Spawn(f)
        PROVE  /\ running' /\ OneFlusher'
               /\ \A g \in Flusher : pc'[g] = "sent" => pc[g] = "sent"
    BY <1>2 DEF Spawn, OneFlusher, TypeOK
  <1> QED
    BY <1>1, <1>2 DEF EnsureFlusher

LEMMA CollectInv ==
  ASSUME TypeOK, Inv, NEW t \in Text, NEW imm, NEW editReset,
         OnContextTextReady(t, imm, editReset)
  PROVE  Inv'
  <1>1. CASE t = lastSent /\ UNCHANGED <<debouncer, threads>>
    BY <1>1 DEF OnContextTextReady, debouncer, threads, server, Inv, OneFlusher,
                NoOrphanedPending, RestingServerHoldsPending, SentIsServed
  <1>2. CASE t # lastSent /\ Accept(t, imm, editReset)
    BY <1>2, EnsureFlusherInv
    DEF Accept, OnContextTextReady, server, Inv, NoOrphanedPending,
        RestingServerHoldsPending, SentIsServed
  <1> QED
    BY <1>1, <1>2 DEF OnContextTextReady

LEMMA NextInv == TypeOK /\ Inv /\ [Next]_vars => Inv'
  <1> SUFFICES ASSUME TypeOK, Inv, [Next]_vars PROVE Inv'
    OBVIOUS
  <1>1. CASE Collect
    BY <1>1, CollectInv DEF Collect, CollectOnEdit, CollectOnCommit, CollectAfterEditKey
  <1>2. CASE RecollectDenied
    BY <1>2 DEF RecollectDenied, debouncer, threads, server, Inv, OneFlusher,
                NoOrphanedPending, RestingServerHoldsPending, SentIsServed
  <1>3. CASE EditKey \/ FocusSwitch
    <2>1. Reset
      BY <1>3 DEF EditKey, FocusSwitch
    <2>2. resetsSent' # 0
      BY <2>1, BoundAssumption DEF Reset, TypeOK
    <2> QED
      BY <2>1, <2>2 DEF Reset, threads, server, Inv, OneFlusher,
                        NoOrphanedPending, RestingServerHoldsPending, SentIsServed
  <1>4. ASSUME NEW f \in Flusher, FlushCheck(f) \/ FlushWake(f)
        PROVE  Inv'
    <2>1. /\ pc[f] \in {"check", "wait"}
          /\ pc' = [pc EXCEPT ![f] = "wait"] \/ pc' = [pc EXCEPT ![f] = "send"]
               \/ pc' = [pc EXCEPT ![f] = "check"]
          /\ \A g \in Flusher : g # f => send'[g] = send[g]
          /\ UNCHANGED <<ui, debouncer, failures, server>>
      BY <1>4 DEF FlushCheck, FlushWake, TypeOK
    <2>2. OneFlusher'
      BY <2>1 DEF Inv, OneFlusher, TypeOK, debouncer
    <2> QED
      BY <2>1, <2>2 DEF Inv, NoOrphanedPending, RestingServerHoldsPending, SentIsServed,
                        TypeOK, ui, debouncer, server
  <1>5. ASSUME NEW f \in Flusher, FlushDone(f)
        PROVE  Inv'
    <2>1. OneFlusher'
      BY <1>5 DEF FlushDone, Inv, OneFlusher, TypeOK
    <2>2. NoOrphanedPending'
      BY <1>5 DEF FlushDone, NothingNewer, Inv, OneFlusher, NoOrphanedPending, TypeOK
    <2>3. RestingServerHoldsPending'
      BY <1>5 DEF FlushDone, NothingNewer, Inv, OneFlusher, RestingServerHoldsPending,
                  SentIsServed, TypeOK, ui, server
    <2>4. SentIsServed'
      BY <1>5 DEF FlushDone, Inv, OneFlusher, SentIsServed, TypeOK, ui, server
    <2> QED
      BY <2>1, <2>2, <2>3, <2>4 DEF Inv
  <1>6. ASSUME NEW f \in Flusher, ServerSet(f)
        PROVE  Inv'
    <2>1. running
      BY <1>6 DEF ServerSet, Inv, OneFlusher
    <2>2. OneFlusher'
      BY <1>6 DEF ServerSet, Inv, OneFlusher, TypeOK, debouncer
    <2>3. SentIsServed'
      BY <1>6 DEF ServerSet, Stored, Inv, OneFlusher, SentIsServed, TypeOK, ui
    <2> QED
      BY <1>6, <2>1, <2>2, <2>3
      DEF ServerSet, Inv, NoOrphanedPending, RestingServerHoldsPending, debouncer
  <1>7. ASSUME NEW f \in Flusher, SetFails(f)
        PROVE  Inv'
    <2>1. failures' # 0
      BY <1>7, BoundAssumption DEF SetFails, TypeOK
    <2>2. OneFlusher'
      BY <1>7 DEF SetFails, Inv, OneFlusher, TypeOK, debouncer
    <2> QED
      BY <1>7, <2>1, <2>2 DEF SetFails, Inv, NoOrphanedPending, RestingServerHoldsPending,
                              SentIsServed, debouncer
  <1>8. CASE ServerReset
    <2>1. resetsSent' # 0
      BY <1>8, BoundAssumption DEF ServerReset, TypeOK, ui
    <2> QED
      BY <1>8, <2>1 DEF ServerReset, Inv, OneFlusher, NoOrphanedPending,
                        RestingServerHoldsPending, SentIsServed, debouncer, threads
  <1>9. CASE Tick
    BY <1>9 DEF Tick, server, Inv, OneFlusher, NoOrphanedPending,
                RestingServerHoldsPending, SentIsServed
  <1>10. CASE ResetFails
    <2>1. failures' # 0
      BY <1>10, BoundAssumption DEF ResetFails, TypeOK
    <2> QED
      BY <1>10, <2>1 DEF ResetFails, Inv, OneFlusher, NoOrphanedPending,
                         RestingServerHoldsPending, SentIsServed, debouncer, threads
  <1>11. CASE UNCHANGED vars
    BY <1>11 DEF vars, Inv, OneFlusher, NoOrphanedPending, RestingServerHoldsPending,
                 SentIsServed
  <1> QED
    BY <1>1, <1>2, <1>3, <1>4, <1>5, <1>6, <1>7, <1>8, <1>9, <1>10, <1>11 DEF Next, Flush

\* The invariant the three theorems below are read off.
LEMMA Invariance == Spec => []Inv
  BY InitInv, NextInv, TypeCorrect, PTL DEF Spec

\* However many threads the debouncer may spawn, at most one sends at a time, so the
\* server cannot be handed an older text after a newer one.
THEOREM AtMostOneFlusher == Spec => []OneFlusher
  BY Invariance, PTL DEF Inv

\* No accepted text is left behind between the flush thread's last look at
\* m_ctx_pending and its exit, with any number of resets and failures.
THEOREM NothingOrphaned == Spec => []NoOrphanedPending
  BY Invariance, PTL DEF Inv

\* Without resets and losses a debouncer at rest has delivered the pending text.
THEOREM PendingServed == Spec => []RestingServerHoldsPending
  BY Invariance, PTL DEF Inv

------------------------------------------------------------------------------
(* The debouncer implements ContextChannel: whatever the resets, the failures
   and the number of threads, the server is handed the accepted texts in the
   order of their acceptance. *)

LEMMA StepsOfTheDebouncer == SpecH => Spec
  <1>1. InitH => Init
    BY DEF InitH
  <1>2. [NextH]_dvars => [Next]_vars
    BY DEF NextH, CollectH, ResetH, FlushH, ServerSetH, TickH, dvars, Next
  <1> QED
    BY <1>1, <1>2, PTL DEF SpecH, Spec

HistoryTypeOK == accepted \in Nat /\ delivered \in Nat /\ taken \in [Flusher -> Nat]

\* Where a flush thread stands, relative to what was accepted and delivered: a thread
\* about to take a text finds a newer one than the server has, and a thread that took
\* a text takes no other before a newer one is accepted.
ThreadInv(f) ==
  /\ pc[f] \in {"check", "wait"} => delivered < accepted
  /\ pc[f] = "send" => delivered < taken[f] /\ taken[f] <= accepted
  /\ pc[f] = "sent" => delivered <= taken[f] /\ taken[f] <= accepted
  /\ pc[f] \in {"send", "sent"} /\ pending # send[f] => taken[f] < accepted

OrderInv == HistoryTypeOK /\ delivered <= accepted /\ \A f \in Flusher : ThreadInv(f)

LEMMA InitOrderInv == InitH => OrderInv
  BY DEF InitH, Init, OrderInv, HistoryTypeOK, ThreadInv

\* The two things a collection does to the history: nothing, or one more acceptance.
LEMMA CollectCounts ==
  ASSUME TypeOK, HistoryTypeOK, CollectH
  PROVE  /\ UNCHANGED <<send, taken, delivered>>
         /\ \/ accepted' = accepted /\ UNCHANGED <<pc, pending>>
            \/ /\ accepted' = accepted + 1
               /\ \A f \in Flusher : pc'[f] = pc[f] \/ pc'[f] = "check"
  <1> PICK t \in Text, imm \in BOOLEAN : OnContextTextReady(t, imm, FALSE)
    BY DEF CollectH, Collect, CollectOnEdit, CollectOnCommit, CollectAfterEditKey
  <1>1. CASE t = lastSent /\ UNCHANGED <<debouncer, threads>>
    <2>1. ~Accepting
      BY <1>1 DEF Accepting, OnContextTextReady
    <2>2. accepted' = accepted
      BY <2>1 DEF CollectH, HistoryTypeOK
    <2> QED
      BY <1>1, <2>2 DEF CollectH, debouncer, threads
  <1>2. CASE t # lastSent /\ Accept(t, imm, FALSE)
    <2>1. Accepting
      BY <1>2 DEF Accepting, OnContextTextReady
    <2> QED
      BY <1>2, <2>1 DEF CollectH, Accept, EnsureFlusher, Spawn, TypeOK
  <1> QED
    BY <1>1, <1>2 DEF OnContextTextReady

LEMMA NextOrderInv == TypeOK /\ OneFlusher /\ OrderInv /\ [NextH]_dvars => OrderInv'
  <1> SUFFICES ASSUME TypeOK, OneFlusher, OrderInv, [NextH]_dvars PROVE OrderInv'
    OBVIOUS
  <1> USE DEF OrderInv, HistoryTypeOK
  <1>1. CASE CollectH
    BY <1>1, CollectCounts DEF ThreadInv, TypeOK
  <1>2. CASE ResetH
    BY <1>2 DEF ResetH, EditKey, FocusSwitch, Reset, threads, ThreadInv
  <1>3. ASSUME NEW f \in Flusher, FlushH(f)
        PROVE  OrderInv'
    <2>1. accepted' = accepted /\ delivered' = delivered /\ pending' = pending
      BY <1>3 DEF FlushH, Flush, FlushCheck, FlushWake, FlushDone, debouncer
    <2>2. taken' \in [Flusher -> Nat]
      BY <1>3 DEF FlushH
    <2>3. ASSUME NEW g \in Flusher, g # f
          PROVE  ThreadInv(g)'
      BY <1>3, <2>1, <2>3 DEF FlushH, Flush, FlushCheck, FlushWake, FlushDone, ThreadInv, TypeOK
    <2>4. ThreadInv(f)'
      <3>1. CASE FlushCheck(f)
        BY <1>3, <2>1, <3>1 DEF FlushH, FlushCheck, Starting, ThreadInv, TypeOK
      <3>2. CASE FlushWake(f)
        BY <1>3, <2>1, <3>2 DEF FlushH, FlushWake, Starting, ThreadInv, TypeOK
      <3>3. CASE FlushDone(f)
        BY <1>3, <2>1, <3>3 DEF FlushH, FlushDone, NothingNewer, Starting, ThreadInv, TypeOK
      <3> QED
        BY <1>3, <3>1, <3>2, <3>3 DEF FlushH, Flush
    <2> QED
      BY <2>1, <2>2, <2>3, <2>4
  <1>4. ASSUME NEW f \in Flusher, ServerSetH(f)
        PROVE  OrderInv'
    <2>1. \A g \in Flusher : g # f => pc[g] = "idle"
      BY <1>4 DEF ServerSetH, ServerSet, OneFlusher
    <2> QED
      BY <1>4, <2>1 DEF ServerSetH, ServerSet, debouncer, ThreadInv, TypeOK
  <1>5. ASSUME RecollectDenied \/ ServerReset \/ ResetFails, UNCHANGED history
        PROVE  OrderInv'
    BY <1>5 DEF RecollectDenied, ServerReset, ResetFails, debouncer, threads, history, ThreadInv
  <1>6. ASSUME NEW f \in Flusher, SetFails(f), UNCHANGED history
        PROVE  OrderInv'
    BY <1>6 DEF SetFails, debouncer, history, ThreadInv, TypeOK
  <1>7. CASE TickH
    BY <1>7 DEF TickH, Tick, ThreadInv
  <1>8. CASE UNCHANGED dvars
    BY <1>8 DEF dvars, vars, history, ThreadInv
  <1> QED
    BY <1>1, <1>2, <1>3, <1>4, <1>5, <1>6, <1>7, <1>8 DEF NextH

LEMMA OrderInvariance == SpecH => [](TypeOK /\ OneFlusher /\ OrderInv)
  <1>1. SpecH => []TypeOK
    BY StepsOfTheDebouncer, TypeCorrect, PTL
  <1>2. SpecH => []OneFlusher
    BY StepsOfTheDebouncer, AtMostOneFlusher, PTL
  <1> QED
    BY <1>1, <1>2, InitOrderInv, NextOrderInv, PTL DEF SpecH

LEMMA StepsImplementChannel ==
  TypeOK /\ OneFlusher /\ OrderInv /\ [NextH]_dvars
    => [Channel!Accept \/ Channel!Deliver]_<<accepted, delivered>>
  <1> SUFFICES ASSUME TypeOK, OneFlusher, OrderInv, [NextH]_dvars,
                      ~ UNCHANGED <<accepted, delivered>>
               PROVE  Channel!Accept \/ Channel!Deliver
    OBVIOUS
  <1>1. CASE CollectH
    BY <1>1, CollectCounts DEF OrderInv, Channel!Accept
  <1>2. ASSUME NEW f \in Flusher, ServerSetH(f)
        PROVE  Channel!Deliver
    BY <1>2 DEF ServerSetH, ServerSet, OrderInv, HistoryTypeOK, ThreadInv, Channel!Deliver
  <1>3. ~(ResetH \/ (\E f \in Flusher : FlushH(f)) \/ TickH \/ UNCHANGED history)
    BY DEF ResetH, FlushH, TickH, history
  <1>4. ~ UNCHANGED dvars
    BY <1>3 DEF dvars
  <1> QED
    BY <1>1, <1>2, <1>3, <1>4 DEF NextH

\* The detailed debouncer, with its clocks, flags, threads and failures, implements
\* the channel: messages arrive in order of acceptance, each acceptance at most once.
THEOREM ImplementsChannel == SpecH => AcceptedInOrder
  <1>1. InitH => Channel!Init
    BY DEF InitH, Channel!Init
  <1> QED
    BY <1>1, StepsImplementChannel, OrderInvariance, PTL
    DEF SpecH, AcceptedInOrder, Channel!Spec
=============================================================================
