--------------------------- MODULE ContextDelivery ---------------------------
(***************************************************************************)
(* ContextDebounce with history: which acceptance a message carries, how   *)
(* long the pending text has been pending, how long ago the last message   *)
(* was started.  The history variables are read by no action of the        *)
(* debouncer; they let the order and the pace of the messages be stated.   *)
(***************************************************************************)
EXTENDS ContextDebounce

CONSTANT MaxAccept   \* bound: texts accepted by the debouncer

ASSUME MaxAcceptAssumption == MaxAccept \in Nat

VARIABLES
  accepted,         \* number of the last text accepted
  taken,            \* number of the text each flush thread took to send
  delivered,        \* number of the text the server was handed last
  acceptedAtReset,  \* number of the last text accepted before the last reset was sent
  held,             \* ticks since the pending text was accepted, at most EmptyDelay
  sinceSend         \* ticks since the last message was started, at most EmptyDelay

history == <<accepted, taken, delivered, acceptedAtReset, held, sinceSend>>
dvars   == <<vars, history>>

Starting(f) == pc[f] = "check" /\ pc'[f] = "send"
Accepting   == textBeforeCaret' # lastSent

InitH ==
  /\ Init
  /\ accepted = 0
  /\ taken = [f \in Flusher |-> 0]
  /\ delivered = 0
  /\ acceptedAtReset = 0
  /\ held = EmptyDelay
  /\ sinceSend = EmptyDelay

\* a text is accepted when _OnContextTextReady does not return early
CollectH ==
  /\ Collect
  /\ accepted' = accepted + (IF Accepting THEN 1 ELSE 0)
  /\ accepted' <= MaxAccept
  /\ held' = IF Accepting THEN 0 ELSE held
  /\ UNCHANGED <<taken, delivered, acceptedAtReset, sinceSend>>

ResetH ==
  /\ EditKey \/ FocusSwitch
  /\ acceptedAtReset' = accepted
  /\ UNCHANGED <<accepted, taken, delivered, held, sinceSend>>

FlushH(f) ==
  /\ Flush(f)
  /\ taken' = [taken EXCEPT ![f] = IF Starting(f) THEN accepted ELSE taken[f]]
  /\ sinceSend' = IF Starting(f) THEN 0 ELSE sinceSend
  /\ UNCHANGED <<accepted, delivered, acceptedAtReset, held>>

ServerSetH(f) ==
  /\ ServerSet(f)
  /\ delivered' = taken[f]
  /\ UNCHANGED <<accepted, taken, acceptedAtReset, held, sinceSend>>

TickH ==
  /\ Tick
  /\ held' = Smaller(held + 1, EmptyDelay)
  /\ sinceSend' = Smaller(sinceSend + 1, EmptyDelay)
  /\ UNCHANGED <<accepted, taken, delivered, acceptedAtReset>>

NextH ==
  \/ CollectH
  \/ ResetH
  \/ \E f \in Flusher : FlushH(f) \/ ServerSetH(f)
  \/ /\ RecollectDenied \/ ServerReset \/ ResetFails \/ \E f \in Flusher : SetFails(f)
     /\ UNCHANGED history
  \/ TickH

SpecH == InitH /\ [][NextH]_dvars

------------------------------------------------------------------------------
Channel == INSTANCE ContextChannel WITH accepted <- accepted, delivered <- delivered

\* The messages reach the server in the order in which their texts were accepted,
\* each at most once, whatever the flush thread, the resets and the pipe do.
AcceptedInOrder == Channel!Spec

\* ThreadMgrEventSink.cpp:18 a window switch resets the server so that the old
\* window's text is not used for the new window: once the last reset is handled,
\* what the server holds was collected after the reset.
NoTextFromBeforeReset ==
  resets = 0 /\ serverText # Empty => delivered > acceptedAtReset

------------------------------------------------------------------------------
(* Promises of comments that the code does not keep, beyond the one above; the README *)
(* tells how.  They are stated for the reader and checked by no run.                 *)

\* ThreadMgrEventSink.cpp:34 "the server first clears the old, then receives the
\* new": while a reset is on its way no text collected after it has arrived.
ResetBeforeNewText == resets > 0 => delivered <= acceptedAtReset

\* WeaselTSF.cpp:476 "at most one message per 100 ms in a storm": a non-empty text
\* that no commit produced is not sent within NormalDelay of the last message.
AtMostOnePerDelay ==
  [][\A f \in Flusher :
       Starting(f) /\ pending # Empty /\ ~immediate => sinceSend >= NormalDelay]_dvars

\* WeaselTSF.cpp:477 "an empty text always waits 800 ms", for it is often transient:
\* when it is sent it has been the pending text for that long.
EmptyIsHeld ==
  [][\A f \in Flusher :
       Starting(f) /\ pending = Empty /\ ~fromEditReset => held >= EmptyDelay]_dvars
==============================================================================
