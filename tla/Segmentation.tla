---------------------------- MODULE Segmentation ----------------------------
(***************************************************************************)
(* The segments a composition is cut into (librime segmentation.cc) and    *)
(* the two segmentors every schema ends with, abc and fallback.            *)
(*                                                                         *)
(* A text is a sequence of characters.  Positions count characters: the    *)
(* segment [start, end) covers SubSeq(text, start + 1, end).  A menu is    *)
(* named by the text it was translated from: its candidates are the        *)
(* lengths Lengths(menu) of the parts of that text they convert, best      *)
(* first.  <<>> is the menu without candidates, or none at all.            *)
(***************************************************************************)
EXTENDS Integers, Sequences, FiniteSets, SequencesExt

CONSTANTS
    Alphabet,     \* the characters the abc segmentor takes for letters
    Lengths(_)    \* the translators: the lengths of a text's candidates

(* Segment::Status *)
kVoid == 0
kGuess == 1
kSelected == 2
kConfirmed == 3

NewSegment(from, to, tags) ==
    [status |-> kVoid, start |-> from, end |-> to, length |-> to - from,
     tags |-> tags, menu |-> <<>>, index |-> 0]

Covered(text, seg) == SubSeq(text, seg.start + 1, seg.end)
IsEmpty(seg) == seg.start = seg.end
Count(seg) == Len(Lengths(seg.menu))
HasCandidate(seg) == seg.index < Count(seg)
CandidateLength(seg) == Lengths(seg.menu)[seg.index + 1]
CandidateEnd(seg) == seg.start + CandidateLength(seg)
(* the part of the text the selected candidate converts *)
Converted(seg) == SubSeq(seg.menu, 1, CandidateLength(seg))

Close(seg) ==
    IF HasCandidate(seg) /\ CandidateEnd(seg) < seg.end
    THEN [seg EXCEPT !.end = CandidateEnd(seg), !.tags = @ \union {"partial"}]
    ELSE seg

OriginalEnd(seg) == seg.start + seg.length

Reopen_KeepsEnd(seg, caret) ==
    IF seg.status < kSelected THEN seg
    ELSE IF OriginalEnd(seg) # caret THEN [seg EXCEPT !.status = kVoid]
    ELSE [seg EXCEPT !.status = kGuess]
Reopen(seg, caret) ==
    IF seg.status < kSelected THEN seg
    ELSE IF OriginalEnd(seg) # caret THEN [seg EXCEPT !.status = kVoid]
    ELSE IF seg.end < OriginalEnd(seg)
         THEN [seg EXCEPT !.status = kGuess, !.end = OriginalEnd(seg), !.tags = @ \ {"partial"}]
         ELSE [seg EXCEPT !.status = kGuess]

-----------------------------------------------------------------------------
(* The operations on a sequence of segments. *)

CurrentStart(segs) == IF segs = <<>> THEN 0 ELSE Last(segs).start
CurrentEnd(segs) == IF segs = <<>> THEN 0 ELSE Last(segs).end
HasFinished(segs, text) == CurrentEnd(segs) >= Len(text)

ConfirmedPosition(segs) ==
    LET chosen == {i \in DOMAIN segs : segs[i].status >= kSelected}
    IN  IF chosen = {} THEN 0 ELSE segs[Max(chosen)].end

Forward(segs) ==
    IF segs = <<>> \/ IsEmpty(Last(segs)) THEN segs
    ELSE Append(segs, NewSegment(Last(segs).end, Last(segs).end, {}))

CanTrim(segs) == segs # <<>> /\ IsEmpty(Last(segs))
Trim(segs) == IF CanTrim(segs) THEN Front(segs) ELSE segs

AddSegment(segs, seg) ==
    IF seg.start # CurrentStart(segs) THEN segs
    ELSE IF segs = <<>> THEN <<seg>>
    ELSE IF Last(segs).end > seg.end THEN segs
    ELSE IF Last(segs).end < seg.end THEN Append(Front(segs), seg)
    ELSE Append(Front(segs), [Last(segs) EXCEPT !.tags = @ \union seg.tags])

(* The segments left when text replaces old: those that end within what    *)
(* both begin with; an empty one follows when some were dropped.           *)
Kept(old, text) ==
    Max({n \in 0..Len(old) : n <= Len(text) /\ SubSeq(old, 1, n) = SubSeq(text, 1, n)})
Dropped(segs, n) == IF n = Len(segs) THEN segs ELSE Forward(SubSeq(segs, 1, n))
Reset_ByStart(segs, old, text) ==
    LET kept == Kept(old, text)
    IN  Dropped(segs, Max({n \in 0..Len(segs) : n = 0 \/ segs[n].start <= kept}))
Reset_Strict(segs, old, text) ==
    LET kept == Kept(old, text)
    IN  Dropped(segs, Max({n \in 0..Len(segs) : n = 0 \/ segs[n].end < kept}))
Reset(segs, old, text) ==
    LET kept == Kept(old, text)
    IN  Dropped(segs, Max({n \in 0..Len(segs) : n = 0 \/ segs[n].end <= kept}))

-----------------------------------------------------------------------------
(* The segmentors, and the rounds in which they are asked. *)

AbcProceed(segs, text) ==
    LET j == CurrentStart(segs)
        run == Max({j} \union {k \in j + 1..Len(text) : \A i \in j + 1..k : text[i] \in Alphabet})
    IN  IF run = j THEN segs ELSE AddSegment(segs, NewSegment(j, run, {"abc"}))

FallbackProceed(segs, text) ==
    LET k == CurrentStart(segs)
        rest == Trim(segs)
    IN  IF CurrentEnd(segs) > k \/ k = Len(text) THEN segs
        ELSE IF rest # <<>> /\ "raw" \in Last(rest).tags
        THEN Append(Front(rest), [NewSegment(Last(rest).start, k + 1, {"raw"})
                                    EXCEPT !.length = Last(rest).length])
        ELSE AddSegment(Forward(rest), NewSegment(k, k + 1, {"raw"}))

(* The rounds of CalculateSegmentation.  Each begins further on than the   *)
(* one before, so that there are no more than the text has characters.     *)
AfterRound(start, segs, text, caret) ==
    IF start = CurrentEnd(segs) \/ start >= caret \/ HasFinished(segs, text)
    THEN [segs |-> segs, more |-> FALSE]
    ELSE [segs |-> Forward(segs), more |-> TRUE]
NextRound(round, text, caret) ==
    IF ~round.more THEN round
    ELSE AfterRound(CurrentStart(round.segs), FallbackProceed(AbcProceed(round.segs, text), text), text, caret)
Rounds(segs, text, caret) ==
    LET rounds[n \in Nat] ==
            IF n = 0 THEN [segs |-> segs, more |-> ~HasFinished(segs, text)]
            ELSE NextRound(rounds[n - 1], text, caret)
    IN  rounds
Segmented(segs, text, caret) == Rounds(segs, text, caret)[Len(text)].segs

ForwardIfChosen(segs) ==
    IF segs # <<>> /\ Last(segs).status >= kSelected THEN Forward(segs) ELSE segs
CalculateSegmentation(segs, text, caret) == ForwardIfChosen(Trim(Segmented(segs, text, caret)))

TranslateSegments(segs, text) ==
    [i \in DOMAIN segs |->
        IF segs[i].status >= kGuess THEN segs[i]
        ELSE [segs[i] EXCEPT !.status = kGuess, !.menu = Covered(text, segs[i]), !.index = 0]]
=============================================================================
