----------------------------- MODULE EngineCore -----------------------------
(***************************************************************************)
(* A librime engine's context under the keys of an editor: the input, the  *)
(* caret, and the composition the input is cut, translated and converted   *)
(* in (context.cc, composition.cc, engine.cc), under the handlers of       *)
(* editor.cc, speller.cc, selector.cc and navigator.cc.                    *)
(*                                                                         *)
(* The methods of Context are operators on a record                        *)
(*    input, caret   the text typed and the position in it                 *)
(*    active         the part of it last composed, up to the caret as a    *)
(*                   rule (Segmentation::input_)                           *)
(*    segs           the segments                                          *)
(*    sent           what this key committed: each time the input then     *)
(*                   composed, and the code of what was sent for it        *)
(* A candidate's text is named by the code it converts, so what is sent    *)
(* can be compared with what was typed.                                    *)
(***************************************************************************)
EXTENDS Segmentation

CONSTANTS
    Keys,        \* the characters that can be typed
    MaxInput,    \* the longest input explored
    Editors      \* the schemas: [auto_commit, auto_select |-> BOOLEAN]

Texts == UNION {[1..n -> Keys] : n \in 0..MaxInput}

ASSUME EngineAssumption ==
    /\ Alphabet \subseteq Keys
    /\ MaxInput \in Nat \ {0}
    /\ Editors \subseteq [auto_commit : BOOLEAN, auto_select : BOOLEAN]

(* A candidate converts some of the text it is made for, from its start.   *)
ASSUME CandidateAssumption ==
    \A text \in Texts : Lengths(text) \in Seq(1..Len(text))

(* Only letters are converted in part: the table and script translators    *)
(* answer for segments tagged abc (table_translator.cc:246,                *)
(* script_translator.cc:211), and the others convert all of their text.    *)
ASSUME PartAssumption ==
    \A text \in Texts : \A k \in DOMAIN Lengths(text) :
        Lengths(text)[k] < Len(text) => text \in Seq(Alphabet)

VARIABLES
    ctx,      \* the context
    editor,   \* the schema in use
    misfit    \* history: how candidates came to stand for a text they do not convert

vars == <<ctx, editor, misfit>>

Fresh == [input |-> <<>>, caret |-> 0, active |-> <<>>, segs |-> <<>>, sent |-> <<>>]

Concat(texts) == FlattenSeq(texts)
After(text, n) == SubSeq(text, n + 1, Len(text))

IsComposing(c) == c.input # <<>> \/ c.segs # <<>>
HasMenu(c) == c.segs # <<>> /\ Count(Last(c.segs)) > 0
WithLast(c, seg) == [c EXCEPT !.segs = Append(Front(c.segs), seg)]

-----------------------------------------------------------------------------
(* Engine::Compose, on every update of the context. *)

ResetTo(c, text) == [c EXCEPT !.segs = Reset(c.segs, c.active, text), !.active = text]

PastCaret(c) ==
    IF c.caret < Len(c.input) /\ c.caret = ConfirmedPosition(c.segs) THEN ResetTo(c, c.input) ELSE c
Convert(c) ==
    [c EXCEPT !.segs = TranslateSegments(CalculateSegmentation(@, c.active, c.caret), c.active)]
Compose(c) == Convert(PastCaret(ResetTo(c, SubSeq(c.input, 1, c.caret))))

(* The operations on the input.  The caret never stands past its end. *)
SetInput(c, text) == Compose([c EXCEPT !.input = text, !.caret = Len(text)])
SetCaret(c, p) == Compose([c EXCEPT !.caret = p])
PushInput(c, ch) ==
    Compose([c EXCEPT !.input = SubSeq(c.input, 1, c.caret) \o <<ch>> \o After(c.input, c.caret),
                      !.caret = @ + 1])
CanPop(c, n) == n <= c.caret
PopInput(c, n) ==
    Compose([c EXCEPT !.input = SubSeq(c.input, 1, c.caret - n) \o After(c.input, c.caret),
                      !.caret = @ - n])
CanDelete(c) == c.caret < Len(c.input)
DeleteInput(c) ==
    Compose([c EXCEPT !.input = SubSeq(c.input, 1, c.caret) \o After(c.input, c.caret + 1)])
Clear(c) == Compose([c EXCEPT !.input = <<>>, !.caret = 0, !.segs = <<>>])

-----------------------------------------------------------------------------
(* What a commit sends: the candidates' texts, the code of what has none,  *)
(* and what follows the last segment.                                      *)

SegmentEnd_Whole(seg) == seg.end
SegmentEnd(seg) == IF HasCandidate(seg) THEN CandidateEnd(seg) ELSE seg.end

CommitText(c) ==
    LET Piece(seg) == IF HasCandidate(seg) THEN Converted(seg) ELSE Covered(c.active, seg)
        end == IF c.segs = <<>> THEN 0 ELSE SegmentEnd(Last(c.segs))
    IN  Concat([i \in DOMAIN c.segs |-> Piece(c.segs[i])]) \o After(c.active, end)

ScriptText(c) ==
    LET From(i) == IF i = 1 THEN 0 ELSE SegmentEnd(c.segs[i - 1])
        Piece(i) == IF HasCandidate(c.segs[i]) THEN Converted(c.segs[i])
                    ELSE SubSeq(c.active, From(i) + 1, c.segs[i].end)
    IN  Concat([i \in DOMAIN c.segs |-> Piece(i)]) \o After(c.active, From(Len(c.segs) + 1))

(* a segment passed over although its candidate converts a part of it only *)
Loose(c) == \E i \in 1..Len(c.segs) - 1 : SegmentEnd(c.segs[i]) < c.segs[i].end
Sink(c, text) ==
    [c EXCEPT !.sent = Append(@, [typed |-> c.input, caret |-> c.caret, loose |-> Loose(c), text |-> text])]
Commit(c) == IF IsComposing(c) THEN Clear(Sink(c, CommitText(c))) ELSE c

-----------------------------------------------------------------------------
(* Choosing a candidate. *)

Forwarded(c) == [c EXCEPT !.segs = Forward(@)]
Confirmed(c) == WithLast(c, [Last(c.segs) EXCEPT !.status = kConfirmed])
OnClosed(c) ==
    IF Last(c.segs).end = Len(c.input)
    THEN IF editor.auto_commit THEN Commit(Confirmed(c)) ELSE Forwarded(Confirmed(c))
    ELSE IF Last(c.segs).end >= c.caret THEN SetCaret(Forwarded(c), Len(c.input))
    ELSE Compose(Forwarded(c))
OnSelect(c) == OnClosed(WithLast(c, Close(Last(c.segs))))

CanSelect(c, i) == c.segs # <<>> /\ i < Count(Last(c.segs))
Select(c, i) == OnSelect(WithLast(c, [Last(c.segs) EXCEPT !.index = i, !.status = kSelected]))

(* What is highlighted when candidate i is asked for. *)
HighlightIndex(c, i) == IF HasMenu(c) THEN Min({i, Count(Last(c.segs)) - 1}) ELSE 0
CanHighlight(c, i) == c.segs # <<>> /\ HighlightIndex(c, i) # Last(c.segs).index
Highlight(c, i) == Compose(WithLast(c, [Last(c.segs) EXCEPT !.index = HighlightIndex(c, i)]))

CanConfirm(c) == c.segs # <<>> /\ (HasCandidate(Last(c.segs)) \/ ~IsEmpty(Last(c.segs)))
Marked(c) == IF c.segs = <<>> THEN c ELSE WithLast(c, [Last(c.segs) EXCEPT !.status = kSelected])
ConfirmCurrentSelection(c) == IF CanConfirm(c) THEN OnSelect(Marked(c)) ELSE Marked(c)

-----------------------------------------------------------------------------
(* Going back on a choice.  The last segment chosen is marked when the     *)
(* input is edited after it, and is then no longer reopened as a choice.   *)

LastChosen(c) ==
    LET chosen == {i \in DOMAIN c.segs : c.segs[i].status >= kSelected}
    IN  IF chosen = {} THEN 0 ELSE Max(chosen)
ChosenOnly(c) == LastChosen(c) # 0 /\ c.segs[LastChosen(c)].status = kSelected

BeginEditing(c) ==
    IF ChosenOnly(c)
    THEN [c EXCEPT !.segs[LastChosen(c)].tags = @ \union {"selected_before_editing"}]
    ELSE c

CanReopenSegment(c) == CanTrim(c.segs)
ReopenLast(c) == IF c.segs = <<>> THEN c ELSE WithLast(c, Reopen(Last(c.segs), c.caret))
ReopenPreviousSegment(c) == Compose(ReopenLast([c EXCEPT !.segs = Trim(@)]))

CanReopenSelection(c) ==
    ChosenOnly(c) /\ "selected_before_editing" \notin c.segs[LastChosen(c)].tags
ReopenPreviousSelection(c) == Compose(ReopenLast([c EXCEPT !.segs = SubSeq(@, 1, LastChosen(c))]))

CanClearSegment(c) == c.segs # <<>> /\ Last(c.segs).start < Len(c.input)
ClearPreviousSegment(c) == SetInput(c, SubSeq(c.input, 1, Last(c.segs).start))

(* Segments not yet chosen are all at the end. *)
AllConfirmed(c) == LastChosen(c) = Len(c.segs)
ClearNonConfirmed(c) ==
    IF AllConfirmed(c) THEN c ELSE Forwarded([c EXCEPT !.segs = SubSeq(@, 1, LastChosen(c))])
Refresh(c) == IF AllConfirmed(c) THEN c ELSE Compose(ClearNonConfirmed(c))

-----------------------------------------------------------------------------
(* The speller's automatic selection, for a schema that has it without a   *)
(* maximal code length, and whose candidates are all table entries.        *)

Selectable(seg, n) == HasCandidate(seg) /\ CandidateEnd(seg) = n

(* Split the input at the longest part, shorter than end, whose candidate  *)
(* converts all of it, and go on in what is left.  A search stands at the  *)
(* part of input that ends at end, or is done.                             *)
Search(c, start, end) ==
    [c |-> c, input |-> c.input, start |-> start, end |-> end - 1, done |-> end <= start + 1]
Done(search, c) == [search EXCEPT !.c = c, !.done = TRUE]
Again(search, c, start) ==
    IF ~HasMenu(c) /\ CurrentStart(c.segs) = start
    THEN Search(c, start, CurrentEnd(c.segs)) ELSE Done(search, c)
Tried(search, c) ==
    IF ~HasMenu(c) THEN Done(search, SetInput(c, search.input))
    ELSE IF ~Selectable(Last(c.segs), search.end) THEN [search EXCEPT !.c = c, !.end = @ - 1]
    ELSE IF editor.auto_commit THEN Again(search, SetInput(Commit(c), After(search.input, search.end)), 0)
    ELSE Again(search, SetInput(ConfirmCurrentSelection(c), search.input), search.end)
TryMatch(search) ==
    IF search.done THEN search
    ELSE IF search.end <= search.start THEN Done(search, SetInput(search.c, search.input))
    ELSE Tried(search, SetInput(search.c, SubSeq(search.input, 1, search.end)))
(* Each part tried is shorter, and each search is in a shorter rest. *)
MaxTries == (MaxInput + 1) * (MaxInput + 1)
Searches(c, start, end) ==
    LET searches[n \in Nat] == IF n = 0 THEN Search(c, start, end) ELSE TryMatch(searches[n - 1])
    IN  searches
FindEarlierMatch(c, start, end) == Searches(c, start, end)[MaxTries].c

ReuseMatch_DropsRest(c, seg) ==
    IF editor.auto_commit
    THEN Commit(SetInput(ConfirmCurrentSelection(WithLast(c, seg)), SubSeq(c.input, 1, seg.end)))
    ELSE ConfirmCurrentSelection(WithLast(c, seg))
ReuseMatch(c, seg) ==
    IF editor.auto_commit
    THEN SetInput(Commit(SetInput(ConfirmCurrentSelection(WithLast(c, seg)), SubSeq(c.input, 1, seg.end))),
                  After(c.input, seg.end))
    ELSE ConfirmCurrentSelection(WithLast(c, seg))

(* previous: the last segment before the key. *)
AutoSelectPreviousMatch(c, previous) ==
    IF Selectable(previous, previous.end) THEN ReuseMatch(c, previous)
    ELSE FindEarlierMatch(c, previous.start, previous.end)

AutoSelectUnique(c) ==
    IF HasMenu(c) /\ Count(Last(c.segs)) = 1 /\ Selectable(Last(c.segs), Len(c.input))
    THEN ConfirmCurrentSelection(c) ELSE c

(* c: the context before the key. *)
Matched(pushed, c) ==
    IF HasMenu(pushed) \/ ~HasMenu(c) THEN pushed
    ELSE AutoSelectPreviousMatch(pushed, Last(c.segs))
Pushed(pushed, c) ==
    IF editor.auto_select THEN AutoSelectUnique(Matched(pushed, c)) ELSE pushed
Spell(c, ch) == Pushed(BeginEditing(PushInput(c, ch)), c)

-----------------------------------------------------------------------------
(* The handlers of the keys, each on a context whose last commit has been  *)
(* fetched. *)

(* A composition whose candidates do not fit its text is followed no       *)
(* further than to its end.                                                *)
Fits == misfit = {}
Now == [ctx EXCEPT !.sent = <<>>]
Misplaced(ch) ==
    LET pushed == BeginEditing(PushInput(Now, ch))
    IN  /\ editor.auto_select /\ ~HasMenu(pushed) /\ HasMenu(ctx)
        /\ Selectable(Last(ctx.segs), Last(ctx.segs).end)
        /\ Last(ctx.segs).end > ctx.caret \/ CurrentStart(pushed.segs) # CurrentStart(ctx.segs)
(* choices reopened with candidates that were not made for their text:     *)
(* the text has changed since, or was cut shorter when they were made      *)
Outdated(c) ==
    {c.segs[i] : i \in {i \in DOMAIN ctx.segs \cap DOMAIN c.segs :
        /\ ctx.segs[i].status >= kSelected /\ c.segs[i].status = kGuess
        /\ c.segs[i].menu # Covered(c.active, c.segs[i])}}
WhyOutdated(seg) == IF Len(seg.menu) = seg.length THEN "edited" ELSE "recut"
Becomes(c) ==
    /\ Fits
    /\ ctx' = c
    /\ UNCHANGED editor
    /\ misfit' = {WhyOutdated(seg) : seg \in Outdated(c)}

SpellKey(ch) ==
    /\ Fits /\ ch \in Alphabet /\ Len(ctx.input) < MaxInput
    /\ ctx' = Spell(Now, ch)
    /\ misfit' = {m \in {"reused"} : Misplaced(ch)}
    /\ UNCHANGED editor
(* direct_commit or add_to_input *)
CharKey(ch) ==
    /\ ch \notin Alphabet /\ Len(ctx.input) < MaxInput
    /\ Becomes(IF editor.auto_commit THEN Commit(Now) ELSE BeginEditing(PushInput(Now, ch)))

Confirm(c) == IF CanConfirm(c) THEN ConfirmCurrentSelection(c) ELSE Commit(Marked(c))
CommitUnlessOpen(c, confirmed) == IF confirmed /\ HasMenu(c) THEN c ELSE Commit(c)
CommitComposition(c) == CommitUnlessOpen(ConfirmCurrentSelection(c), CanConfirm(c))
ToggleSelection(c) ==
    IF CanReopenSegment(c) THEN ReopenPreviousSegment(c) ELSE ConfirmCurrentSelection(c)
CommitRawInput(c) == Commit(ClearNonConfirmed(c))
CommitScriptText(c) == Clear(Sink(c, ScriptText(c)))
ReopenIfEmpty(c) == IF CanReopenSegment(c) THEN ReopenPreviousSegment(c) ELSE c
PopThenReopen(c, n) == IF CanPop(c, n) THEN ReopenIfEmpty(PopInput(c, n)) ELSE c
RevertLastEdit(c, n) ==
    IF CanReopenSelection(c) THEN ReopenPreviousSelection(c) ELSE PopThenReopen(c, n)
BackToPreviousInput(c) ==
    IF CanReopenSegment(c) THEN ReopenPreviousSegment(c)
    ELSE IF CanReopenSelection(c) THEN ReopenPreviousSelection(c)
    ELSE IF CanPop(c, 1) THEN PopInput(c, 1) ELSE c
DeleteChar(c) == IF CanDelete(c) THEN DeleteInput(c) ELSE c
CancelComposition(c) == IF CanClearSegment(c) THEN ClearPreviousSegment(c) ELSE Clear(c)

(* The editor's keys, while composing.  A syllable ends anywhere.          *)
EditorKey ==
    /\ IsComposing(ctx)
    /\ \/ Becomes(Confirm(Now))
       \/ Becomes(CommitComposition(Now))
       \/ Becomes(ToggleSelection(Now))
       \/ Becomes(CommitRawInput(Now))
       \/ Becomes(CommitScriptText(Now))
       \/ \E n \in 1..MaxInput : Becomes(RevertLastEdit(Now, n))
       \/ Becomes(BackToPreviousInput(Now))
       \/ Becomes(DeleteChar(Now))
       \/ Becomes(CancelComposition(Now))

(* The navigator's keys, to any place. *)
Move(p) ==
    /\ IsComposing(ctx) /\ p <= Len(ctx.input)
    /\ LET c == BeginEditing(Now)
       IN  Becomes(IF p = c.caret THEN c ELSE SetCaret(c, p))

SelectKey(i) == CanSelect(ctx, i) /\ Becomes(Select(Now, i))
HighlightKey(i) == CanHighlight(ctx, i) /\ Becomes(Highlight(Now, i))

(* An option that changes, or an entry deleted from the user dictionary.   *)
OptionUpdate == IsComposing(ctx) /\ Becomes(Refresh(Now))
(* Ascii mode switched in the style commit_text. *)
SwitchCommitText == IsComposing(ctx) /\ Becomes(Refresh(ConfirmCurrentSelection(Now)))

(* The session's calls. *)
CommitCall == Becomes(Commit(Now))
ClearCall == ctx' = Clear(Now) /\ misfit' = {} /\ UNCHANGED editor
ApplySchema == ctx' = Clear(Now) /\ editor' \in Editors /\ misfit' = {}

-----------------------------------------------------------------------------
Init == ctx = Fresh /\ editor \in Editors /\ misfit = {}

Next ==
    \/ \E ch \in Keys : SpellKey(ch) \/ CharKey(ch)
    \/ EditorKey
    \/ \E p \in 0..MaxInput : Move(p)
    \/ \E i \in 0..MaxInput : SelectKey(i) \/ HighlightKey(i)
    \/ OptionUpdate \/ SwitchCommitText
    \/ CommitCall \/ ClearCall \/ ApplySchema

Spec == Init /\ [][Next]_vars

-----------------------------------------------------------------------------
(* The context keeps its type, and its caret never stands outside the      *)
(* input, whatever handlers move, pop, delete or replace (context.cc:58).  *)
TypeOK ==
    /\ ctx.input \in Texts /\ ctx.active \in Texts
    /\ ctx.caret \in 0..Len(ctx.input)
    /\ \A i \in DOMAIN ctx.segs : ctx.segs[i].status \in kVoid..kConfirmed
    /\ editor \in Editors
    /\ misfit \subseteq {"reused", "edited", "recut"}

(* After every key the context has its type, the segments lie end to end   *)
(* from the start of what was composed, none but the last is empty, and    *)
(* they reach the caret at least: nothing typed before the caret is left   *)
(* out of the composition.                                                 *)
Tiled == TypeOK /\ (Fits =>
    /\ \A i \in DOMAIN ctx.segs :
        /\ ctx.segs[i].start = IF i = 1 THEN 0 ELSE ctx.segs[i - 1].end
        /\ IsEmpty(ctx.segs[i]) => i = Len(ctx.segs)
    /\ CurrentEnd(ctx.segs) \in ctx.caret..Len(ctx.active)
    /\ ctx.active \in {ctx.input, SubSeq(ctx.input, 1, ctx.caret)})

(* A candidate shown or chosen converts the very characters it stands for: *)
(* no edit leaves a segment with the candidates of an earlier text, short  *)
(* of the three ways misfit names.                                         *)
ShownIsTyped == Fits =>
    \A i \in DOMAIN ctx.segs : HasCandidate(ctx.segs[i]) =>
        /\ CandidateEnd(ctx.segs[i]) <= Len(ctx.active)
        /\ Converted(ctx.segs[i]) = SubSeq(ctx.active, ctx.segs[i].start + 1, CandidateEnd(ctx.segs[i]))

(* A commit sends every character typed, each once and in order, converted *)
(* or not - unless the caret stands inside the input, when what follows it *)
(* is dropped, or a segment was passed over with a candidate for a part of *)
(* it only (composition.cc:102, context.cc:18).                            *)
CommittedInFull == Fits =>
    \A i \in DOMAIN ctx.sent :
        LET s == ctx.sent[i]
        IN  s.caret = Len(s.typed) /\ ~s.loose => s.text = s.typed

Shape(c) == [i \in DOMAIN c.segs |->
                [start |-> c.segs[i].start, end |-> c.segs[i].end, menu |-> c.segs[i].menu]]

(* A candidate chosen at the end of the input and taken back at once       *)
(* leaves the composition as it was, cut and translated the same way, with *)
(* the choice still highlighted: ReopenPreviousSelection undoes Select.    *)
UndoRestores ==
    \A i \in 0..MaxInput :
        LET chosen == Select(Now, i)
            undone == ReopenPreviousSelection(chosen)
        IN  /\ Fits /\ CanSelect(ctx, i) /\ ctx.caret = Len(ctx.input)
            /\ chosen.input # <<>> /\ CanReopenSelection(chosen)
            => /\ Shape(undone) = Shape(ctx) /\ undone.input = ctx.input
               /\ OriginalEnd(Last(ctx.segs)) = ctx.caret => Last(undone.segs).index = i

(* A letter typed anywhere is never lost, and neither is a letter already  *)
(* there: what automatic selection commits, with what it leaves in the     *)
(* input, is the text with the letter at the caret (speller.cc:189).       *)
TypingConserves ==
    \A ch \in Alphabet :
        LET c == Spell(Now, ch)
        IN  Fits /\ Len(ctx.input) < MaxInput /\ ~Misplaced(ch) =>
                Concat([i \in DOMAIN c.sent |-> c.sent[i].text]) \o c.input
                  = SubSeq(ctx.input, 1, ctx.caret) \o <<ch>> \o After(ctx.input, ctx.caret)

Lengthened == Len(ctx'.input) > Len(ctx.input)
CaretMoved == ctx'.input = ctx.input /\ ctx'.caret # ctx.caret
Chosen(seg) == seg.status >= kSelected /\ ~IsEmpty(seg) /\ "raw" \notin seg.tags
Choice(seg) == <<seg.status, seg.start, seg.end, seg.menu, seg.index>>

(* Typing on and moving the caret, although both cut and translate the     *)
(* input anew, keep every choice made before the caret.                    *)
ChoicesKept ==
    [][Fits' /\ ctx'.sent = <<>> /\ (Lengthened \/ CaretMoved) =>
        \A i \in DOMAIN ctx.segs :
            Chosen(ctx.segs[i]) /\ ctx.segs[i].end <= Min({ctx.caret, ctx'.caret}) =>
                i \in DOMAIN ctx'.segs /\ Choice(ctx'.segs[i]) = Choice(ctx.segs[i])]_vars

(* context.cc:231: "do not reopen the previous selection after editing     *)
(* input."  The code marks the last choice only, and none at all when a    *)
(* confirmed segment comes first, so that an earlier choice is reopened    *)
(* with the candidates of the text before the edit.                        *)
NoReopenAfterEditing == "edited" \notin misfit
=============================================================================
