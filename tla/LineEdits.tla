----------------------------- MODULE LineEdits -----------------------------
(***************************************************************************)
(* The line arithmetic of change.edit.  A batch step carries line_edits,   *)
(* records that name 1-based lines of the file; services/batch/executor.ts *)
(* renumbers them, and the backend (src-tauri/src/lib.rs) applies them to  *)
(* the text one after the other.                                           *)
(*                                                                         *)
(* A file is the sequence of its lines and a line is only an identity.  An *)
(* edit is a record [action, line, end, dest, new, id]: end and dest are 0 *)
(* when the request leaves end_line and destination out, new is the number *)
(* of lines of content, and id tells the content of one edit from that of  *)
(* another.  Symbol anchors, "end" and replace_body (whose span the        *)
(* backend finds in the text) are left out, and prepend and append are the *)
(* same as insert_before and insert_after.                                 *)
(***************************************************************************)
EXTENDS Integers, Sequences, FiniteSets, Functions, SequencesExt

AtLeast(low, x) == IF x < low THEN low ELSE x
AtMost(high, x) == IF x > high THEN high ELSE x

-----------------------------------------------------------------------------
(* What the executor computes                                              *)

\* Only a positive line takes part in the renumbering.
snapshotLineForRebase(e) == AtLeast(0, e.line)

\* Number of lines an edit spans, its own line when end_line is missing.
effectiveLineSpanCount(e) ==
    IF e.end # 0 /\ e.line > 0 THEN AtLeast(0, e.end - e.line + 1) ELSE 1

\* Net change of the number of lines.
computeSingleEditNetDelta(e) ==
    CASE e.action \in {"insert_before", "insert_after"} -> e.new
      [] e.action = "delete"  -> -effectiveLineSpanCount(e)
      [] e.action = "replace" -> e.new - effectiveLineSpanCount(e)
      [] OTHER -> 0

\* Where a moved block of the given span ends up, counted after its removal.
effectiveDest(e, line) ==
    IF e.dest > line THEN e.dest - effectiveLineSpanCount(e) ELSE e.dest

\* Mutant: an insertion before a line leaves that line where it is.
intraStepShiftStrict(e, snapLine, target) ==
    CASE e.action = "move" ->
           IF e.dest <= 0 THEN 0 ELSE
           (IF snapLine < target THEN -effectiveLineSpanCount(e) ELSE 0)
             + (IF effectiveDest(e, snapLine) < target THEN effectiveLineSpanCount(e) ELSE 0)
      [] OTHER ->
           IF snapLine < target THEN computeSingleEditNetDelta(e) ELSE 0

\* How far edit e, at line snapLine of the file as read, shifts the line
\* target of a later edit of the same step.
intraStepShiftFromEdit(e, snapLine, target) ==
    CASE e.action = "move" ->
           IF e.dest <= 0 THEN 0 ELSE
           (IF snapLine < target THEN -effectiveLineSpanCount(e) ELSE 0)
             + (IF effectiveDest(e, snapLine) < target THEN effectiveLineSpanCount(e) ELSE 0)
      [] e.action = "insert_before" ->
           IF snapLine <= target THEN computeSingleEditNetDelta(e) ELSE 0
      [] OTHER ->
           IF snapLine < target THEN computeSingleEditNetDelta(e) ELSE 0

\* Mutant: the edits of a step run in the order the step lists them.
AsListed(edits) == edits

\* The edits of a step in order of their lines, those of one line in the
\* order the step lists them, and those without a positive line at the end.
InLineOrder(edits) ==
    LET Line(i) == snapshotLineForRebase(edits[i])
        Before(i, j) == \/ Line(j) = 0 /\ Line(i) # 0
                        \/ Line(i) < Line(j) /\ Line(i) # 0
                        \/ Line(i) = Line(j) /\ i < j
        order == CHOOSE p \in Bijection(DOMAIN edits, DOMAIN edits) :
                   \A k, l \in DOMAIN edits : k < l => Before(p[k], p[l])
    IN [k \in DOMAIN edits |-> edits[order[k]]]

\* The edits of one step all name lines of the file as it was before the
\* step; each is renumbered for the file that the earlier ones leave.  The
\* shift of an earlier edit is computed from its renumbered form.
rebaseIntraStepSnapshotLineEdits(edits) ==
    LET snap == InLineOrder(edits)
        rewritten[i \in DOMAIN snap] ==
            LET Shift(target) ==
                  SumFunction([j \in {k \in 1..(i-1) : snap[k].line > 0} |->
                                 intraStepShiftFromEdit(rewritten[j], snap[j].line, target)])
                Moved(target) == IF target > 0 THEN target + Shift(target) ELSE target
            IN IF snap[i].line <= 0 THEN snap[i]
               ELSE [snap[i] EXCEPT !.line = Moved(@), !.end = Moved(@), !.dest = Moved(@)]
    IN rewritten

\* The backend reports which line each edit resolved to and how many lines
\* it took; what the request left out is filled in from that report.
backfillLinesFromResolved(edits, resolved) ==
    LET WithLine(i) == IF edits[i].line > 0 THEN edits[i]
                       ELSE [edits[i] EXCEPT !.line = resolved[i].line]
    IN [i \in DOMAIN edits |->
          IF edits[i].action \in {"replace", "delete"} /\ edits[i].end <= 0 /\ resolved[i].affected > 0
          THEN [WithLine(i) EXCEPT !.end = WithLine(i).line + resolved[i].affected - 1]
          ELSE WithLine(i)]

\* The shifts a finished step causes, at lines of the file before the step:
\* the sequential line of an edit less what the edits before it added.
computePositionalDeltas(edits) ==
    LET cumulative(i) == SumFunction([j \in 1..(i-1) |-> computeSingleEditNetDelta(edits[j])])
        Delta(line, delta, inclusive) ==
            IF delta # 0 /\ line > 0
            THEN <<[line |-> line, delta |-> delta, lineInclusive |-> inclusive]>>
            ELSE <<>>
        deltasOf(i) ==
            LET e == edits[i]
                span == effectiveLineSpanCount(e)
                Original(line) == IF line > 0 THEN line - cumulative(i) ELSE 0
            IN IF e.action # "move"
               THEN Delta(Original(e.line), computeSingleEditNetDelta(e), e.action = "insert_before")
               ELSE IF e.line <= 0 \/ e.dest <= 0 THEN <<>>
               ELSE Delta(Original(e.line), -span, FALSE)
                      \o Delta(Original(effectiveDest(e, e.line)), span, FALSE)
    IN FlattenSeq([i \in DOMAIN edits |-> deltasOf(i)])

\* Whether a shift moves the line target.
Applies(d, target) == IF d.lineInclusive THEN d.line <= target ELSE d.line < target

\* The line target of the file before a step, as the file after it.
Shifted(target, deltas) ==
    target + SumFunction([k \in DOMAIN deltas |->
                            IF Applies(deltas[k], target) THEN deltas[k].delta ELSE 0])

\* A later edit of the same file is shifted, a line it leaves out is not.
applyDeltasToLineEdit(e, deltas) ==
    LET Moved(target) == IF target > 0 THEN Shifted(target, deltas) ELSE target
    IN [e EXCEPT !.line = Moved(@), !.end = Moved(@), !.dest = Moved(@)]

\* So is the range of a later read, which never starts before line 1 nor
\* ends before it starts.
rebaseReadOpLineParams(e, deltas) ==
    LET start == AtLeast(1, Shifted(e.line, deltas))
    IN [e EXCEPT !.line = start, !.end = AtLeast(start, Shifted(@, deltas))]

\* Mutant: only the next step is renumbered.
rebaseNextStep(steps, deltas) ==
    [s \in DOMAIN steps |->
        [k \in DOMAIN steps[s] |->
            IF s > 1 THEN steps[s][k]
            ELSE IF steps[s][k].action = "read"
            THEN rebaseReadOpLineParams(steps[s][k], deltas)
            ELSE applyDeltasToLineEdit(steps[s][k], deltas)]]

\* All the steps still to run are renumbered.
rebaseSubsequentSteps(steps, deltas) ==
    [s \in DOMAIN steps |->
        [k \in DOMAIN steps[s] |->
            IF steps[s][k].action = "read"
            THEN rebaseReadOpLineParams(steps[s][k], deltas)
            ELSE applyDeltasToLineEdit(steps[s][k], deltas)]]

-----------------------------------------------------------------------------
(* What the backend does                                                   *)

\* The lines that the content of an edit consists of.
Content(e, n) == [i \in 1..n |-> <<e.id, i>>]

\* f with the lines from, from+1, ..., from+count-1 replaced by the lines of
\* text.
Splice(f, from, count, text) ==
    SubSeq(f, 1, from - 1) \o text \o SubSeq(f, from + count, Len(f))

\* A negative line counts from the end.
resolve_single_edit_line(line, f) == IF line < 0 THEN Len(f) + 1 + line ELSE line

\* An edit is refused when its line, its end or its destination is not one
\* the request can carry, or the line is out of range.
Acceptable(e, f) ==
    /\ e.line # 0
    /\ resolve_single_edit_line(e.line, f) \in 1..(Len(f) + 1)
    /\ e.end >= 0
    /\ IF e.action = "move" THEN e.dest > 0 ELSE e.dest >= 0

\* The effect of one edit.  When the last line of a replacement repeats the
\* line below the span, the backend takes that line too, so that it is not
\* doubled: here overlap is 1, the line stays and the replacement is one
\* line shorter.  (The backend looks at up to eight lines, one is enough to
\* tell what the executor makes of it.)
ApplyEdit(e, overlap, f) ==
    LET line == resolve_single_edit_line(e.line, f)
        span == IF e.end # 0 THEN AtLeast(0, e.end - line + 1) ELSE 1
        taken == AtMost(AtLeast(0, Len(f) - line + 1), span)
        block == SubSeq(f, line, line + taken - 1)
        rest == Splice(f, line, taken, <<>>)
        at == AtMost(Len(rest) + 1, IF e.dest > line THEN AtLeast(1, e.dest - span) ELSE e.dest)
    IN CASE e.action = "insert_before" -> Splice(f, line, 0, Content(e, e.new))
         [] e.action = "insert_after" ->
              Splice(f, AtMost(Len(f), line) + 1, 0, Content(e, e.new))
         [] e.action = "delete"  -> rest
         [] e.action = "replace" -> Splice(f, line, taken, Content(e, e.new - overlap))
         [] e.action = "move"    -> Splice(rest, at, 0, block)

\* Whether the text may be such that the backend finds an overlap.
MayOverlap(e, f) ==
    /\ e.action = "replace"
    /\ e.new > 0
    /\ resolve_single_edit_line(e.line, f) + effectiveLineSpanCount(e) \in DOMAIN f

\* The files in between: after 0, 1, ... edits.
Stages(edits, overlap, f) ==
    LET stage[i \in 0..Len(edits)] ==
          IF i = 0 THEN f ELSE ApplyEdit(edits[i], overlap[i], stage[i-1])
    IN stage

\* The edits are applied in order, and all of them or none.
Accepted(edits, overlap, f) ==
    \A i \in DOMAIN edits :
        LET g == Stages(edits, overlap, f)[i-1] IN
        Acceptable(edits[i], g) /\ (overlap[i] = 0 \/ MayOverlap(edits[i], g))

apply_line_edits(edits, overlap, f) == Stages(edits, overlap, f)[Len(edits)]

\* What the backend reports of each edit.
EditResolutions(edits, overlap, f) ==
    [i \in DOMAIN edits |->
        [line |-> resolve_single_edit_line(edits[i].line, Stages(edits, overlap, f)[i-1]),
         affected |-> IF edits[i].action \in {"insert_before", "insert_after"} THEN edits[i].new
                      ELSE effectiveLineSpanCount(edits[i]) + overlap[i]]]
=============================================================================
