---------------------------- MODULE LineRebase ----------------------------
(***************************************************************************)
(* The steps of one batch that edit or read one file.  The language model  *)
(* writes all of them against the file it has read, so every line number   *)
(* of the batch is one of that file.  executeUnifiedBatch                  *)
(* (services/batch/executor.ts) runs the steps in order: it renumbers the  *)
(* edits of the step, has them applied, and shifts the line numbers of the *)
(* steps to come.  The backend applies an edit at its line: the steps      *)
(* carry the hash of the current file, which the executor puts into them.  *)
(*                                                                         *)
(* authored and applied are history: the pending steps as they were        *)
(* written, and the edits that took effect, in that form.                  *)
(***************************************************************************)
EXTENDS LineEdits

CONSTANTS
    FileLines,  \* lines of the file the model has read
    MaxEdits,   \* edits and reads of a batch
    MaxNew,     \* lines of content of an edit
    Actions,    \* kinds of edits the batch uses
    SharedLines, \* whether edits of one step may name the same line in any order
    Overlapping \* whether replacements may repeat the lines below them

ASSUME LineRebaseAssumption ==
    /\ FileLines \in Nat \ {0} /\ MaxEdits \in Nat \ {0} /\ MaxNew \in Nat \ {0}
    /\ Actions \subseteq {"insert_before", "insert_after", "replace", "delete", "move", "read"}
    /\ SharedLines \in BOOLEAN /\ Overlapping \in BOOLEAN

VARIABLES
    file,     \* the lines on disk
    steps,    \* the steps still to run, as renumbered so far
    authored, \* the same steps as the model wrote them
    applied   \* the set of edits that took effect, as the model wrote them

vars == <<file, steps, authored, applied>>

OriginalLine(l) == <<0, l>>

-----------------------------------------------------------------------------
(* The batch as it is written                                              *)

Edit(action, line, end, dest, new) ==
    [action |-> action, line |-> line, end |-> end, dest |-> dest, new |-> new]

\* The edits of a file with FileLines lines.  A replacement of one line
\* may leave end_line out.
Edits ==
    UNION {
      {Edit(a, l, 0, 0, n) : a \in Actions \cap {"insert_before", "insert_after"},
                             l \in 1..FileLines, n \in 1..MaxNew},
      UNION {{Edit(a, l, e, 0, n) : e \in l..FileLines, n \in 1..MaxNew} :
                a \in Actions \cap {"replace"}, l \in 1..FileLines},
      {Edit(a, l, 0, 0, n) : a \in Actions \cap {"replace"}, l \in 1..FileLines, n \in 1..MaxNew},
      UNION {{Edit(a, l, e, 0, 0) : e \in l..FileLines} :
                a \in Actions \cap {"delete", "read"}, l \in 1..FileLines},
      UNION {{Edit("move", l, e, d, 0) : e \in l..FileLines, d \in 1..FileLines} :
                a \in Actions \cap {"move"}, l \in 1..FileLines}}

LastLine(e) == IF e.end = 0 THEN e.line ELSE e.end
Block(e) == e.line..LastLine(e)
Takes(e) == e.action \in {"replace", "delete", "move"}
Inserts(e) == e.action \in {"insert_before", "insert_after"}

\* Edit b makes sense beside edit a: it names no line that a takes away or
\* moves, except that new lines may go right before lines that a replaces.
Sensible(a, b) ==
    Takes(a) =>
        /\ IF Inserts(b)
           THEN b.line \in Block(a) => a.action = "replace" /\ b.action = "insert_before" /\ b.line = a.line
           ELSE Block(a) \cap Block(b) = {}
        /\ b.action = "move" => b.dest \notin Block(a)

\* A batch: a sequence of edits, each with an identity, cut into steps.  A
\* read is a step of its own.
Batches ==
    {plan \in UNION {[1..m -> Edits] : m \in 1..MaxEdits} :
        /\ \A i, j \in DOMAIN plan : i # j => Sensible(plan[i], plan[j])
        /\ \A i \in DOMAIN plan : plan[i].action = "move" => plan[i].dest \notin Block(plan[i])}

Identified(plan) ==
    [i \in DOMAIN plan |-> [action |-> plan[i].action, line |-> plan[i].line, end |-> plan[i].end,
                            dest |-> plan[i].dest, new |-> plan[i].new, id |-> i]]

Together(cut, i, j) == cut \cap i..(j-1) = {}

Cuts(plan) ==
    {cut \in SUBSET (1..(Len(plan) - 1)) :
        \A i, j \in DOMAIN plan : i < j /\ Together(cut, i, j) =>
            /\ "read" \notin {plan[i].action, plan[j].action}
            /\ SharedLines \/ plan[i].line # plan[j].line \/ plan[i].action = "insert_before"}

Steps(plan, cut) ==
    LET ends == cut \cup {Len(plan)}
        LastOf(s) == CHOOSE i \in ends : Cardinality({j \in ends : j <= i}) = s
    IN [s \in 1..Cardinality(ends) |-> SubSeq(plan, IF s = 1 THEN 1 ELSE LastOf(s-1) + 1, LastOf(s))]

Init ==
    /\ file = [l \in 1..FileLines |-> OriginalLine(l)]
    /\ \E plan \in Batches : \E cut \in Cuts(plan) : steps = Steps(Identified(plan), cut)
    /\ authored = steps
    /\ applied = {}

-----------------------------------------------------------------------------
(* The batch as it runs                                                    *)

\* A change.edit step succeeds.
EditStep ==
    /\ steps # <<>>
    /\ Head(steps)[1].action # "read"
    /\ LET edits == rebaseIntraStepSnapshotLineEdits(Head(steps)) IN
       \E overlap \in [DOMAIN edits -> IF Overlapping THEN 0..1 ELSE {0}] :
          /\ Accepted(edits, overlap, file)
          /\ file' = apply_line_edits(edits, overlap, file)
          /\ LET resolved == EditResolutions(edits, overlap, file)
                 deltas == computePositionalDeltas(backfillLinesFromResolved(edits, resolved))
             IN steps' = rebaseSubsequentSteps(Tail(steps), deltas)
          /\ LET Taken(k) == CHOOSE i \in DOMAIN edits : edits[i].id = Head(authored)[k].id
             IN applied' = applied \cup {[Head(authored)[k] EXCEPT !.new = @ - overlap[Taken(k)]] :
                                             k \in DOMAIN Head(authored)}
    /\ authored' = Tail(authored)

\* A read step succeeds and changes nothing.
ReadStep ==
    /\ steps # <<>>
    /\ Head(steps)[1].action = "read"
    /\ steps' = Tail(steps)
    /\ authored' = Tail(authored)
    /\ UNCHANGED <<file, applied>>

\* A step fails, by its line numbers or for any other reason, and the batch
\* goes on: nothing was written, so nothing is shifted.
StepFails ==
    /\ steps # <<>>
    /\ steps' = Tail(steps)
    /\ authored' = Tail(authored)
    /\ UNCHANGED <<file, applied>>

Next == EditStep \/ ReadStep \/ StepFails

Spec == Init /\ [][Next]_vars

-----------------------------------------------------------------------------
(* What edits should do to the file, read off them as written              *)

\* The lines of the file: those of the original which no edit took, and the new ones.
Wanted(edits) ==
    {OriginalLine(l) : l \in {m \in 1..FileLines : \A e \in edits : Takes(e) => m \notin Block(e)}}
      \cup UNION {Range(Content(e, e.new)) : e \in edits}

\* The original line at which a line x of the file belongs, and whether it does before (0), in
\* place of (1) or after (2) that line.
Author(edits, x) == CHOOSE e \in edits : e.id = x[1]
Near(edits, x) == IF x[1] = 0 THEN x[2] ELSE Author(edits, x).line
Side(edits, x) ==
    IF x[1] = 0 THEN 1
    ELSE CASE Author(edits, x).action = "insert_before" -> 0
           [] Author(edits, x).action = "insert_after" -> 2
           [] OTHER -> 1

\* Line x belongs above line y.  At the same side of the same line, what was written earlier is
\* above when it goes before the line, and below when it goes after it.
Above(edits, x, y) ==
    \/ Near(edits, x) < Near(edits, y)
    \/ /\ Near(edits, x) = Near(edits, y)
       /\ \/ Side(edits, x) < Side(edits, y)
          \/ /\ Side(edits, x) = Side(edits, y)
             /\ \/ x[1] = y[1] /\ x[2] < y[2]
                \/ x[1] < y[1] /\ Side(edits, x) = 0
                \/ x[1] > y[1] /\ Side(edits, x) = 2

AsWritten(edits, text) ==
    /\ Range(text) = Wanted(edits)
    /\ \A t, u \in DOMAIN text : t < u => Above(edits, text[t], text[u])

-----------------------------------------------------------------------------
(* Properties                                                              *)

\* After every step the file is what the edits that took effect say when
\* each is read against the file the model had seen, in whatever steps they
\* ran and whichever other steps failed: every line not taken is still
\* there, in order, new lines are next to the line they were written for,
\* those of an earlier insert_before or a later insert_after first.  (For
\* batches without moves.)
FileAsAuthored == AsWritten(applied, file)

\* A step that has not run yet names, after all renumbering, the very lines
\* its author named, wherever these are now (rebaseSubsequentSteps).
TargetsFollow ==
    \A s \in DOMAIN steps : \A k \in DOMAIN steps[s] :
        LET Follows(written, now) ==
              written # 0 /\ (\E t \in DOMAIN file : file[t] = OriginalLine(written)) =>
                  now \in DOMAIN file /\ file[now] = OriginalLine(written)
        IN /\ Follows(authored[s][k].line, steps[s][k].line)
           /\ Follows(authored[s][k].end, steps[s][k].end)
           /\ Follows(authored[s][k].dest, steps[s][k].dest)

\* Renumbering never makes the backend refuse a step whose line numbers
\* were good when it was written.
StepsApplicable ==
    steps # <<>> /\ Head(steps)[1].action # "read" =>
        LET edits == rebaseIntraStepSnapshotLineEdits(Head(steps)) IN
        Accepted(edits, [i \in DOMAIN edits |-> 0], file)
=============================================================================
