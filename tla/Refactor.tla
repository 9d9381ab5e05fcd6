------------------------------ MODULE Refactor ------------------------------
(***************************************************************************)
(* Refactor execute and rollback of the back end (batch_query/mod.rs): a   *)
(* list of operations, each of which may create a file, remove lines from  *)
(* a source and update lines of other files, and which extracts are        *)
(* expanded to.  A call holds the refactoring mutex, so calls and          *)
(* rollbacks exclude each other, but nothing keeps others from writing the *)
(* files between its steps.  A call ends by a response with the data to    *)
(* roll it back - done, paused, failed in preflight, or rolled back by     *)
(* itself when it is incremental - or by an error (`?`), without that data.*)
(*                                                                         *)
(* A text is a sequence of lines; line i a file was opened with is         *)
(* <<f, i>>, a line written since, of whatever words, is <<f, 0>>.  Which  *)
(* lines are attributes, doc comments, blank and the like is given.  What  *)
(* a linter or the preflight thinks of a text is left open, as is where a  *)
(* body begins and ends and which consumers of a symbol the index knows.   *)
(* The hash of a text is the text; texts are restored up to line endings.  *)
(***************************************************************************)
EXTENDS Naturals, Sequences, SequencesExt

CONSTANTS
    File,         \* the files (paths) of the project
    None,         \* no file, no text
    Lines,        \* how many lines a file is opened with
    Present,      \* the files there are at first
    Above,        \* the lines that are attributes, decorators or doc comments
    Below,        \* the blank lines and the lines of a lone comma or bracket and comma
    Separators,   \* the comment lines that separate items of a Rust file
    Operations,   \* the operations a call may be given
    MaxOps,       \* bound: how many operations a call has
    MaxCalls,     \* bound: how many calls of execute are made
    MaxChanges    \* bound: how often others change a file

\* A range that ends before it begins is its first line (saturating_sub).
Removal == {s \in [symbol : BOOLEAN, from : 1 .. Lines, to : 1 .. Lines] : s.from <= s.to}

\* An update writes `size` lines, of which the last `repeats` may repeat what is behind them (the
\* code looks at 8 at most).  A deletion is a replacement by nothing; 0 is an end_line or a
\* destination that is not given.
Update == {u \in [file : File, action : {"insert_before", "insert_after", "replace", "replace_body", "move"},
                  line : 1 .. Lines, end : 0 .. Lines, size : Nat, repeats : 0 .. 8, to : 0 .. Lines] :
              u.repeats <= u.size}

\* An extract is expanded to a create of `to`, a symbol of `from` to remove, and its updates.  The
\* lines it copies are found by another parser than those it removes.
Operation == [extract : BOOLEAN, raw : BOOLEAN, create : File \cup {None}, source : File \cup {None},
              copy : [from : 1 .. Lines, to : 1 .. Lines], remove : Seq(Removal), updates : SUBSET Update]

ASSUME NoneAssumption == None \notin File /\ None \notin Seq(File \X (0 .. Lines))
ASSUME FileAssumption == Present \subseteq File /\ Lines \in Nat
ASSUME DressingAssumption == Above \cup Below \cup Separators \subseteq File \X (0 .. Lines)
ASSUME OperationsAssumption == Operations \subseteq Operation
ASSUME ExtractAssumption ==
    \A op \in Operations : op.extract =>
        /\ op.create \in File /\ op.source \in File
        /\ Len(op.remove) = 1 /\ op.remove[1].symbol
ASSUME UpdatesAssumption == \A op \in Operations : \A u, w \in op.updates : u.file = w.file => u = w
ASSUME BoundsAssumption == MaxOps \in Nat /\ MaxCalls \in Nat /\ MaxChanges \in Nat

VARIABLES
    disk,         \* what each file holds, None when it does not exist
    call,         \* the call of execute that holds the mutex
    given,        \* the rollback data of the responses that were not rolled back yet
    calls,        \* how many calls were made
    changes,      \* how often others changed a file
    began,        \* history: the files before the calls of `given`
    lost,         \* history: files changed without any rollback data for them
    foreign       \* history: files others changed since the call began

vars == <<disk, call, given, calls, changes, began, lost, foreign>>
history == <<calls, changes, began, foreign>>

NoCall == [step |-> "none"]
NoTexts == [f \in {} |-> None]
New(f) == <<f, 0>>
With(texts, f, text) == [g \in DOMAIN texts \cup {f} |-> IF g = f THEN text ELSE texts[g]]

(***************************************************************************)
(* Rolling back.                                                           *)
(***************************************************************************)
\* _rollback: the snapshots to restore, and the created files to delete.
RollbackData(c) == [restore |-> c.snapshots, delete |-> c.created]

Mentions(data, f) == f \in data.delete \/ f \in DOMAIN data.restore
Restored(data, f) == IF f \in data.delete THEN None ELSE data.restore[f]

\* First all of restore is written, then all of delete is removed.
RolledBack(data) == [f \in File |-> IF Mentions(data, f) THEN Restored(data, f) ELSE disk[f]]

AllData == IF call = NoCall THEN given ELSE Append(given, RollbackData(call))
SpeaksOf(data, f) == \E k \in DOMAIN data : Mentions(data[k], f)
Mentioned == {f \in File : SpeaksOf(AllData, f)}
MentionedBefore == {f \in File : SpeaksOf(given, f)}

\* refactor_rollback waits for the mutex, and refuses data without a file to restore.
Rollback ==
    /\ call = NoCall
    /\ given # << >>
    /\ disk' = IF DOMAIN Last(given).restore = {} THEN disk ELSE RolledBack(Last(given))
    /\ given' = Front(given)
    /\ UNCHANGED <<call, lost, history>>

(***************************************************************************)
(* How a call begins and ends.                                             *)
(***************************************************************************)
\* The files that are snapshot: sources and files to update, not the files to create.
ToSnapshot(ops) ==
    UNION {{ops[j].source} \cup {u.file : u \in ops[j].updates} : j \in DOMAIN ops}

Snapshots(ops) == [f \in {g \in ToSnapshot(ops) \cap File : disk[g] # None} |-> disk[f]]

\* A call runs the operations from the one after resume_after.
Execute(ops, first, incremental) ==
    /\ call = NoCall
    /\ calls < MaxCalls
    /\ calls' = calls + 1
    /\ call' = [step |-> "op", ops |-> ops, first |-> first, next |-> first, incremental |-> incremental,
                snapshots |-> Snapshots(ops), created |-> {}, sourceContent |-> Snapshots(ops),
                targetContent |-> NoTexts, lineShifts |-> [f \in File |-> << >>], updates |-> {}]
    /\ foreign' = {}
    /\ IF given = << >> THEN began' = disk /\ lost' = {} ELSE UNCHANGED <<began, lost>>
    /\ UNCHANGED <<disk, given, changes>>

\* A response that restores nothing is refused by rollback: what it created stays.
Respond ==
    /\ given' = Append(given, RollbackData(call))
    /\ lost' = IF DOMAIN call.snapshots = {} THEN lost \cup call.created ELSE lost
    /\ call' = NoCall
    /\ UNCHANGED history

Pause == Respond /\ UNCHANGED disk

\* An incremental call writes every snapshot and deletes what it created before it responds.
PauseOrRollBack ==
    /\ disk' = IF call.incremental THEN RolledBack(RollbackData(call)) ELSE disk
    /\ Respond

Mutated == call.created \cup {f \in DOMAIN call.snapshots : disk[f] # call.snapshots[f]}

\* A file cannot be read or written, a symbol is not found, an edit does not apply: `?`.
Fail ==
    /\ call # NoCall /\ call.step \in {"op", "create", "remove", "update"}
    /\ call' = NoCall
    /\ lost' = lost \cup (Mutated \ MentionedBefore)
    /\ UNCHANGED <<disk, given, history>>

GoOn(c) == call' = c /\ UNCHANGED <<given, history>>
At(step) == call # NoCall /\ call.step = step
To(step) == [call EXCEPT !.step = step]

(***************************************************************************)
(* The lines an operation means.                                           *)
(***************************************************************************)
\* Operations read what the call wrote last, and the disk for files it has no text of.
Content(f) == IF f \in DOMAIN call.sourceContent THEN call.sourceContent[f] ELSE disk[f]

SymbolLines(f, spec) == {<<f, i>> : i \in spec.from .. spec.to}
Places(text, f, spec) == {i \in DOMAIN text : text[i] \in SymbolLines(f, spec)}

\* Mutant: an adjusted line is compared with the next shift, which is in original lines.
adjustLineByEachShift(line, shifts) ==
    FoldLeft(LAMBDA l, s : IF l >= s.start + s.count THEN l - s.count ELSE IF l >= s.start THEN s.start ELSE l,
             line, shifts)

\* A line of the original file after the removals before it; lines that are gone become the line there.
adjustLineForShifts(line, shifts) ==
    LET inside == {k \in DOMAIN shifts : shifts[k].start <= line /\ line < shifts[k].start + shifts[k].count}
        total == FoldLeft(LAMBDA sum, s : IF s.start + s.count <= line THEN sum + s.count ELSE sum, 0,
                          IF inside = {} THEN shifts ELSE SubSeq(shifts, 1, Min(inside) - 1))
        place == IF inside = {} THEN line ELSE shifts[Min(inside)].start
    IN IF total > place THEN 0 ELSE place - total

\* Shifts are kept in the order of their lines; symbols are not recorded.
Recorded(shifts, spec) ==
    IF spec.symbol THEN shifts
    ELSE InsertAt(shifts, Cardinality({k \in DOMAIN shifts : shifts[k].start <= spec.from}) + 1,
                  [start |-> spec.from, count |-> spec.to - spec.from + 1])

\* expand_removal_boundaries: what stands above the symbol and what is left over behind it goes too.
Top(text, from) == Min({i \in 1 .. from : \A j \in i .. from - 1 : text[j] \in Above})
Bottom(text, to) == Max({i \in to .. Len(text) : \A j \in to + 1 .. i : text[j] \in Below})
Separated(text, from) == from > 1 /\ text[from - 1] \in Separators
Widened(text, from, to) ==
    [from |-> IF Separated(text, Top(text, from)) THEN Top(text, from) - 1 ELSE Top(text, from),
     to |-> Bottom(text, to)]

\* Symbols are found in the text as it is, lines are counted in the original one.
SymbolRange(text, f, ranges, s) ==
    IF s.symbol /\ Places(text, f, s) # {}
    THEN Append(ranges, Widened(text, Min(Places(text, f, s)), Max(Places(text, f, s)))) ELSE ranges

NumberRange(shifts, ranges, s) ==
    LET start == adjustLineForShifts(s.from, shifts)
    IN IF s.symbol THEN ranges ELSE Append(ranges, [from |-> start, to |-> start + (s.to - s.from)])

SymbolRanges(text, f, remove) == FoldLeft(LAMBDA ranges, s : SymbolRange(text, f, ranges, s), << >>, remove)
NumberRanges(shifts, remove) == FoldLeft(LAMBDA ranges, s : NumberRange(shifts, ranges, s), << >>, remove)
Ranges(f, remove) == SymbolRanges(Content(f), f, remove) \o NumberRanges(call.lineShifts[f], remove)

\* apply_line_edits: in the given order, each on what the one before has left.
Applies(text, range) == range.from >= 1 /\ range.from <= Len(text) + 2
Before(text, line) == SubSeq(text, 1, Min({line - 1, Len(text)}))
Delete(text, range) == Before(text, range.from) \o SubSeq(text, range.to + 1, Len(text))
Deleted(text, ranges) == FoldLeft(Delete, text, ranges)
AllApply(text, ranges) == \A k \in DOMAIN ranges : Applies(Deleted(text, SubSeq(ranges, 1, k - 1)), ranges[k])

Written(u) == [i \in 1 .. u.size |-> New(u.file)]
Put(text, line, count, new) == Before(text, line) \o new \o SubSeq(text, line + count, Len(text))

\* From the line, which is adjusted, to end_line, which is not.
Span(u, line) == IF u.end = 0 THEN 1 ELSE IF u.end < line THEN 0 ELSE u.end - line + 1

\* The body found behind the line, up to end_line when that is behind it as well.
Bodies(text, u, line) ==
    LET last == IF u.end > line /\ u.end < Len(text) THEN u.end ELSE Len(text)
    IN {r \in [from : line + 1 .. last + 1, count : 0 .. last] : r.from + r.count <= last + 1}

\* The lines the content of an update may take the place of.
Replaced(text, u, line) ==
    CASE u.action = "insert_before" -> {[from |-> line, count |-> 0]}
      [] u.action = "insert_after" -> {[from |-> line + 1, count |-> 0]}
      [] u.action = "replace" -> {[from |-> line, count |-> Span(u, line) + k] : k \in 0 .. u.repeats}
      [] u.action = "replace_body" -> Bodies(text, u, line)

\* A destination behind the lines is that many lines too far once they are taken out.
Moved(text, u, line) ==
    LET count == Span(u, line)
        at == IF u.to <= line THEN u.to ELSE IF u.to > count THEN u.to - count ELSE 1
    IN Put(Put(text, line, count, << >>), at, 0, SubSeq(text, line, Min({line + count - 1, Len(text)})))

UpdatedTexts(text, u, line) ==
    IF u.action = "move" THEN {Moved(text, u, line)}
    ELSE {Put(text, r.from, r.count, Written(u)) : r \in Replaced(text, u, line)}

(***************************************************************************)
(* The operations of a call.                                               *)
(***************************************************************************)
Op == call.ops[call.next]
Source == Op.source

BeginOperation ==
    /\ At("op") /\ call.next <= Len(call.ops)
    /\ \/ GoOn(To("create")) /\ UNCHANGED <<disk, lost>>
       \/ ~Op.extract /\ Source # None /\ Content(Source) # None
          /\ (\E k \in DOMAIN Op.remove : Op.remove[k].symbol)
          /\ Pause                              \* the preflight of a symbol fails; no call rolls that back

Copied == Places(Content(Source), Source, Op.copy)
Extracted == SubSeq(Content(Source), Min(Copied), Max(Copied))

\* Mutant: each extract writes the target anew.
CreatedTextAnew == IF Op.extract THEN Extracted ELSE <<New(Op.create)>>

\* An extract adds its symbol to what the call has written to the target, unless it is raw.
CreatedText ==
    IF ~Op.extract THEN <<New(Op.create)>>
    ELSE IF ~Op.raw /\ Op.create \in DOMAIN call.targetContent THEN call.targetContent[Op.create] \o Extracted
    ELSE Extracted

\* A file that exists is written over, and deleted by a rollback.
Create ==
    /\ At("create") /\ Op.create # None
    /\ Op.extract => Content(Source) # None /\ Copied # {}
    /\ \/ PauseOrRollBack
       \/ /\ disk' = [disk EXCEPT ![Op.create] = CreatedText]
          /\ lost' = lost \cup ({f \in {Op.create} : began[f] # None} \ MentionedBefore)
          /\ GoOn([call EXCEPT !.step = "remove", !.created = @ \cup {Op.create},
                               !.targetContent = With(@, Op.create, CreatedText)])

NoCreate == At("create") /\ Op.create = None /\ GoOn(To("remove")) /\ UNCHANGED <<disk, lost>>

\* A source is linted, and gets the imports of what was extracted, after its last removal.
Removes(op, f) == op.source = f /\ op.remove # << >>
RemovalsOf(f, js) == Cardinality({j \in js : Removes(call.ops[j], f)})
LastRemoval == RemovalsOf(Source, call.first .. call.next) >= RemovalsOf(Source, DOMAIN call.ops)
Injected == LastRemoval /\ \E j \in DOMAIN call.ops : call.ops[j].extract /\ call.ops[j].source = Source

\* The shifts of the lines that were removed by number.
Shifts == FoldLeft(Recorded, call.lineShifts[Source], Op.remove)

RemoveLines ==
    /\ At("remove") /\ Source # None /\ Op.remove # << >>
    /\ Content(Source) # None
    /\ LET ranges == Ranges(Source, Op.remove)
           text == Deleted(Content(Source), ranges)
       IN  /\ ranges # << >>
           /\ \/ (\A k \in DOMAIN Op.remove : ~Op.remove[k].symbol) /\ PauseOrRollBack
              \/ AllApply(Content(Source), ranges) /\ LastRemoval /\ PauseOrRollBack
              \/ \E new \in {text} \cup (IF Injected THEN {<<New(Source)>> \o text} ELSE {}) :
                    /\ AllApply(Content(Source), ranges)
                    /\ disk' = [disk EXCEPT ![Source] = new]
                    /\ GoOn([call EXCEPT !.step = "update", !.updates = Op.updates,
                                         !.sourceContent = With(@, Source, new),
                                         !.lineShifts[Source] = Shifts])
                    /\ UNCHANGED lost

NoRemoval ==
    /\ At("remove")
    /\ Source # None /\ Op.remove # << >> => Content(Source) # None /\ Ranges(Source, Op.remove) = << >>
    /\ GoOn([call EXCEPT !.step = "update", !.updates = Op.updates])
    /\ UNCHANGED <<disk, lost>>

\* Mutant: what an update wrote is not what the next operation reads.
UpdateLinesOnly(u) ==
    LET line == adjustLineForShifts(u.line, call.lineShifts[u.file])
    IN  /\ At("update") /\ u \in call.updates
        /\ u.action = "move" => u.to > 0
        /\ Content(u.file) # None /\ Applies(Content(u.file), [from |-> line, to |-> line])
        /\ \/ PauseOrRollBack
           \/ \E text \in UpdatedTexts(Content(u.file), u, line) :
                 /\ disk' = [disk EXCEPT ![u.file] = text]
                 /\ GoOn([call EXCEPT !.updates = @ \ {u}])
                 /\ UNCHANGED lost

\* Only the line of an update is adjusted, and what it inserts or deletes is not recorded in lineShifts.
UpdateLines(u) ==
    LET line == adjustLineForShifts(u.line, call.lineShifts[u.file])
    IN  /\ At("update") /\ u \in call.updates
        /\ u.action = "move" => u.to > 0
        /\ Content(u.file) # None /\ Applies(Content(u.file), [from |-> line, to |-> line])
        /\ \/ PauseOrRollBack
           \/ \E text \in UpdatedTexts(Content(u.file), u, line) :
                 /\ disk' = [disk EXCEPT ![u.file] = text]
                 /\ GoOn([call EXCEPT !.updates = @ \ {u}, !.sourceContent = With(@, u.file, text)])
                 /\ UNCHANGED lost

EndOperation ==
    /\ At("update") /\ call.updates = {}
    /\ GoOn([call EXCEPT !.step = "op", !.next = @ + 1])
    /\ UNCHANGED <<disk, lost>>

(***************************************************************************)
(* After the operations, the imports of those who use an extracted symbol  *)
(* are rewritten on the disk: of the source, and of any files but the      *)
(* target, as far as the index knows them.                                 *)
(***************************************************************************)
Consumers ==
    UNION {File \ {call.ops[j].create} : j \in {k \in DOMAIN call.ops : call.ops[k].extract}}
\* Mutant: the consumers are not restored by a rollback.
WithoutConsumers(snapshots, rewritten) == snapshots

\* The files whose imports change are added to the snapshots.
WithConsumers(snapshots, rewritten) ==
    [f \in DOMAIN snapshots \cup rewritten |-> IF f \in DOMAIN snapshots THEN snapshots[f] ELSE disk[f]]

RewriteImports(rewritten) ==
    /\ At("op") /\ call.next > Len(call.ops)
    /\ \A f \in rewritten : disk[f] # None
    /\ disk' = [f \in File |-> IF f \in rewritten THEN <<New(f)>> \o disk[f] ELSE disk[f]]
    /\ GoOn([call EXCEPT !.step = "respond", !.snapshots = WithConsumers(@, rewritten)])
    /\ UNCHANGED lost

Done == At("respond") /\ Pause

(***************************************************************************)
(* Others - commands that do not take the mutex, and other programs.       *)
(***************************************************************************)
ExternalChange(f, text) ==
    /\ changes < MaxChanges
    /\ text # disk[f]
    /\ changes' = changes + 1
    /\ disk' = [disk EXCEPT ![f] = text]
    /\ foreign' = foreign \cup {f}
    /\ lost' = lost \cup ({f} \ Mentioned)
    /\ UNCHANGED <<call, given, calls, began>>

Scripts == UNION {[1 .. n -> Operations] : n \in 1 .. MaxOps}

Init ==
    /\ disk = [f \in File |-> IF f \in Present THEN [i \in 1 .. Lines |-> <<f, i>>] ELSE None]
    /\ call = NoCall /\ given = << >> /\ calls = 0 /\ changes = 0
    /\ began = disk /\ lost = {} /\ foreign = {}

Steps ==
    \/ BeginOperation \/ Create \/ NoCreate \/ RemoveLines \/ NoRemoval
    \/ (\E u \in call.updates : UpdateLines(u))
    \/ EndOperation
    \/ (\E rewritten \in SUBSET Consumers : RewriteImports(rewritten))
    \/ Done

Next ==
    \/ \E ops \in Scripts : \E first \in DOMAIN ops, incremental \in BOOLEAN : Execute(ops, first, incremental)
    \/ call # NoCall /\ Steps
    \/ Fail
    \/ Rollback
    \/ \E f \in File : \E text \in {None, <<New(f)>>} : ExternalChange(f, text)

Spec == Init /\ [][Next]_vars

(***************************************************************************)
(* Properties.                                                             *)
(***************************************************************************)
Texts == Seq(File \X (0 .. Lines))
IsTexts(texts) == DOMAIN texts \subseteq File /\ \A f \in DOMAIN texts : texts[f] \in Texts
IsData(data) == IsTexts(data.restore) /\ data.delete \subseteq File

\* The types; a call deletes only what it created, and is at one of its operations.
TypeOK ==
    /\ disk \in [File -> Texts \cup {None}]
    /\ \A k \in DOMAIN given : IsData(given[k])
    /\ calls \in 0 .. MaxCalls /\ changes \in 0 .. MaxChanges
    /\ lost \subseteq File /\ foreign \subseteq File
    /\ call # NoCall =>
        /\ call.step \in {"op", "create", "remove", "update", "respond"}
        /\ call.first \in DOMAIN call.ops /\ call.next \in call.first .. Len(call.ops) + 1
        /\ IsData(RollbackData(call))
        /\ IsTexts(call.sourceContent) /\ IsTexts(call.targetContent)
        /\ DOMAIN call.targetContent = call.created

\* At every moment, also in the middle of a call and whatever others have written, rolling back
\* with the data of the call and then of all responses, the newest first, leaves each file as it
\* was before those calls: what the oldest data says of a file is what it held then, and a file no
\* data speaks of is as it was.  The exceptions (lost) are files of calls that ended by an error,
\* that were created over a file nobody had a snapshot of, or by a call with nothing to restore,
\* and files only others have changed.
OldestSays(data, f, text) ==
    \E k \in DOMAIN data :
        /\ Mentions(data[k], f) /\ Restored(data[k], f) = text
        /\ \A j \in 1 .. k - 1 : ~Mentions(data[j], f)

ComesBack(data, f) == IF SpeaksOf(data, f) THEN OldestSays(data, f, began[f]) ELSE disk[f] = began[f]

RollbackRestores == \A f \in File \ lost : ComesBack(AllData, f)

\* The text a call works on is what is on disk, so that no operation writes over what an earlier
\* one wrote: except for files others changed meanwhile, and files the call itself created, whose
\* text it keeps apart.
WorkingCopyIsDisk ==
    call # NoCall /\ call.step # "respond" =>
        \A f \in DOMAIN call.sourceContent \ (call.created \cup foreign) : call.sourceContent[f] = disk[f]

\* The operations of the call that have removed their lines, and the lines of f it has updated.
Removed == {j \in call.first .. Len(call.ops) : j < call.next \/ (j = call.next /\ call.step = "update")}
UpdatesDone == UNION {IF j < call.next THEN call.ops[j].updates ELSE call.ops[j].updates \ call.updates : j \in Removed}

LinesOf(spec) == spec.from .. spec.to

\* Every operation that removes lines of f removes one range of line numbers, no two the same
\* lines, and f is not created, its updates replace one line by one line, and no removed line is
\* updated: other updates have lines that are not adjusted, or change the length unrecorded.
ReplacesOneLine(u) == u.action = "replace" /\ u.end = 0 /\ u.size = 1 /\ u.repeats = 0

RemovedByNumber(f) ==
    LET removing == {j \in DOMAIN call.ops : Removes(call.ops[j], f)}
        lines(j) == LinesOf(call.ops[j].remove[1])
    IN  /\ \A j \in DOMAIN call.ops : call.ops[j].create # f
        /\ \A j \in removing :
            /\ Len(call.ops[j].remove) = 1 /\ ~call.ops[j].remove[1].symbol
            /\ \A k \in removing \ {j} : lines(j) \cap lines(k) = {}
        /\ \A j \in DOMAIN call.ops : \A u \in call.ops[j].updates :
            u.file = f =>
                /\ ReplacesOneLine(u) /\ u.line \in DOMAIN call.snapshots[f]
                /\ \A k \in removing : u.line \notin lines(k)

\* The lines of the original f that the operations so far have removed, and have updated.
Gone(f) == UNION {LinesOf(call.ops[j].remove[1]) : j \in {k \in Removed : Removes(call.ops[k], f)}}
UpdatedLines(f) == {u.line : u \in {w \in UpdatesDone : w.file = f}}

GoneBefore(gone, line) == Cardinality({i \in gone : i < line})

\* What the operations so far make of f when all their line numbers are of the original file: a line
\* that is left is at its place less the lines before it that are gone, and there are no others.
AsAuthored(f, text) ==
    LET original == call.snapshots[f]
        left == DOMAIN original \ Gone(f)
    IN  /\ Len(text) = Cardinality(left)
        /\ \A i \in left :
              text[i - GoneBefore(Gone(f), i)] = IF i \in UpdatedLines(f) THEN New(f) ELSE original[i]

\* Line numbers of all operations of a call are of the file before the call (two_sequential_removes_
\* from_same_file in lib.rs): through any number of removals, in any order of the lines, each
\* operation removes and replaces the lines its author named, under the conditions of RemovedByNumber.
LinesAsAuthored ==
    call # NoCall /\ call.step # "respond" =>
        \A f \in DOMAIN call.snapshots : RemovedByNumber(f) => AsAuthored(f, Content(f))

\* The lines that go with a symbol when it is removed.
Dressing == Above \cup Below \cup Separators

\* Symbols of f are extracted, one by each operation, whose copy has the lines of the symbol, and
\* nothing else is done to f or the targets; no extract to them is raw.
OnlyExtracted(f) ==
    LET targets == {call.ops[j].create : j \in {k \in DOMAIN call.ops : Removes(call.ops[k], f)}}
    IN  /\ \A j \in DOMAIN call.ops :
            LET op == call.ops[j]
            IN  /\ op.source = f => op.extract /\ LinesOf(op.remove[1]) \subseteq LinesOf(op.copy)
                /\ op.create # f /\ op.source \notin targets
                /\ op.create \in targets => op.extract /\ ~op.raw
                /\ \A u \in op.updates : u.file \notin targets \cup {f}
        /\ targets \cap foreign = {}

\* No code is lost by extracts: at each moment of a call, every line of a source is in the source
\* or in a target, except attributes, comments and blank lines, which may go with a symbol: also
\* when one target takes the symbols of several operations, one after the other, and whatever else
\* the call creates, removes and updates.
ExtractKeepsCode ==
    call # NoCall =>
        \A f \in DOMAIN call.snapshots \ foreign :
            OnlyExtracted(f) =>
                ToSet(call.snapshots[f]) \ Dressing \subseteq
                    ToSet(disk[f]) \cup UNION {ToSet(disk[t]) : t \in call.created \ foreign}

=============================================================================
