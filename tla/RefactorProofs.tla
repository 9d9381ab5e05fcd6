--------------------------- MODULE RefactorProofs ---------------------------
(***************************************************************************)
(* Theorems about refactor execute and rollback, for any files and         *)
(* operations and any number of calls, responses and changes by others:    *)
(* the types, rolling back the newest first restores the files, a call     *)
(* works on what is on disk, extracts lose no line, and lines are removed  *)
(* and updated by the numbers they had before the call.                    *)
(***************************************************************************)
EXTENDS Refactor, TLAPS, SequenceTheorems, FiniteSetTheorems, WellFoundedInduction

(***************************************************************************)
(* The inductive invariant.                                                *)
(***************************************************************************)
CallFields == {"step", "ops", "first", "next", "incremental", "snapshots", "created",
               "sourceContent", "targetContent", "lineShifts", "updates"}

\* What the call is at; the operation of a step that writes.
CallShape ==
    call # NoCall =>
        /\ DOMAIN call = CallFields
        /\ call.ops \in Seq(Operations)
        /\ call.next \in Nat \ {0}
        /\ call.step \in {"create", "remove", "update"} => call.next \in DOMAIN call.ops
        /\ call.step = "update" => call.updates \subseteq Op.updates
        /\ DOMAIN call.snapshots \subseteq File /\ call.created \subseteq File

\* Data that rollback refuses speaks of lost files only.
RefusedIsLost ==
    \A k \in DOMAIN given : DOMAIN given[k].restore = {} => given[k].delete \subseteq lost

\* A file to be snapshot that is not there when a call begins is not there until somebody makes it.
NotThere ==
    call # NoCall =>
        \A f \in (ToSnapshot(call.ops) \cap File) \ (DOMAIN call.snapshots \cup call.created \cup foreign) :
            disk[f] = None /\ f \notin DOMAIN call.sourceContent

\* What others changed during a call is restored by it, or was not to be restored.
ForeignIsKnown == call # NoCall => foreign \cap File \subseteq Mentioned \cup lost

Shape ==
    /\ DOMAIN disk = File
    /\ \E S : given \in Seq(S)
    /\ CallShape

Inv == Shape /\ RefusedIsLost /\ NotThere /\ ForeignIsKnown /\ RollbackRestores /\ WorkingCopyIsDisk

(***************************************************************************)
(* Lists of rollback data.                                                 *)
(***************************************************************************)
\* Data behind a list only matters for files the list does not speak of.
LEMMA AppendedData ==
    ASSUME NEW S, NEW data \in Seq(S), NEW last, NEW f
    PROVE  /\ SpeaksOf(Append(data, last), f) <=> SpeaksOf(data, f) \/ Mentions(last, f)
           /\ \A text : OldestSays(Append(data, last), f, text) <=>
                  IF SpeaksOf(data, f) THEN OldestSays(data, f, text)
                  ELSE Mentions(last, f) /\ Restored(last, f) = text
<1> DEFINE all == Append(data, last)
<1>1. /\ DOMAIN data = 1 .. Len(data) /\ Len(data) \in Nat
      /\ DOMAIN all = 1 .. Len(data) + 1
      /\ \A k \in 1 .. Len(data) : all[k] = data[k]
      /\ all[Len(data) + 1] = last
  <2>1. data \in Seq(S \cup {last}) /\ last \in S \cup {last}
    OBVIOUS
  <2> QED BY <2>1
<1> HIDE DEF all
<1>2. SpeaksOf(all, f) <=> SpeaksOf(data, f) \/ Mentions(last, f)
  BY <1>1 DEF SpeaksOf
<1>3. ASSUME NEW text
      PROVE  OldestSays(all, f, text) <=>
                  IF SpeaksOf(data, f) THEN OldestSays(data, f, text)
                  ELSE Mentions(last, f) /\ Restored(last, f) = text
  <2>1. CASE SpeaksOf(data, f)
    <3>1. PICK m \in 1 .. Len(data) : Mentions(data[m], f)
      BY <1>1, <2>1 DEF SpeaksOf
    <3>2. ASSUME OldestSays(all, f, text) PROVE OldestSays(data, f, text)
      <4>1. PICK k \in DOMAIN all : /\ Mentions(all[k], f) /\ Restored(all[k], f) = text
                                    /\ \A j \in 1 .. k - 1 : ~Mentions(all[j], f)
        BY <3>2 DEF OldestSays
      <4>2. k \in 1 .. Len(data)
        BY <4>1, <3>1, <1>1
      <4> QED BY <4>1, <4>2, <1>1 DEF OldestSays
    <3>3. ASSUME OldestSays(data, f, text) PROVE OldestSays(all, f, text)
      <4>1. PICK k \in DOMAIN data : /\ Mentions(data[k], f) /\ Restored(data[k], f) = text
                                     /\ \A j \in 1 .. k - 1 : ~Mentions(data[j], f)
        BY <3>3 DEF OldestSays
      <4> QED BY <4>1, <1>1 DEF OldestSays
    <3> QED BY <2>1, <3>2, <3>3
  <2>2. CASE ~SpeaksOf(data, f)
    <3>1. \A k \in 1 .. Len(data) : ~Mentions(data[k], f)
      BY <2>2, <1>1 DEF SpeaksOf
    <3>2. ASSUME OldestSays(all, f, text) PROVE Mentions(last, f) /\ Restored(last, f) = text
      BY <3>1, <3>2, <1>1 DEF OldestSays
    <3>3. ASSUME Mentions(last, f), Restored(last, f) = text PROVE OldestSays(all, f, text)
      <4>1. Len(data) + 1 \in DOMAIN all /\ \A j \in 1 .. (Len(data) + 1) - 1 : ~Mentions(all[j], f)
        BY <3>1, <1>1
      <4> QED BY <4>1, <3>3, <1>1 DEF OldestSays
    <3> QED BY <2>2, <3>2, <3>3
  <2> QED BY <2>1, <2>2
<1> QED BY <1>2, <1>3 DEF all

\* The newest data taken off a list.
LEMMA FrontAndLast ==
    ASSUME NEW S, NEW data \in Seq(S), data # << >>
    PROVE  Front(data) \in Seq(S) /\ data = Append(Front(data), Last(data))
<1>1. Len(data) \in Nat \ {0} /\ DOMAIN data = 1 .. Len(data)
  OBVIOUS
<1>2. Front(data) = SubSeq(data, 1, Len(data) - 1) /\ Last(data) = data[Len(data)]
  BY DEF Front, Last
<1>3. Front(data) \in Seq(S) /\ Last(data) \in S
  BY <1>1, <1>2
<1>4. Len(Front(data)) = Len(data) - 1 /\ \A k \in 1 .. Len(data) - 1 : Front(data)[k] = data[k]
  BY <1>1, <1>2
<1> QED BY <1>1, <1>2, <1>3, <1>4

\* What data says of a file that no data before it speaks of is what the file held before.
SaysRight(data, f, before, now) == IF Mentions(data, f) THEN Restored(data, f) = before ELSE now = before

LEMMA LastSaysRight ==
    ASSUME NEW S, NEW data \in Seq(S), NEW last, NEW f, NEW before, NEW now
    PROVE  (IF SpeaksOf(Append(data, last), f) THEN OldestSays(Append(data, last), f, before) ELSE now = before)
           <=> IF SpeaksOf(data, f) THEN OldestSays(data, f, before) ELSE SaysRight(last, f, before, now)
<1>1. /\ SpeaksOf(Append(data, last), f) <=> SpeaksOf(data, f) \/ Mentions(last, f)
      /\ OldestSays(Append(data, last), f, before) <=>
            IF SpeaksOf(data, f) THEN OldestSays(data, f, before)
            ELSE Mentions(last, f) /\ Restored(last, f) = before
  BY AppendedData
<1> QED BY <1>1 DEF SaysRight

\* During a call its own data is right for the files the data before it does not speak of.
LEMMA OwnDataIsRight ==
    ASSUME Inv, call # NoCall
    PROVE  \A f \in File \ lost : IF SpeaksOf(given, f) THEN OldestSays(given, f, began[f])
                                 ELSE SaysRight(RollbackData(call), f, began[f], disk[f])
<1>1. PICK S : given \in Seq(S)
  BY DEF Inv, Shape
<1>2. AllData = Append(given, RollbackData(call))
  BY DEF AllData
<1>3. \A f \in File \ lost : IF SpeaksOf(AllData, f) THEN OldestSays(AllData, f, began[f]) ELSE disk[f] = began[f]
  BY DEF Inv, RollbackRestores, ComesBack
<1> QED BY <1>1, <1>2, <1>3, LastSaysRight

\* It is enough for a step within a call that its own data is right afterwards.
LEMMA CallGoesOn ==
    ASSUME Inv, call # NoCall, call' # NoCall, CallShape',
           DOMAIN disk' = File, given' = given, began' = began, lost \subseteq lost', foreign' = foreign,
           DOMAIN call.snapshots \subseteq DOMAIN call'.snapshots, call.created \subseteq call'.created,
           \A f \in File \ lost' : ~SpeaksOf(given, f) => SaysRight(RollbackData(call'), f, began[f], disk'[f])
    PROVE  Shape' /\ RefusedIsLost' /\ ForeignIsKnown' /\ RollbackRestores'
<1>1. PICK S : given \in Seq(S)
  BY DEF Inv, Shape
<1>2. AllData = Append(given, RollbackData(call)) /\ AllData' = Append(given, RollbackData(call'))
  BY DEF AllData, RollbackData
<1>3. Shape'
  BY <1>1 DEF Shape
<1>4. RefusedIsLost'
  BY DEF Inv, RefusedIsLost
<1>5. Mentioned \subseteq Mentioned'
  <2>1. \A f : Mentions(RollbackData(call), f) => Mentions(RollbackData(call'), f)
    BY DEF Mentions, RollbackData
  <2>2. \A f : SpeaksOf(AllData, f) => SpeaksOf(AllData', f)
    BY <1>1, <1>2, <2>1, AppendedData
  <2> QED BY <2>2 DEF Mentioned
<1>6. ForeignIsKnown'
  BY <1>5 DEF Inv, ForeignIsKnown
<1>7. RollbackRestores'
  <2>1. ASSUME NEW f \in File \ lost'
        PROVE  IF SpeaksOf(given, f) THEN OldestSays(given, f, began[f])
               ELSE SaysRight(RollbackData(call'), f, began[f], disk'[f])
    <3>1. f \in File \ lost
      OBVIOUS
    <3> QED BY <3>1, OwnDataIsRight
  <2>2. ASSUME NEW f \in File \ lost'
        PROVE  IF SpeaksOf(AllData', f) THEN OldestSays(AllData', f, began[f]) ELSE disk'[f] = began[f]
    <3> DEFINE own == RollbackData(call')
    <3>1. (IF SpeaksOf(Append(given, own), f) THEN OldestSays(Append(given, own), f, began[f]) ELSE disk'[f] = began[f])
          <=> IF SpeaksOf(given, f) THEN OldestSays(given, f, began[f]) ELSE SaysRight(own, f, began[f], disk'[f])
      <4> HIDE DEF own
      <4> QED BY <1>1, LastSaysRight
    <3> QED BY <1>2, <2>1, <3>1
  <2> QED BY <2>2 DEF RollbackRestores, ComesBack
<1> QED BY <1>3, <1>4, <1>6, <1>7

(***************************************************************************)
(* The invariant holds at first, and through the steps of a call.          *)
(***************************************************************************)
LEMMA InitInv == Init => Inv
<1> SUFFICES ASSUME Init PROVE Inv
  OBVIOUS
<1>1. call = NoCall /\ given = << >> /\ began = disk /\ DOMAIN disk = File
  BY DEF Init
<1>2. given \in Seq({})
  BY <1>1
<1>3. Shape
  BY <1>1, <1>2 DEF Shape, CallShape
<1>4. RollbackRestores
  BY <1>1 DEF RollbackRestores, ComesBack, SpeaksOf, AllData
<1> QED BY <1>1, <1>3, <1>4 DEF Inv, RefusedIsLost, NotThere, ForeignIsKnown, WorkingCopyIsDisk

\* The operation of a step that writes, and the files it names.
LEMMA OpIsOperation ==
    ASSUME Inv, call # NoCall, call.step \in {"create", "remove", "update"}
    PROVE  /\ Op \in Operations
           /\ Op.create \in File \cup {None} /\ Op.source \in File \cup {None}
           /\ Source \in File => Source \in ToSnapshot(call.ops)
           /\ \A u \in Op.updates : u.file \in File /\ u.file \in ToSnapshot(call.ops)
<1>1. call.ops \in Seq(Operations) /\ call.next \in DOMAIN call.ops
  BY DEF Inv, Shape, CallShape
<1>2. Op \in Operations
  BY <1>1 DEF Op
<1>3. Op \in Operation
  BY <1>2, OperationsAssumption
<1>4. Op.create \in File \cup {None} /\ Op.source \in File \cup {None} /\ Op.updates \subseteq Update
  BY <1>3 DEF Operation
<1>5. \A u \in Op.updates : u.file \in File
  BY <1>4 DEF Update
<1>6. {Op.source} \cup {u.file : u \in Op.updates} \subseteq ToSnapshot(call.ops)
  BY <1>1 DEF ToSnapshot, Op
<1> QED BY <1>2, <1>4, <1>5, <1>6 DEF Source

\* A file a call has the text of, or finds, is one that its rollback or nobody's restores.
LEMMA WrittenIsKnown ==
    ASSUME Inv, call # NoCall, NEW w \in ToSnapshot(call.ops) \cap File, Content(w) # None
    PROVE  /\ w \in DOMAIN call.snapshots \cup call.created \cup foreign
           /\ SpeaksOf(given, w) \/ Mentions(RollbackData(call), w) \/ w \in lost
<1>1. w \in DOMAIN call.snapshots \cup call.created \cup foreign
  BY DEF Inv, NotThere, Content
<1>2. CASE w \in DOMAIN call.snapshots \cup call.created
  BY <1>1, <1>2 DEF Mentions, RollbackData
<1>3. CASE w \in foreign
  <2>1. PICK S : given \in Seq(S)
    BY DEF Inv, Shape
  <2>2. w \in lost \/ SpeaksOf(AllData, w)
    BY <1>3 DEF Inv, ForeignIsKnown, Mentioned
  <2>3. AllData = Append(given, RollbackData(call))
    BY DEF AllData
  <2> QED BY <1>1, <2>1, <2>2, <2>3, AppendedData
<1> QED BY <1>1, <1>2, <1>3

\* A step that writes a file the call has the text of, or finds.
LEMMA WriteKeepsInv ==
    ASSUME Inv, call # NoCall, NEW w \in ToSnapshot(call.ops) \cap File, Content(w) # None, NEW text,
           disk' = [disk EXCEPT ![w] = text], given' = given, began' = began, lost' = lost, foreign' = foreign,
           call' # NoCall, CallShape', call'.ops = call.ops, call.step # "respond",
           call'.snapshots = call.snapshots, call'.created = call.created,
           call'.sourceContent = With(call.sourceContent, w, text)
    PROVE  Inv'
<1>1. DOMAIN disk = File /\ DOMAIN disk' = File
  BY DEF Inv, Shape
<1>2. /\ w \in DOMAIN call.snapshots \cup call.created \cup foreign
      /\ SpeaksOf(given, w) \/ Mentions(RollbackData(call), w) \/ w \in lost
  BY WrittenIsKnown
<1>3. RollbackData(call') = RollbackData(call)
  BY DEF RollbackData
<1>4. ASSUME NEW f \in File \ lost', ~SpeaksOf(given, f)
      PROVE  SaysRight(RollbackData(call'), f, began[f], disk'[f])
  <2>1. SaysRight(RollbackData(call), f, began[f], disk[f])
    BY <1>4, OwnDataIsRight
  <2>2. CASE f = w
    BY <1>2, <1>3, <1>4, <2>1, <2>2 DEF SaysRight
  <2>3. CASE f # w
    BY <1>1, <1>3, <2>1, <2>3
  <2> QED BY <2>2, <2>3
<1>5. Shape' /\ RefusedIsLost' /\ ForeignIsKnown' /\ RollbackRestores'
  BY <1>1, <1>4, CallGoesOn
<1>6. NotThere'
  <2> SUFFICES ASSUME NEW f \in (ToSnapshot(call.ops) \cap File) \ (DOMAIN call.snapshots \cup call.created \cup foreign)
               PROVE  disk'[f] = None /\ f \notin DOMAIN call'.sourceContent
    BY DEF NotThere
  <2>1. disk[f] = None /\ f \notin DOMAIN call.sourceContent
    BY DEF Inv, NotThere
  <2> QED BY <1>1, <1>2, <2>1 DEF With
<1>7. WorkingCopyIsDisk'
  <2> SUFFICES ASSUME NEW f \in DOMAIN call'.sourceContent \ (call.created \cup foreign)
               PROVE  call'.sourceContent[f] = disk'[f]
    BY DEF WorkingCopyIsDisk
  <2>1. CASE f = w
    BY <1>1, <2>1 DEF With
  <2>2. CASE f # w
    <3>1. f \in DOMAIN call.sourceContent /\ call'.sourceContent[f] = call.sourceContent[f]
      BY <2>2 DEF With
    <3>2. call.sourceContent[f] = disk[f]
      BY <3>1 DEF Inv, WorkingCopyIsDisk
    <3> QED BY <1>1, <2>2, <3>1, <3>2
  <2> QED BY <2>1, <2>2
<1> QED BY <1>5, <1>6, <1>7 DEF Inv

\* A step of the call that writes nothing.
LEMMA QuietKeepsInv ==
    ASSUME Inv, call # NoCall, disk' = disk, given' = given, began' = began, lost' = lost, foreign' = foreign,
           call' # NoCall, CallShape', call'.ops = call.ops, call.step # "respond",
           call'.snapshots = call.snapshots, call'.created = call.created,
           call'.sourceContent = call.sourceContent
    PROVE  Inv'
<1>1. DOMAIN disk' = File
  BY DEF Inv, Shape
<1>2. RollbackData(call') = RollbackData(call)
  BY DEF RollbackData
<1>3. \A f \in File \ lost' : ~SpeaksOf(given, f) => SaysRight(RollbackData(call'), f, began[f], disk'[f])
  BY <1>2, OwnDataIsRight
<1>4. Shape' /\ RefusedIsLost' /\ ForeignIsKnown' /\ RollbackRestores'
  BY <1>1, <1>3, CallGoesOn
<1>5. NotThere'
  BY DEF Inv, NotThere
<1>6. WorkingCopyIsDisk'
  BY DEF Inv, WorkingCopyIsDisk
<1> QED BY <1>4, <1>5, <1>6 DEF Inv

\* The call responds, having restored only files it has snapshots of and deleted what it created.
LEMMA RespondKeepsInv ==
    ASSUME Inv, call # NoCall, Respond, DOMAIN disk' = File,
           \A f \in File : ~Mentions(RollbackData(call), f) => disk'[f] = disk[f]
    PROVE  Inv'
<1>1. PICK S : given \in Seq(S)
  BY DEF Inv, Shape
<1>2. /\ call' = NoCall /\ began' = began /\ foreign' = foreign /\ lost \subseteq lost'
      /\ given' = Append(given, RollbackData(call))
      /\ DOMAIN call.snapshots = {} => call.created \subseteq lost'
  BY DEF Respond, history
<1>3. given' \in Seq(S \cup {RollbackData(call)})
  BY <1>1, <1>2
<1>4. Shape'
  BY <1>2, <1>3 DEF Shape, CallShape
<1>5. RefusedIsLost'
  <2>1. DOMAIN given = 1 .. Len(given) /\ Len(given) \in Nat /\ DOMAIN given' = 1 .. Len(given) + 1
    BY <1>1, <1>2, <1>3
  <2>2. \A k \in DOMAIN given : given'[k] = given[k]
    BY <1>1, <1>2
  <2>3. given'[Len(given) + 1] = RollbackData(call)
    BY <1>1, <1>2
  <2> SUFFICES ASSUME NEW k \in DOMAIN given', DOMAIN given'[k].restore = {}
               PROVE  given'[k].delete \subseteq lost'
    BY DEF RefusedIsLost
  <2>4. CASE k \in DOMAIN given
    BY <1>2, <2>2, <2>4 DEF Inv, RefusedIsLost
  <2>5. CASE k = Len(given) + 1
    BY <1>2, <2>3, <2>5 DEF RollbackData
  <2> QED BY <2>1, <2>4, <2>5
<1>6. RollbackRestores'
  <2>1. AllData' = Append(given, RollbackData(call))
    BY <1>2 DEF AllData
  <2>2. ASSUME NEW f \in File \ lost'
        PROVE  IF SpeaksOf(AllData', f) THEN OldestSays(AllData', f, began[f]) ELSE disk'[f] = began[f]
    <3> DEFINE own == RollbackData(call)
    <3>1. (IF SpeaksOf(Append(given, own), f) THEN OldestSays(Append(given, own), f, began[f]) ELSE disk'[f] = began[f])
          <=> IF SpeaksOf(given, f) THEN OldestSays(given, f, began[f]) ELSE SaysRight(own, f, began[f], disk'[f])
      <4> HIDE DEF own
      <4> QED BY <1>1, LastSaysRight
    <3>2. f \in File \ lost
      BY <1>2
    <3>3. IF SpeaksOf(given, f) THEN OldestSays(given, f, began[f]) ELSE SaysRight(own, f, began[f], disk[f])
      BY <3>2, OwnDataIsRight
    <3>4. SaysRight(own, f, began[f], disk[f]) => SaysRight(own, f, began[f], disk'[f])
      BY DEF SaysRight
    <3> QED BY <2>1, <3>1, <3>3, <3>4
  <2> QED BY <1>2, <2>2 DEF RollbackRestores, ComesBack
<1> QED BY <1>2, <1>4, <1>5, <1>6 DEF Inv, NotThere, ForeignIsKnown, WorkingCopyIsDisk

(***************************************************************************)
(* Each action keeps the invariant.                                        *)
(***************************************************************************)
LEMMA CallFieldsKept ==
    ASSUME Inv, call # NoCall
    PROVE  DOMAIN call = CallFields /\ CallShape /\ DOMAIN disk = File
BY DEF Inv, Shape, CallShape

LEMMA PauseKeepsInv == ASSUME Inv, call # NoCall, Pause PROVE Inv'
BY CallFieldsKept, RespondKeepsInv DEF Pause

LEMMA PauseOrRollBackKeepsInv == ASSUME Inv, call # NoCall, PauseOrRollBack PROVE Inv'
<1>1. DOMAIN disk' = File /\ \A f \in File : ~Mentions(RollbackData(call), f) => disk'[f] = disk[f]
  BY CallFieldsKept DEF PauseOrRollBack, RolledBack
<1> QED BY <1>1, RespondKeepsInv DEF PauseOrRollBack

LEMMA ExecuteKeepsInv ==
    ASSUME Inv, NEW ops \in Scripts, NEW first \in DOMAIN ops, NEW incremental \in BOOLEAN,
           Execute(ops, first, incremental)
    PROVE  Inv'
<1>1. call = NoCall /\ DOMAIN disk = File
  BY DEF Inv, Shape, Execute
<1>2. PICK S : given \in Seq(S)
  BY DEF Inv, Shape
<1>3. /\ disk' = disk /\ given' = given /\ foreign' = {}
      /\ IF given = << >> THEN began' = disk /\ lost' = {} ELSE began' = began /\ lost' = lost
  BY DEF Execute
<1>4. /\ call'.step = "op" /\ call'.ops = ops /\ call'.next = first
      /\ call'.snapshots = Snapshots(ops) /\ call'.sourceContent = Snapshots(ops) /\ call'.created = {}
      /\ DOMAIN call' = CallFields
  BY DEF Execute, CallFields
<1>5. call' # NoCall
  BY <1>4 DEF NoCall
<1>6. /\ DOMAIN Snapshots(ops) = {g \in ToSnapshot(ops) \cap File : disk[g] # None}
      /\ \A f \in DOMAIN Snapshots(ops) : Snapshots(ops)[f] = disk[f]
  BY DEF Snapshots
<1>7. ops \in Seq(Operations) /\ first \in Nat \ {0}
  <2>1. PICK n \in 1 .. MaxOps : ops \in [1 .. n -> Operations]
    BY DEF Scripts
  <2> QED BY <2>1, BoundsAssumption
<1>8. Shape'
  BY <1>1, <1>2, <1>3, <1>4, <1>6, <1>7 DEF Shape, CallShape
<1>9. RefusedIsLost'
  BY <1>3 DEF Inv, RefusedIsLost
<1>10. NotThere'
  BY <1>3, <1>4, <1>6 DEF NotThere
<1>11. WorkingCopyIsDisk'
  BY <1>3, <1>4, <1>6 DEF WorkingCopyIsDisk
<1>12. RollbackRestores'
  <2>1. AllData = given /\ AllData' = Append(given, RollbackData(call'))
    BY <1>1, <1>3, <1>5 DEF AllData, RollbackData
  <2>2. ASSUME NEW f \in File \ lost'
        PROVE  IF SpeaksOf(AllData', f) THEN OldestSays(AllData', f, began'[f]) ELSE disk'[f] = began'[f]
    <3> DEFINE own == RollbackData(call')
    <3>1. IF SpeaksOf(given, f) THEN OldestSays(given, f, began'[f]) ELSE disk[f] = began'[f]
      <4>1. CASE given = << >>
        BY <1>3, <4>1 DEF SpeaksOf
      <4>2. CASE given # << >>
        BY <1>3, <2>1, <4>2 DEF Inv, RollbackRestores, ComesBack
      <4> QED BY <4>1, <4>2
    <3>2. disk[f] = began'[f] => SaysRight(own, f, began'[f], disk'[f])
      BY <1>3, <1>4, <1>6 DEF SaysRight, RollbackData, Mentions, Restored
    <3>3. (IF SpeaksOf(Append(given, own), f) THEN OldestSays(Append(given, own), f, began'[f])
           ELSE disk'[f] = began'[f])
          <=> IF SpeaksOf(given, f) THEN OldestSays(given, f, began'[f]) ELSE SaysRight(own, f, began'[f], disk'[f])
      <4> HIDE DEF own
      <4> QED BY <1>2, LastSaysRight
    <3> QED BY <2>1, <3>1, <3>2, <3>3
  <2> QED BY <2>2 DEF RollbackRestores, ComesBack
<1> QED BY <1>3, <1>8, <1>9, <1>10, <1>11, <1>12 DEF Inv, ForeignIsKnown

LEMMA FailKeepsInv == ASSUME Inv, Fail PROVE Inv'
<1>1. /\ call # NoCall /\ call' = NoCall /\ disk' = disk /\ given' = given /\ began' = began
      /\ lost' = lost \cup (Mutated \ MentionedBefore)
  BY DEF Fail, history
<1>2. Shape' /\ RefusedIsLost'
  BY <1>1 DEF Inv, Shape, CallShape, RefusedIsLost
<1>3. RollbackRestores'
  <2>1. AllData' = given
    BY <1>1 DEF AllData
  <2>2. ASSUME NEW f \in File \ lost', ~SpeaksOf(given, f) PROVE disk[f] = began[f]
    <3>1. f \in File \ lost /\ f \notin Mutated
      BY <1>1, <2>2 DEF MentionedBefore
    <3>2. SaysRight(RollbackData(call), f, began[f], disk[f])
      BY <1>1, <2>2, <3>1, OwnDataIsRight
    <3>3. CASE Mentions(RollbackData(call), f)
      <4>1. f \in DOMAIN call.snapshots /\ disk[f] = call.snapshots[f] /\ f \notin call.created
        BY <3>1, <3>3 DEF Mutated, Mentions, RollbackData
      <4> QED BY <3>2, <3>3, <4>1 DEF SaysRight, Restored, RollbackData
    <3> QED BY <3>2, <3>3 DEF SaysRight
  <2>3. \A f \in File \ lost' : SpeaksOf(given, f) => OldestSays(given, f, began[f])
    BY <1>1, OwnDataIsRight
  <2> QED BY <1>1, <2>1, <2>2, <2>3 DEF RollbackRestores, ComesBack
<1> QED BY <1>1, <1>2, <1>3 DEF Inv, NotThere, ForeignIsKnown, WorkingCopyIsDisk

LEMMA RollbackKeepsInv == ASSUME Inv, Rollback PROVE Inv'
<1> DEFINE front == Front(given)
           last == Last(given)
<1>1. /\ call = NoCall /\ call' = NoCall /\ given # << >> /\ given' = front /\ began' = began /\ lost' = lost
      /\ disk' = IF DOMAIN last.restore = {} THEN disk ELSE RolledBack(last)
  BY DEF Rollback, history
<1>2. PICK S : given \in Seq(S)
  BY DEF Inv, Shape
<1>3. front \in Seq(S) /\ given = Append(front, last)
  BY <1>1, <1>2, FrontAndLast
<1>4. DOMAIN disk' = File
  BY <1>1 DEF Inv, Shape, RolledBack
<1>5. Shape'
  BY <1>1, <1>3, <1>4 DEF Shape, CallShape
<1>6. /\ DOMAIN front = 1 .. Len(front) /\ Len(front) \in Nat /\ DOMAIN given = 1 .. Len(front) + 1
      /\ \A k \in DOMAIN front : given[k] = front[k]
      /\ given[Len(front) + 1] = last
  <2>1. front \in Seq(S \cup {last}) /\ last \in S \cup {last}
    BY <1>3
  <2> HIDE DEF front, last
  <2> QED BY <1>3, <2>1
<1>7. RefusedIsLost'
  BY <1>1, <1>6 DEF Inv, RefusedIsLost
<1>8. RollbackRestores'
  <2>1. AllData = given /\ AllData' = front
    BY <1>1 DEF AllData
  <2>2. ASSUME NEW f \in File \ lost
        PROVE  IF SpeaksOf(front, f) THEN OldestSays(front, f, began[f]) ELSE disk'[f] = began[f]
    <3>1. IF SpeaksOf(given, f) THEN OldestSays(given, f, began[f]) ELSE disk[f] = began[f]
      BY <2>1 DEF Inv, RollbackRestores, ComesBack
    <3>2. IF SpeaksOf(front, f) THEN OldestSays(front, f, began[f]) ELSE SaysRight(last, f, began[f], disk[f])
      <4> HIDE DEF front, last
      <4>1. (IF SpeaksOf(Append(front, last), f) THEN OldestSays(Append(front, last), f, began[f])
             ELSE disk[f] = began[f])
            <=> IF SpeaksOf(front, f) THEN OldestSays(front, f, began[f]) ELSE SaysRight(last, f, began[f], disk[f])
        BY <1>3, LastSaysRight
      <4> QED BY <1>3, <3>1, <4>1
    <3>3. SaysRight(last, f, began[f], disk[f]) => disk'[f] = began[f]
      <4>1. CASE DOMAIN last.restore = {}
        <5>1. last.delete \subseteq lost
          BY <1>6, <4>1 DEF Inv, RefusedIsLost
        <5>2. ~Mentions(last, f)
          BY <2>2, <4>1, <5>1 DEF Mentions
        <5> QED BY <1>1, <4>1, <5>2 DEF SaysRight
      <4>2. CASE DOMAIN last.restore # {}
        BY <1>1, <4>2 DEF SaysRight, RolledBack
      <4> QED BY <4>1, <4>2
    <3> QED BY <3>2, <3>3
  <2> QED BY <1>1, <2>1, <2>2 DEF RollbackRestores, ComesBack
<1> QED BY <1>1, <1>5, <1>7, <1>8 DEF Inv, NotThere, ForeignIsKnown, WorkingCopyIsDisk

LEMMA ExternalChangeKeepsInv ==
    ASSUME Inv, NEW w \in File, NEW text, ExternalChange(w, text)
    PROVE  Inv'
<1>1. /\ DOMAIN disk = File
      /\ disk' = [disk EXCEPT ![w] = text] /\ foreign' = foreign \cup {w}
      /\ lost' = lost \cup ({w} \ Mentioned)
      /\ call' = call /\ given' = given /\ began' = began
  BY DEF Inv, Shape, ExternalChange
<1>2. AllData' = AllData
  BY <1>1 DEF AllData
<1>3. Shape'
  BY <1>1 DEF Inv, Shape, CallShape, Op
<1>4. RefusedIsLost'
  BY <1>1 DEF Inv, RefusedIsLost
<1>5. NotThere'
  BY <1>1 DEF Inv, NotThere
<1>6. ForeignIsKnown'
  BY <1>1, <1>2 DEF Inv, ForeignIsKnown, Mentioned
<1>7. WorkingCopyIsDisk'
  BY <1>1 DEF Inv, WorkingCopyIsDisk, CallShape
<1>8. RollbackRestores'
  <2> SUFFICES ASSUME NEW f \in File \ lost'
               PROVE  IF SpeaksOf(AllData, f) THEN OldestSays(AllData, f, began[f]) ELSE disk'[f] = began[f]
    BY <1>1, <1>2 DEF RollbackRestores, ComesBack
  <2>1. f \in File \ lost
    BY <1>1
  <2>2. IF SpeaksOf(AllData, f) THEN OldestSays(AllData, f, began[f]) ELSE disk[f] = began[f]
    BY <2>1 DEF Inv, RollbackRestores, ComesBack
  <2>3. f = w => SpeaksOf(AllData, f)
    BY <1>1 DEF Mentioned
  <2> QED BY <1>1, <2>2, <2>3
<1> QED BY <1>3, <1>4, <1>5, <1>6, <1>7, <1>8 DEF Inv

LEMMA BeginOperationKeepsInv == ASSUME Inv, call # NoCall, BeginOperation PROVE Inv'
<1>1. CASE GoOn(To("create")) /\ UNCHANGED <<disk, lost>>
  <2>1. /\ call' = [call EXCEPT !.step = "create"] /\ disk' = disk /\ lost' = lost
        /\ given' = given /\ began' = began /\ foreign' = foreign
    BY <1>1 DEF GoOn, To, history
  <2>2. /\ call'.step = "create" /\ call'.ops = call.ops /\ call'.next = call.next
        /\ call'.snapshots = call.snapshots /\ call'.created = call.created
        /\ call'.sourceContent = call.sourceContent /\ DOMAIN call' = CallFields
    BY <2>1, CallFieldsKept DEF CallFields
  <2>3. call' # NoCall
    BY <2>2 DEF NoCall
  <2>4. CallShape'
    BY <2>2, CallFieldsKept DEF CallShape, BeginOperation
  <2> QED BY <2>1, <2>2, <2>3, <2>4, QuietKeepsInv DEF BeginOperation, At
<1>2. CASE Pause
  BY <1>2, PauseKeepsInv
<1> QED BY <1>1, <1>2 DEF BeginOperation

LEMMA CreateKeepsInv == ASSUME Inv, call # NoCall, Create PROVE Inv'
<1> DEFINE w == Op.create
           text == CreatedText
<1>1. CASE PauseOrRollBack
  BY <1>1, PauseOrRollBackKeepsInv
<1>2. CASE /\ disk' = [disk EXCEPT ![w] = text]
           /\ lost' = lost \cup ({f \in {w} : began[f] # None} \ MentionedBefore)
           /\ GoOn([call EXCEPT !.step = "remove", !.created = @ \cup {w},
                                !.targetContent = With(@, w, text)])
  <2> HIDE DEF text
  <2>1. call.step = "create" /\ w \in File
    BY OpIsOperation DEF Create, At
  <2> HIDE DEF w
  <2>2. /\ call' = [call EXCEPT !.step = "remove", !.created = @ \cup {w}, !.targetContent = With(@, w, text)]
        /\ given' = given /\ began' = began /\ foreign' = foreign
    BY <1>2 DEF GoOn, history
  <2>3. /\ call'.step = "remove" /\ call'.ops = call.ops /\ call'.next = call.next
        /\ call'.snapshots = call.snapshots /\ call'.created = call.created \cup {w}
        /\ call'.sourceContent = call.sourceContent /\ DOMAIN call' = CallFields
    BY <2>2, CallFieldsKept DEF CallFields
  <2>4. call' # NoCall
    BY <2>3 DEF NoCall
  <2>5. CallShape'
    BY <2>1, <2>3, CallFieldsKept DEF CallShape
  <2>6. DOMAIN disk' = File
    BY <1>2, CallFieldsKept
  <2>7. ASSUME NEW f \in File \ lost', ~SpeaksOf(given, f)
        PROVE  SaysRight(RollbackData(call'), f, began[f], disk'[f])
    <3>1. SaysRight(RollbackData(call), f, began[f], disk[f])
      BY <1>2, <2>7, OwnDataIsRight
    <3>2. CASE f = w
      <4>1. began[f] = None
        BY <1>2, <2>7, <3>2 DEF MentionedBefore
      <4> QED BY <2>3, <3>2, <4>1 DEF SaysRight, Mentions, Restored, RollbackData
    <3>3. CASE f # w
      <4>1. disk'[f] = disk[f]
        BY <1>2, <2>6, <3>3, CallFieldsKept
      <4>2. /\ Mentions(RollbackData(call'), f) <=> Mentions(RollbackData(call), f)
            /\ Restored(RollbackData(call'), f) = Restored(RollbackData(call), f)
        BY <2>3, <3>3 DEF Mentions, Restored, RollbackData
      <4> QED BY <3>1, <4>1, <4>2 DEF SaysRight
    <3> QED BY <3>2, <3>3
  <2>8. Shape' /\ RefusedIsLost' /\ ForeignIsKnown' /\ RollbackRestores'
    BY <1>2, <2>2, <2>3, <2>4, <2>5, <2>6, <2>7, CallGoesOn
  <2>9. NotThere'
    BY <1>2, <2>2, <2>3, CallFieldsKept DEF Inv, NotThere
  <2>10. WorkingCopyIsDisk'
    <3> SUFFICES ASSUME NEW f \in DOMAIN call.sourceContent \ (call'.created \cup foreign)
                 PROVE  call.sourceContent[f] = disk'[f]
      BY <2>2, <2>3 DEF WorkingCopyIsDisk
    <3>1. f # w /\ call.sourceContent[f] = disk[f]
      BY <2>1, <2>3 DEF Inv, WorkingCopyIsDisk
    <3> QED BY <1>2, <3>1, CallFieldsKept
  <2> QED BY <2>8, <2>9, <2>10 DEF Inv
<1> QED BY <1>1, <1>2 DEF Create

LEMMA NoCreateKeepsInv == ASSUME Inv, call # NoCall, NoCreate PROVE Inv'
<1>1. /\ call' = [call EXCEPT !.step = "remove"] /\ disk' = disk /\ lost' = lost
      /\ given' = given /\ began' = began /\ foreign' = foreign /\ call.step = "create"
  BY DEF NoCreate, GoOn, To, At, history
<1>2. /\ call'.step = "remove" /\ call'.ops = call.ops /\ call'.next = call.next
      /\ call'.snapshots = call.snapshots /\ call'.created = call.created
      /\ call'.sourceContent = call.sourceContent /\ DOMAIN call' = CallFields
  BY <1>1, CallFieldsKept DEF CallFields
<1>3. call' # NoCall
  BY <1>2 DEF NoCall
<1>4. CallShape'
  BY <1>1, <1>2, CallFieldsKept DEF CallShape
<1> QED BY <1>1, <1>2, <1>3, <1>4, QuietKeepsInv

LEMMA RemoveLinesKeepsInv == ASSUME Inv, call # NoCall, RemoveLines PROVE Inv'
<1>1. CASE PauseOrRollBack
  BY <1>1, PauseOrRollBackKeepsInv
<1>2. ASSUME NEW new,
             disk' = [disk EXCEPT ![Source] = new],
             GoOn([call EXCEPT !.step = "update", !.updates = Op.updates,
                               !.sourceContent = With(@, Source, new),
                               !.lineShifts[Source] = Shifts]),
             UNCHANGED lost
      PROVE  Inv'
  <2>1. call.step = "remove" /\ Source # None /\ Content(Source) # None
    BY DEF RemoveLines, At
  <2>2. Source \in ToSnapshot(call.ops) \cap File
    BY <2>1, OpIsOperation DEF Source
  <2>3. /\ call'.step = "update" /\ call'.ops = call.ops /\ call'.next = call.next
        /\ call'.snapshots = call.snapshots /\ call'.created = call.created
        /\ call'.sourceContent = With(call.sourceContent, Source, new)
        /\ call'.updates = Op.updates /\ DOMAIN call' = CallFields
        /\ given' = given /\ began' = began /\ foreign' = foreign
    BY <1>2, CallFieldsKept DEF CallFields, GoOn, history
  <2>4. call' # NoCall
    BY <2>3 DEF NoCall
  <2>5. CallShape'
    BY <2>1, <2>3, CallFieldsKept DEF CallShape, Op
  <2> QED BY <1>2, <2>1, <2>2, <2>3, <2>4, <2>5, WriteKeepsInv
<1> QED BY <1>1, <1>2 DEF RemoveLines

LEMMA NoRemovalKeepsInv == ASSUME Inv, call # NoCall, NoRemoval PROVE Inv'
<1>1. /\ call' = [call EXCEPT !.step = "update", !.updates = Op.updates] /\ disk' = disk /\ lost' = lost
      /\ given' = given /\ began' = began /\ foreign' = foreign /\ call.step = "remove"
  BY DEF NoRemoval, GoOn, At, history
<1>2. /\ call'.step = "update" /\ call'.ops = call.ops /\ call'.next = call.next
      /\ call'.snapshots = call.snapshots /\ call'.created = call.created
      /\ call'.sourceContent = call.sourceContent /\ call'.updates = Op.updates /\ DOMAIN call' = CallFields
  BY <1>1, CallFieldsKept DEF CallFields
<1>3. call' # NoCall
  BY <1>2 DEF NoCall
<1>4. CallShape'
  BY <1>1, <1>2, CallFieldsKept DEF CallShape, Op
<1> QED BY <1>1, <1>2, <1>3, <1>4, QuietKeepsInv

LEMMA UpdateLinesKeepsInv == ASSUME Inv, call # NoCall, NEW u \in call.updates, UpdateLines(u) PROVE Inv'
<1> DEFINE w == u.file
           line == adjustLineForShifts(u.line, call.lineShifts[u.file])
<1>1. CASE PauseOrRollBack
  BY <1>1, PauseOrRollBackKeepsInv
<1>2. ASSUME NEW text \in UpdatedTexts(Content(w), u, line), disk' = [disk EXCEPT ![w] = text],
             GoOn([call EXCEPT !.updates = @ \ {u}, !.sourceContent = With(@, w, text)]), UNCHANGED lost
      PROVE  Inv'
  <2> HIDE DEF line
  <2>1. call.step = "update" /\ Content(w) # None
    BY DEF UpdateLines, At
  <2>2. call.updates \subseteq Op.updates
    BY <2>1, CallFieldsKept DEF CallShape
  <2>3. w \in ToSnapshot(call.ops) \cap File
    BY <2>1, <2>2, OpIsOperation
  <2> HIDE DEF w
  <2>4. /\ call'.step = call.step /\ call'.ops = call.ops /\ call'.next = call.next
        /\ call'.snapshots = call.snapshots /\ call'.created = call.created
        /\ call'.sourceContent = With(call.sourceContent, w, text)
        /\ call'.updates = call.updates \ {u} /\ DOMAIN call' = CallFields
        /\ given' = given /\ began' = began /\ foreign' = foreign
    BY <1>2, CallFieldsKept DEF CallFields, GoOn, history
  <2>5. call' # NoCall
    BY <2>1, <2>4 DEF NoCall
  <2>6. CallShape'
    BY <2>1, <2>2, <2>4, CallFieldsKept DEF CallShape, Op
  <2> QED BY <1>2, <2>1, <2>3, <2>4, <2>5, <2>6, WriteKeepsInv
<1> QED BY <1>1, <1>2 DEF UpdateLines

LEMMA EndOperationKeepsInv == ASSUME Inv, call # NoCall, EndOperation PROVE Inv'
<1>1. /\ call' = [call EXCEPT !.step = "op", !.next = @ + 1] /\ disk' = disk /\ lost' = lost
      /\ given' = given /\ began' = began /\ foreign' = foreign /\ call.step = "update"
  BY DEF EndOperation, GoOn, At, history
<1>2. /\ call'.step = "op" /\ call'.ops = call.ops /\ call'.next = call.next + 1
      /\ call'.snapshots = call.snapshots /\ call'.created = call.created
      /\ call'.sourceContent = call.sourceContent /\ DOMAIN call' = CallFields
  BY <1>1, CallFieldsKept DEF CallFields
<1>3. call' # NoCall
  BY <1>2 DEF NoCall
<1>4. CallShape'
  BY <1>1, <1>2, CallFieldsKept DEF CallShape
<1> QED BY <1>1, <1>2, <1>3, <1>4, QuietKeepsInv

LEMMA RewriteImportsKeepsInv ==
    ASSUME Inv, call # NoCall, NEW rewritten \in SUBSET Consumers, RewriteImports(rewritten)
    PROVE  Inv'
<1>1. /\ disk' = [f \in File |-> IF f \in rewritten THEN <<New(f)>> \o disk[f] ELSE disk[f]]
      /\ call' = [call EXCEPT !.step = "respond", !.snapshots = WithConsumers(@, rewritten)]
      /\ lost' = lost /\ given' = given /\ began' = began /\ foreign' = foreign
  BY DEF RewriteImports, GoOn, history
<1>2. rewritten \subseteq File
  BY DEF Consumers
<1>3. /\ call'.step = "respond" /\ call'.ops = call.ops /\ call'.next = call.next
      /\ call'.snapshots = WithConsumers(call.snapshots, rewritten) /\ call'.created = call.created
      /\ call'.sourceContent = call.sourceContent /\ DOMAIN call' = CallFields
  BY <1>1, CallFieldsKept DEF CallFields
<1>4. DOMAIN call'.snapshots = DOMAIN call.snapshots \cup rewritten
  BY <1>3 DEF WithConsumers
<1>5. call' # NoCall
  BY <1>3 DEF NoCall
<1>6. CallShape'
  BY <1>2, <1>3, <1>4, CallFieldsKept DEF CallShape
<1>7. ASSUME NEW f \in File \ lost', ~SpeaksOf(given, f)
      PROVE  SaysRight(RollbackData(call'), f, began[f], disk'[f])
  <2>1. SaysRight(RollbackData(call), f, began[f], disk[f])
    BY <1>1, <1>7, OwnDataIsRight
  <2>2. f \in DOMAIN call'.snapshots =>
          call'.snapshots[f] = IF f \in DOMAIN call.snapshots THEN call.snapshots[f] ELSE disk[f]
    BY <1>3, <1>4 DEF WithConsumers
  <2>3. CASE Mentions(RollbackData(call), f)
    BY <1>3, <1>4, <2>1, <2>2, <2>3 DEF SaysRight, Mentions, Restored, RollbackData
  <2>4. CASE ~Mentions(RollbackData(call), f)
    <3>1. f \notin call.created /\ f \notin DOMAIN call.snapshots /\ disk[f] = began[f]
      BY <2>1, <2>4 DEF SaysRight, Mentions, RollbackData
    <3>2. CASE f \in rewritten
      BY <1>3, <1>4, <2>2, <3>1, <3>2 DEF SaysRight, Mentions, Restored, RollbackData
    <3>3. CASE f \notin rewritten
      BY <1>1, <1>3, <1>4, <3>1, <3>3 DEF SaysRight, Mentions, Restored, RollbackData
    <3> QED BY <3>2, <3>3
  <2> QED BY <2>3, <2>4
<1>8. Shape' /\ RefusedIsLost' /\ ForeignIsKnown' /\ RollbackRestores'
  BY <1>1, <1>3, <1>4, <1>5, <1>6, <1>7, CallGoesOn
<1>9. NotThere'
  BY <1>1, <1>3, <1>4 DEF Inv, NotThere
<1>10. WorkingCopyIsDisk'
  BY <1>3 DEF WorkingCopyIsDisk
<1> QED BY <1>8, <1>9, <1>10 DEF Inv

(***************************************************************************)
(* Folding a list.  What FoldLeft computes is an induction over the list;  *)
(* the induction is over a set of numbers here, so that it can be cited.   *)
(***************************************************************************)
LEMMA LeastNumber ==
    ASSUME NEW T, T \subseteq Nat, T # {}
    PROVE  \E n \in T : \A k \in T : n <= k
<1> DEFINE R == OpToRel(<, Nat)
<1>1. \A k, n \in Nat : k < n => <<k, n>> \in R
  BY DEF OpToRel
<1>2. IsWellFoundedOn(R, Nat)
  BY NatLessThanWellFounded
<1> HIDE DEF R
<1>3. PICK n \in T : \A k \in T : ~(<<k, n>> \in R)
  BY <1>2, WFMin
<1>4. \A k \in T : n <= k
  <2>1. ASSUME NEW k \in T PROVE ~(k < n)
    BY <1>1, <1>3
  <2> QED BY <2>1
<1> QED BY <1>4

LEMMA CountingUp ==
    ASSUME NEW S, 0 \in S, \A n \in Nat : n \in S => n + 1 \in S
    PROVE  \A n \in Nat : n \in S
<1>1. SUFFICES ASSUME Nat \ S # {} PROVE FALSE
  OBVIOUS
<1>2. PICK n \in Nat \ S : \A k \in Nat \ S : n <= k
  BY <1>1, LeastNumber
<1>3. n # 0 /\ n - 1 \in Nat /\ (n - 1) + 1 = n /\ ~(n <= n - 1)
  BY <1>2
<1>4. n - 1 \in S
  BY <1>2, <1>3
<1> QED BY <1>2, <1>3, <1>4

LEMMA MinIn ==
    ASSUME NEW s, s \subseteq Nat, s # {}
    PROVE  Min(s) \in s /\ \A x \in s : Min(s) <= x
BY LeastNumber DEF Min

LEMMA MaxIn ==
    ASSUME NEW n \in Nat, NEW s, s \subseteq 0 .. n, s # {}
    PROVE  Max(s) \in s /\ \A x \in s : Max(s) >= x
<1> DEFINE T == {m \in Nat : \A x \in s : x <= m}
<1>1. n \in T
  OBVIOUS
<1>2. PICK m \in T : \A k \in T : m <= k
  BY <1>1, LeastNumber
<1> HIDE DEF T
<1>3. m \in Nat /\ \A x \in s : x \in Nat /\ x <= m
  BY <1>2 DEF T
<1>4. m \in s
  <2>1. SUFFICES ASSUME m \notin s PROVE FALSE
    OBVIOUS
  <2>2. \A x \in s : x # m /\ x <= m - 1
    BY <1>3, <2>1
  <2>3. m - 1 \in Nat /\ ~(m <= m - 1)
    <3>1. PICK x \in s : x \in Nat /\ x <= m - 1
      BY <1>3, <2>2
    <3> QED BY <1>3, <3>1
  <2>4. m - 1 \in T
    BY <2>2, <2>3 DEF T
  <2> QED BY <1>2, <2>3, <2>4
<1>5. \E x \in s : \A y \in s : x >= y
  BY <1>3, <1>4
<1> QED BY <1>5 DEF Max

\* What FoldLeft chooses: a function on the sets of places of a list.
Folds(h, n, base, step) ==
    h = [s \in SUBSET (1 .. n) |-> IF s = {} THEN base ELSE step[<<h[s \ {Max(s)}], Max(s)>>]]

\* The last place of some of the first n + 1 places, and the places before it.
LEMMA LastPlace ==
    ASSUME NEW n \in Nat, NEW s \in SUBSET (1 .. n + 1), s # {}
    PROVE  Max(s) \in s /\ Max(s) \in 1 .. n + 1 /\ s \ {Max(s)} \in SUBSET (1 .. n)
<1>1. n + 1 \in Nat /\ s \subseteq 0 .. n + 1
  OBVIOUS
<1>2. Max(s) \in s /\ \A x \in s : Max(s) >= x
  BY <1>1, MaxIn
<1>3. ASSUME NEW x \in s \ {Max(s)} PROVE x \in 1 .. n
  <2>1. PICK m \in 1 .. n + 1 : m = Max(s)
    BY <1>2
  <2>2. m >= x /\ x # m /\ x \in 1 .. n + 1
    BY <1>2, <2>1
  <2> QED BY <2>2
<1> QED BY <1>2, <1>3

LEMMA PlaceIn ==
    ASSUME NEW n \in Nat, NEW s \in SUBSET (1 .. n), s # {}
    PROVE  Max(s) \in 1 .. n
<1>1. s \subseteq 0 .. n
  OBVIOUS
<1> QED BY <1>1, MaxIn

LEMMA FoldExists ==
    ASSUME NEW S, NEW N \in Nat, NEW base \in S, NEW step \in [S \X (1 .. N) -> S]
    PROVE  \E h \in [SUBSET (1 .. N) -> S] : Folds(h, N, base, step)
<1> DEFINE Good(n) == \E h \in [SUBSET (1 .. n) -> S] : Folds(h, n, base, step)
           P == {n \in Nat : n <= N => Good(n)}
<1>1. Good(0)
  <2> DEFINE h == [s \in SUBSET (1 .. 0) |-> base]
  <2>1. 1 .. 0 = {}
    OBVIOUS
  <2>2. h \in [SUBSET (1 .. 0) -> S]
    OBVIOUS
  <2>3. Folds(h, 0, base, step)
    BY <2>1 DEF Folds
  <2> HIDE DEF h
  <2> QED BY <2>2, <2>3
<1>2. ASSUME NEW n \in Nat, Good(n), n + 1 <= N PROVE Good(n + 1)
  <2>1. PICK g \in [SUBSET (1 .. n) -> S] : Folds(g, n, base, step)
    BY <1>2
  <2> DEFINE at(s) == step[<<g[s \ {Max(s)}], Max(s)>>]
             h == [s \in SUBSET (1 .. n + 1) |-> IF s = {} THEN base ELSE at(s)]
  <2>2. ASSUME NEW s \in SUBSET (1 .. n + 1), s # {} PROVE at(s) \in S
    <3>1. Max(s) \in 1 .. n + 1 /\ s \ {Max(s)} \in SUBSET (1 .. n)
      BY <2>2, LastPlace
    <3>2. PICK m \in 1 .. n + 1 : m = Max(s)
      BY <3>1
    <3>3. m \in 1 .. N
      BY <1>2
    <3>4. g[s \ {Max(s)}] \in S
      BY <3>1
    <3> QED BY <3>2, <3>3, <3>4
  <2>3. h \in [SUBSET (1 .. n + 1) -> S]
    <3> HIDE DEF at
    <3> QED BY <2>2
  <2>4. \A s \in SUBSET (1 .. n) : s \in SUBSET (1 .. n + 1)
    OBVIOUS
  <2>5. ASSUME NEW s \in SUBSET (1 .. n) PROVE h[s] = g[s]
    <3>1. g[s] = IF s = {} THEN base ELSE at(s)
      BY <2>1 DEF Folds
    <3> HIDE DEF at
    <3> QED BY <2>4, <3>1
  <2>6. ASSUME NEW s \in SUBSET (1 .. n + 1)
        PROVE  h[s] = IF s = {} THEN base ELSE step[<<h[s \ {Max(s)}], Max(s)>>]
    <3>1. CASE s = {} BY <3>1
    <3>2. CASE s # {}
      <4>1. s \ {Max(s)} \in SUBSET (1 .. n)
        BY <3>2, LastPlace
      <4>2. h[s \ {Max(s)}] = g[s \ {Max(s)}]
        BY <2>5, <4>1
      <4>3. h[s] = at(s)
        BY <3>2
      <4> HIDE DEF h
      <4> QED BY <3>2, <4>2, <4>3
    <3> QED BY <3>1, <3>2
  <2> HIDE DEF h
  <2>7. Folds(h, n + 1, base, step)
    BY <2>3, <2>6 DEF Folds
  <2> QED BY <2>3, <2>7
<1> HIDE DEF Good
<1>3. 0 \in P /\ \A n \in Nat : n \in P => n + 1 \in P
  BY <1>1, <1>2
<1> HIDE DEF P
<1>4. \A n \in Nat : n \in P
  BY <1>3, CountingUp
<1>5. N \in P /\ N <= N
  BY <1>4
<1> QED BY <1>5 DEF P, Good

\* The values of a fold after each place of the list.
Trace(D, n, base, step) ==
    D[0] = base /\ \A k \in 1 .. n : D[k] = step[<<D[k - 1], k>>]

\* What FoldLeft chose does one step after the other as long as the values are in S.
StepsInto(it, S, N, base, step) ==
    /\ it[{}] = base
    /\ \A s \in SUBSET (1 .. N) : s # {} /\ it[s \ {Max(s)}] \in S
          => it[s] = step[<<it[s \ {Max(s)}], Max(s)>>]

Traced(it, S, N, base, step) ==
    \E D \in [0 .. N -> S] : Trace(D, N, base, step) /\ it[1 .. N] = D[N]

LEMMA FoldValues ==
    ASSUME NEW S, NEW N \in Nat, NEW base \in S, NEW step \in [S \X (1 .. N) -> S],
           NEW it, StepsInto(it, S, N, base, step)
    PROVE  Traced(it, S, N, base, step)
<1>1. it[1 .. 0] = base
  <2>1. 1 .. 0 = {}
    OBVIOUS
  <2> QED BY <2>1 DEF StepsInto
<1>2. ASSUME NEW k \in 1 .. N, it[1 .. k - 1] \in S
      PROVE  it[1 .. k] = step[<<it[1 .. k - 1], k>>] /\ it[1 .. k] \in S
  <2>1. 1 .. k \in SUBSET (1 .. N) /\ 1 .. k # {} /\ k \in 1 .. k
    OBVIOUS
  <2>2. k \in Nat /\ 1 .. k \subseteq 0 .. k
    OBVIOUS
  <2>3. Max(1 .. k) = k
    <3>1. Max(1 .. k) \in 1 .. k /\ \A x \in 1 .. k : Max(1 .. k) >= x
      BY <2>1, <2>2, MaxIn
    <3>2. PICK m \in 1 .. k : m = Max(1 .. k)
      BY <3>1
    <3> QED BY <2>1, <3>1, <3>2
  <2>4. (1 .. k) \ {k} = 1 .. k - 1
    OBVIOUS
  <2>5. it[1 .. k] = step[<<it[1 .. k - 1], k>>]
    BY <1>2, <2>1, <2>3, <2>4 DEF StepsInto
  <2>6. PICK x \in S : x = it[1 .. k - 1]
    BY <1>2
  <2>7. step[<<x, k>>] \in S
    OBVIOUS
  <2> QED BY <2>5, <2>6, <2>7
<1> DEFINE P == {n \in Nat : n <= N => it[1 .. n] \in S}
<1>3. 0 \in P
  BY <1>1
<1>4. ASSUME NEW n \in Nat, n \in P PROVE n + 1 \in P
  <2>1. SUFFICES ASSUME n + 1 <= N PROVE it[1 .. n + 1] \in S
    OBVIOUS
  <2>2. n <= N
    BY <2>1
  <2>3. it[1 .. n] \in S
    BY <1>4, <2>2
  <2>4. PICK k \in 1 .. N : k = n + 1 /\ k - 1 = n
    BY <2>1
  <2>5. it[1 .. k] \in S
    BY <1>2, <2>3, <2>4
  <2> QED BY <2>4, <2>5
<1> HIDE DEF P
<1>5. \A n \in Nat : n \in P
  BY <1>3, <1>4, CountingUp
<1>6. \A k \in 0 .. N : it[1 .. k] \in S
  BY <1>5 DEF P
<1> DEFINE D == [k \in 0 .. N |-> it[1 .. k]]
<1>7. D \in [0 .. N -> S] /\ \A k \in 0 .. N : D[k] = it[1 .. k]
  BY <1>6
<1> HIDE DEF D
<1>8. 0 \in 0 .. N /\ N \in 0 .. N /\ \A k \in 1 .. N : k \in 0 .. N /\ k - 1 \in 0 .. N
  OBVIOUS
<1>9. Trace(D, N, base, step) /\ it[1 .. N] = D[N]
  BY <1>1, <1>2, <1>6, <1>7, <1>8 DEF Trace
<1> QED BY <1>7, <1>9 DEF Traced

LEMMA MinOfTwo ==
    ASSUME NEW a \in Int, NEW b \in Int
    PROVE  Min({a, b}) = IF a <= b THEN a ELSE b
<1>1. \E x \in {a, b} : \A y \in {a, b} : x <= y
  OBVIOUS
<1>2. Min({a, b}) \in {a, b} /\ \A y \in {a, b} : Min({a, b}) <= y
  BY <1>1 DEF Min
<1>3. PICK m \in {a, b} : m = Min({a, b})
  BY <1>2
<1> QED BY <1>2, <1>3

(***************************************************************************)
(* Removing lines.                                                         *)
(***************************************************************************)
LineRange == [from : Nat, to : Nat]

LEMMA BeforeLines ==
    ASSUME NEW S, NEW text \in Seq(S), NEW line \in Nat
    PROVE  /\ Before(text, line) \in Seq(S)
           /\ \A i \in 1 .. Len(text) : i < line =>
                 i \in DOMAIN Before(text, line) /\ Before(text, line)[i] = text[i]
<1> DEFINE n == IF line - 1 <= Len(text) THEN line - 1 ELSE Len(text)
<1>1. Len(text) \in Nat /\ n \in Int /\ n <= Len(text)
      /\ \A i \in 1 .. Len(text) : i < line => i <= n
  OBVIOUS
<1>2. Before(text, line) = SubSeq(text, 1, n)
  BY MinOfTwo DEF Before
<1> HIDE DEF n
<1>3. /\ SubSeq(text, 1, n) \in Seq(S)
      /\ \A i \in 1 .. n : i \in DOMAIN SubSeq(text, 1, n) /\ SubSeq(text, 1, n)[i] = text[i]
  BY <1>1
<1> QED BY <1>1, <1>2, <1>3

LEMMA RestLines ==
    ASSUME NEW S, NEW text \in Seq(S), NEW line \in Nat \ {0}
    PROVE  /\ SubSeq(text, line, Len(text)) \in Seq(S)
           /\ \A i \in 1 .. Len(text) : i >= line =>
                 \E k \in DOMAIN SubSeq(text, line, Len(text)) :
                     SubSeq(text, line, Len(text))[k] = text[i]
<1>1. Len(text) \in Nat /\ \A i \in line .. Len(text) : text[i] \in S
  OBVIOUS
<1>2. PICK r : r = SubSeq(text, line, Len(text))
  OBVIOUS
<1>3. /\ r \in Seq(S)
      /\ Len(r) = IF line <= Len(text) THEN Len(text) - line + 1 ELSE 0
      /\ \A k \in 1 .. Len(text) - line + 1 : r[k] = text[line + k - 1]
  BY <1>1, <1>2, SubSeqProperties
<1>4. ASSUME NEW i \in 1 .. Len(text), i >= line PROVE \E k \in DOMAIN r : r[k] = text[i]
  <2>1. i - line + 1 \in 1 .. Len(text) - line + 1 /\ line + (i - line + 1) - 1 = i
    BY <1>1, <1>4
  <2>2. line <= Len(text)
    BY <1>1, <1>4
  <2>3. DOMAIN r = 1 .. Len(text) - line + 1
    BY <1>3, <2>2
  <2>4. r[i - line + 1] = text[i]
    BY <1>3, <2>1
  <2> QED BY <2>1, <2>3, <2>4
<1> QED BY <1>2, <1>3, <1>4

LEMMA DeleteType ==
    ASSUME NEW S, NEW text \in Seq(S), NEW range \in LineRange
    PROVE  Delete(text, range) \in Seq(S)
<1>1. range.from \in Nat /\ range.to + 1 \in Nat \ {0}
  BY DEF LineRange
<1>2. PICK a \in Seq(S) : a = Before(text, range.from)
  BY <1>1, BeforeLines
<1>3. PICK b \in Seq(S) : b = SubSeq(text, range.to + 1, Len(text))
  BY <1>1, RestLines
<1>4. a \o b \in Seq(S)
  OBVIOUS
<1> QED BY <1>2, <1>3, <1>4 DEF Delete

LEMMA DeletedSteps ==
    ASSUME NEW S, NEW text \in Seq(S), NEW ranges \in Seq(LineRange)
    PROVE  \E D \in [0 .. Len(ranges) -> Seq(S)] :
              /\ D[0] = text /\ Deleted(text, ranges) = D[Len(ranges)]
              /\ \A k \in 1 .. Len(ranges) : D[k] = Delete(D[k - 1], ranges[k])
<1> DEFINE N == Len(ranges)
           step == [p \in Seq(S) \X (1 .. N) |-> Delete(p[1], ranges[p[2]])]
           at(it, s) == IF s = {} THEN text ELSE Delete(it[s \ {Max(s)}], ranges[Max(s)])
           it == CHOOSE it : it = [s \in SUBSET (1 .. N) |-> at(it, s)]
<1>1. N \in Nat /\ DOMAIN ranges = 1 .. N /\ \A k \in 1 .. N : ranges[k] \in LineRange
  OBVIOUS
<1> HIDE DEF N
<1>2. step \in [Seq(S) \X (1 .. N) -> Seq(S)]
  BY <1>1, DeleteType
<1>3. \A x \in Seq(S), k \in 1 .. N : step[<<x, k>>] = Delete(x, ranges[k])
  OBVIOUS
<1> HIDE DEF step
<1>4. \E h : h = [s \in SUBSET (1 .. N) |-> at(h, s)]
  <2>1. PICK h \in [SUBSET (1 .. N) -> Seq(S)] : Folds(h, N, text, step)
    BY <1>1, <1>2, FoldExists
  <2>2. ASSUME NEW s \in SUBSET (1 .. N) PROVE h[s] = at(h, s)
    <3>1. h[s] = IF s = {} THEN text ELSE step[<<h[s \ {Max(s)}], Max(s)>>]
      BY <2>1 DEF Folds
    <3>2. CASE s = {} BY <3>1, <3>2
    <3>3. CASE s # {}
      <4>1. Max(s) \in 1 .. N
        BY <1>1, <3>3, PlaceIn
      <4>2. h[s \ {Max(s)}] \in Seq(S)
        OBVIOUS
      <4> QED BY <1>3, <3>1, <3>3, <4>1, <4>2
    <3> QED BY <3>2, <3>3
  <2> HIDE DEF at
  <2> QED BY <2>1, <2>2
<1>5. it = [s \in SUBSET (1 .. N) |-> at(it, s)]
  <2> HIDE DEF at
  <2> QED BY <1>4
<1>6. Deleted(text, ranges) = it[1 .. N]
  BY <1>1 DEF Deleted, FoldLeft, MapThenFoldSet
<1> HIDE DEF it
<1>7. \A s \in SUBSET (1 .. N) : it[s] = at(it, s)
  <2> HIDE DEF at
  <2> QED BY <1>5
<1>8. StepsInto(it, Seq(S), N, text, step)
  <2>1. {} \in SUBSET (1 .. N)
    OBVIOUS
  <2>2. it[{}] = text
    BY <1>7, <2>1
  <2>3. ASSUME NEW s \in SUBSET (1 .. N), s # {}, it[s \ {Max(s)}] \in Seq(S)
        PROVE  it[s] = step[<<it[s \ {Max(s)}], Max(s)>>]
    <3>1. Max(s) \in 1 .. N
      BY <1>1, <2>3, PlaceIn
    <3> QED BY <1>3, <1>7, <2>3, <3>1
  <2> HIDE DEF at
  <2> QED BY <2>2, <2>3 DEF StepsInto
<1>10. PICK D \in [0 .. N -> Seq(S)] :
         Trace(D, N, text, step) /\ it[1 .. N] = D[N]
  <2> HIDE DEF at
  <2>1. Traced(it, Seq(S), N, text, step)
    BY <1>1, <1>2, <1>8, FoldValues
  <2> QED BY <2>1 DEF Traced
<1>11. ASSUME NEW k \in 1 .. N PROVE D[k] = Delete(D[k - 1], ranges[k])
  <2>1. k - 1 \in 0 .. N
    BY <1>1
  <2> QED BY <1>3, <1>10, <2>1 DEF Trace
<1>12. D[0] = text
  BY <1>10 DEF Trace
<1> QED BY <1>6, <1>10, <1>11, <1>12 DEF N

LEMMA DeletedOne ==
    ASSUME NEW S, NEW text \in Seq(S), NEW r \in LineRange
    PROVE  Deleted(text, <<r>>) = Delete(text, r)
<1>1. <<r>> \in Seq(LineRange) /\ Len(<<r>>) = 1 /\ <<r>>[1] = r
  OBVIOUS
<1>2. PICK ranges \in Seq(LineRange) : ranges = <<r>> /\ Len(ranges) = 1 /\ ranges[1] = r
  BY <1>1
<1>3. PICK D \in [0 .. Len(ranges) -> Seq(S)] :
         /\ D[0] = text /\ Deleted(text, ranges) = D[Len(ranges)]
         /\ \A k \in 1 .. Len(ranges) : D[k] = Delete(D[k - 1], ranges[k])
  BY DeletedSteps
<1>4. 1 \in 1 .. Len(ranges) /\ 1 - 1 = 0
  BY <1>2
<1>5. D[1] = Delete(D[0], r)
  BY <1>2, <1>3, <1>4
<1> QED BY <1>2, <1>3, <1>5

(***************************************************************************)
(* The shifts and the ranges of a removal.                                 *)
(***************************************************************************)
Shift == [start : Nat, count : Nat]
\* A range of lines to remove: Removal, without the bound on line numbers.
LineSpec == {s \in [symbol : BOOLEAN, from : Nat, to : Nat] : s.from <= s.to}

\* The step of the sum in adjustLineForShifts.
Added(line, sum, s) == IF s.start + s.count <= line THEN sum + s.count ELSE sum

LEMMA AddedType ==
    ASSUME NEW line \in Nat, NEW sum \in Nat, NEW s \in Shift
    PROVE  Added(line, sum, s) \in Nat
BY DEF Added, Shift

LEMMA SumSteps ==
    ASSUME NEW line \in Nat, NEW shifts \in Seq(Shift)
    PROVE  \E D \in [0 .. Len(shifts) -> Nat] :
              /\ D[0] = 0 /\ FoldLeft(LAMBDA sum, s : IF s.start + s.count <= line THEN sum + s.count ELSE sum, 0, shifts) = D[Len(shifts)]
              /\ \A k \in 1 .. Len(shifts) : D[k] = Added(line, D[k - 1], shifts[k])
<1> DEFINE N == Len(shifts)
           step == [p \in Nat \X (1 .. N) |-> Added(line, p[1], shifts[p[2]])]
           at(it, s) == IF s = {} THEN 0 ELSE Added(line, it[s \ {Max(s)}], shifts[Max(s)])
           it == CHOOSE it : it = [s \in SUBSET (1 .. N) |-> at(it, s)]
<1>1. N \in Nat /\ DOMAIN shifts = 1 .. N /\ \A k \in 1 .. N : shifts[k] \in Shift
  OBVIOUS
<1> HIDE DEF N
<1>2. 0 \in Nat /\ step \in [Nat \X (1 .. N) -> Nat]
  BY <1>1, AddedType
<1>3. \A x \in Nat, k \in 1 .. N : step[<<x, k>>] = Added(line, x, shifts[k])
  OBVIOUS
<1> HIDE DEF step
<1>4. \E h : h = [s \in SUBSET (1 .. N) |-> at(h, s)]
  <2>1. PICK h \in [SUBSET (1 .. N) -> Nat] : Folds(h, N, 0, step)
    BY <1>1, <1>2, FoldExists
  <2>2. ASSUME NEW s \in SUBSET (1 .. N) PROVE h[s] = at(h, s)
    <3>1. h[s] = IF s = {} THEN 0 ELSE step[<<h[s \ {Max(s)}], Max(s)>>]
      BY <2>1 DEF Folds
    <3>2. CASE s = {} BY <3>1, <3>2
    <3>3. CASE s # {}
      <4>1. Max(s) \in 1 .. N
        BY <1>1, <3>3, PlaceIn
      <4>2. h[s \ {Max(s)}] \in Nat
        OBVIOUS
      <4> QED BY <1>3, <3>1, <3>3, <4>1, <4>2
    <3> QED BY <3>2, <3>3
  <2> HIDE DEF at
  <2> QED BY <2>1, <2>2
<1>5. it = [s \in SUBSET (1 .. N) |-> at(it, s)]
  <2> HIDE DEF at
  <2> QED BY <1>4
<1>6. FoldLeft(LAMBDA sum, s : IF s.start + s.count <= line THEN sum + s.count ELSE sum, 0, shifts) = it[1 .. N]
  BY <1>1 DEF Added, FoldLeft, MapThenFoldSet
<1> HIDE DEF it
<1>7. \A s \in SUBSET (1 .. N) : it[s] = at(it, s)
  <2> HIDE DEF at
  <2> QED BY <1>5
<1>8. StepsInto(it, Nat, N, 0, step)
  <2>1. {} \in SUBSET (1 .. N)
    OBVIOUS
  <2>2. it[{}] = 0
    BY <1>7, <2>1
  <2>3. ASSUME NEW s \in SUBSET (1 .. N), s # {}, it[s \ {Max(s)}] \in Nat
        PROVE  it[s] = step[<<it[s \ {Max(s)}], Max(s)>>]
    <3>1. Max(s) \in 1 .. N
      BY <1>1, <2>3, PlaceIn
    <3> QED BY <1>3, <1>7, <2>3, <3>1
  <2> HIDE DEF at
  <2> QED BY <2>2, <2>3 DEF StepsInto
<1>9. PICK D \in [0 .. N -> Nat] :
         Trace(D, N, 0, step) /\ it[1 .. N] = D[N]
  <2>1. Traced(it, Nat, N, 0, step)
    BY <1>1, <1>2, <1>8, FoldValues
  <2> QED BY <2>1 DEF Traced
<1>10. ASSUME NEW k \in 1 .. N PROVE D[k] = Added(line, D[k - 1], shifts[k])
  <2>1. k - 1 \in 0 .. N
    BY <1>1
  <2> QED BY <1>3, <1>9, <2>1 DEF Trace
<1>11. D[0] = 0
  BY <1>9 DEF Trace
<1> QED BY <1>6, <1>9, <1>10, <1>11 DEF N

LEMMA AdjustedType ==
    ASSUME NEW line \in Nat, NEW shifts \in Seq(Shift)
    PROVE  adjustLineForShifts(line, shifts) \in Nat
<1> DEFINE inside == {k \in DOMAIN shifts : shifts[k].start <= line /\ line < shifts[k].start + shifts[k].count}
           list == IF inside = {} THEN shifts ELSE SubSeq(shifts, 1, Min(inside) - 1)
           place == IF inside = {} THEN line ELSE shifts[Min(inside)].start
           total == FoldLeft(LAMBDA sum, s : IF s.start + s.count <= line THEN sum + s.count ELSE sum, 0, list)
<1>1. DOMAIN shifts = 1 .. Len(shifts) /\ Len(shifts) \in Nat /\ inside \subseteq 1 .. Len(shifts)
  OBVIOUS
<1>2. inside # {} => Min(inside) \in inside
  <2> HIDE DEF inside
  <2>1. inside \subseteq Nat
    BY <1>1
  <2> QED BY <2>1, MinIn
<1> HIDE DEF inside
<1>3. list \in Seq(Shift) /\ place \in Nat
  <2>1. CASE inside = {} BY <2>1
  <2>2. CASE inside # {}
    <3>1. PICK m \in 1 .. Len(shifts) : m = Min(inside)
      BY <1>1, <1>2, <2>2
    <3>2. shifts[m] \in Shift
      BY <1>1
    <3>3. SubSeq(shifts, 1, m - 1) \in Seq(Shift)
      BY <1>1
    <3> QED BY <2>2, <3>1, <3>2, <3>3 DEF Shift
  <2> QED BY <2>1, <2>2
<1> HIDE DEF list, place
<1>4. total \in Nat
  <2>1. PICK D \in [0 .. Len(list) -> Nat] : total = D[Len(list)]
    BY <1>3, SumSteps
  <2>2. Len(list) \in 0 .. Len(list)
    BY <1>3
  <2> QED BY <2>1, <2>2
<1> HIDE DEF total
<1>5. adjustLineForShifts(line, shifts) = IF total > place THEN 0 ELSE place - total
  BY DEF adjustLineForShifts, total, place, list, inside
<1> QED BY <1>3, <1>4, <1>5

LEMMA RecordedType ==
    ASSUME NEW shifts \in Seq(Shift), NEW spec \in LineSpec
    PROVE  Recorded(shifts, spec) \in Seq(Shift)
<1> DEFINE before == {k \in DOMAIN shifts : shifts[k].start <= spec.from}
           new == [start |-> spec.from, count |-> spec.to - spec.from + 1]
<1>1. new \in Shift
  BY DEF LineSpec, Shift
<1> HIDE DEF new
<1>2. Cardinality(before) \in 0 .. Len(shifts)
  <2>1. IsFiniteSet(1 .. Len(shifts)) /\ Cardinality(1 .. Len(shifts)) = Len(shifts)
    <3>1. PICK n \in Nat : n = Len(shifts)
      OBVIOUS
    <3>2. 1 \in Int /\ n \in Int
      OBVIOUS
    <3>3. IsFiniteSet(1 .. n) /\ Cardinality(1 .. n) = IF 1 > n THEN 0 ELSE n - 1 + 1
      BY <3>2, FS_Interval
    <3> QED BY <3>1, <3>3
  <2>2. before \subseteq 1 .. Len(shifts)
    OBVIOUS
  <2> HIDE DEF before
  <2>3. IsFiniteSet(before) /\ Cardinality(before) <= Len(shifts)
    BY <2>1, <2>2, FS_Subset
  <2> QED BY <2>3, FS_CardinalityType
<1> HIDE DEF before
<1>3. PICK c \in 0 .. Len(shifts) : c = Cardinality(before)
  BY <1>2
<1>4. InsertAt(shifts, c + 1, new) \in Seq(Shift)
  <2>1. SubSeq(shifts, 1, c + 1 - 1) \in Seq(Shift) /\ SubSeq(shifts, c + 1, Len(shifts)) \in Seq(Shift)
    <3>1. c + 1 \in Nat \ {0} /\ c + 1 - 1 = c /\ Len(shifts) \in Nat
      OBVIOUS
    <3>2. SubSeq(shifts, c + 1, Len(shifts)) \in Seq(Shift)
      BY <3>1, RestLines
    <3> QED BY <3>1, <3>2
  <2>2. <<new>> \in Seq(Shift)
    BY <1>1
  <2> QED BY <2>1, <2>2 DEF InsertAt
<1>5. Recorded(shifts, spec) = IF spec.symbol THEN shifts ELSE InsertAt(shifts, Cardinality(before) + 1, new)
  BY DEF Recorded, before, new
<1> QED BY <1>3, <1>4, <1>5

LEMMA RecordedSteps ==
    ASSUME NEW shifts \in Seq(Shift), NEW remove \in Seq(LineSpec)
    PROVE  \E D \in [0 .. Len(remove) -> Seq(Shift)] :
              /\ D[0] = shifts /\ FoldLeft(Recorded, shifts, remove) = D[Len(remove)]
              /\ \A k \in 1 .. Len(remove) : D[k] = Recorded(D[k - 1], remove[k])
<1> DEFINE N == Len(remove)
           step == [p \in Seq(Shift) \X (1 .. N) |-> Recorded(p[1], remove[p[2]])]
           at(it, s) == IF s = {} THEN shifts ELSE Recorded(it[s \ {Max(s)}], remove[Max(s)])
           it == CHOOSE it : it = [s \in SUBSET (1 .. N) |-> at(it, s)]
<1>1. N \in Nat /\ DOMAIN remove = 1 .. N /\ \A k \in 1 .. N : remove[k] \in LineSpec
  OBVIOUS
<1> HIDE DEF N
<1>2. shifts \in Seq(Shift) /\ step \in [Seq(Shift) \X (1 .. N) -> Seq(Shift)]
  BY <1>1, RecordedType
<1>3. \A x \in Seq(Shift), k \in 1 .. N : step[<<x, k>>] = Recorded(x, remove[k])
  OBVIOUS
<1> HIDE DEF step
<1>4. \E h : h = [s \in SUBSET (1 .. N) |-> at(h, s)]
  <2>1. PICK h \in [SUBSET (1 .. N) -> Seq(Shift)] : Folds(h, N, shifts, step)
    BY <1>1, <1>2, FoldExists
  <2>2. ASSUME NEW s \in SUBSET (1 .. N) PROVE h[s] = at(h, s)
    <3>1. h[s] = IF s = {} THEN shifts ELSE step[<<h[s \ {Max(s)}], Max(s)>>]
      BY <2>1 DEF Folds
    <3>2. CASE s = {} BY <3>1, <3>2
    <3>3. CASE s # {}
      <4>1. Max(s) \in 1 .. N
        BY <1>1, <3>3, PlaceIn
      <4>2. h[s \ {Max(s)}] \in Seq(Shift)
        OBVIOUS
      <4> QED BY <1>3, <3>1, <3>3, <4>1, <4>2
    <3> QED BY <3>2, <3>3
  <2> HIDE DEF at
  <2> QED BY <2>1, <2>2
<1>5. it = [s \in SUBSET (1 .. N) |-> at(it, s)]
  <2> HIDE DEF at
  <2> QED BY <1>4
<1>6. FoldLeft(Recorded, shifts, remove) = it[1 .. N]
  BY <1>1 DEF FoldLeft, MapThenFoldSet
<1> HIDE DEF it
<1>7. \A s \in SUBSET (1 .. N) : it[s] = at(it, s)
  <2> HIDE DEF at
  <2> QED BY <1>5
<1>8. StepsInto(it, Seq(Shift), N, shifts, step)
  <2>1. {} \in SUBSET (1 .. N)
    OBVIOUS
  <2>2. it[{}] = shifts
    BY <1>7, <2>1
  <2>3. ASSUME NEW s \in SUBSET (1 .. N), s # {}, it[s \ {Max(s)}] \in Seq(Shift)
        PROVE  it[s] = step[<<it[s \ {Max(s)}], Max(s)>>]
    <3>1. Max(s) \in 1 .. N
      BY <1>1, <2>3, PlaceIn
    <3> QED BY <1>3, <1>7, <2>3, <3>1
  <2> HIDE DEF at
  <2> QED BY <2>2, <2>3 DEF StepsInto
<1>9. PICK D \in [0 .. N -> Seq(Shift)] :
         Trace(D, N, shifts, step) /\ it[1 .. N] = D[N]
  <2>1. Traced(it, Seq(Shift), N, shifts, step)
    BY <1>1, <1>2, <1>8, FoldValues
  <2> QED BY <2>1 DEF Traced
<1>10. ASSUME NEW k \in 1 .. N PROVE D[k] = Recorded(D[k - 1], remove[k])
  <2>1. k - 1 \in 0 .. N
    BY <1>1
  <2> QED BY <1>3, <1>9, <2>1 DEF Trace
<1>11. D[0] = shifts
  BY <1>9 DEF Trace
<1> QED BY <1>6, <1>9, <1>10, <1>11 DEF N

LEMMA PlacesOfText ==
    ASSUME NEW S, NEW text \in Seq(S), NEW f, NEW s, Places(text, f, s) # {}
    PROVE  /\ Min(Places(text, f, s)) \in DOMAIN text /\ Max(Places(text, f, s)) \in DOMAIN text
           /\ \A i \in Places(text, f, s) : Min(Places(text, f, s)) <= i /\ i <= Max(Places(text, f, s))
<1>1. PICK P : P = Places(text, f, s)
  OBVIOUS
<1>2. P \subseteq 1 .. Len(text) /\ Len(text) \in Nat /\ DOMAIN text = 1 .. Len(text)
  BY <1>1 DEF Places
<1>3. P \subseteq 0 .. Len(text) /\ P \subseteq Nat
  BY <1>2
<1>4. Min(P) \in P /\ \A x \in P : Min(P) <= x
  BY <1>1, <1>3, MinIn
<1>5. Max(P) \in P /\ \A x \in P : Max(P) >= x
  BY <1>1, <1>2, <1>3, MaxIn
<1>6. \A x \in P : x <= Max(P)
  <2>1. PICK m \in 1 .. Len(text) : m = Max(P)
    BY <1>2, <1>5
  <2> QED BY <1>2, <1>5, <2>1
<1> QED BY <1>1, <1>2, <1>4, <1>5, <1>6

LEMMA FirstAndLast ==
    ASSUME NEW S, NEW text \in Seq(S), NEW f, NEW s, Places(text, f, s) # {}
    PROVE  Min(Places(text, f, s)) \in Places(text, f, s) /\ Max(Places(text, f, s)) \in Places(text, f, s)
<1>1. Places(text, f, s) \subseteq 0 .. Len(text) /\ Places(text, f, s) \subseteq Nat /\ Len(text) \in Nat
  BY DEF Places
<1> QED BY <1>1, MinIn, MaxIn

\* The lines that are removed with those of a symbol, on either side.
WidenedBy(text, m, n, a, b) ==
    /\ a \in 1 .. m /\ b \in n .. Len(text)
    /\ Widened(text, m, n) = [from |-> a, to |-> b]
    /\ \A i \in a .. m - 1 : text[i] \in Dressing
    /\ \A i \in n + 1 .. b : text[i] \in Dressing

LEMMA WidenedLines ==
    ASSUME NEW S, NEW text \in Seq(S), NEW m \in DOMAIN text, NEW n \in DOMAIN text
    PROVE  \E a, b \in Nat : WidenedBy(text, m, n, a, b)
<1> DEFINE tops == {i \in 1 .. m : \A j \in i .. m - 1 : text[j] \in Above}
           bottoms == {i \in n .. Len(text) : \A j \in n + 1 .. i : text[j] \in Below}
<1>1. m \in 1 .. Len(text) /\ n \in 1 .. Len(text) /\ Len(text) \in Nat
  OBVIOUS
<1>2. m \in tops /\ tops \subseteq Nat
  BY <1>1
<1>3. n \in bottoms /\ bottoms \subseteq 0 .. Len(text)
  BY <1>1
<1>4. PICK t \in tops : t = Min(tops)
  <2> HIDE DEF tops
  <2> QED BY <1>2, MinIn
<1>5. PICK b \in bottoms : b = Max(bottoms)
  <2> HIDE DEF bottoms
  <2> QED BY <1>1, <1>3, MaxIn
<1>6. Top(text, m) = t /\ Bottom(text, n) = b
  BY <1>4, <1>5 DEF Top, Bottom
<1>7. t \in 1 .. m /\ \A i \in t .. m - 1 : text[i] \in Dressing
  BY <1>1 DEF Dressing
<1>8. b \in n .. Len(text) /\ \A i \in n + 1 .. b : text[i] \in Dressing
  BY <1>1 DEF Dressing
<1> HIDE DEF tops, bottoms
<1>9. CASE Separated(text, t)
  <2>1. t - 1 \in 1 .. m /\ text[t - 1] \in Dressing
    BY <1>1, <1>7, <1>9 DEF Separated, Dressing
  <2>2. \A i \in t - 1 .. m - 1 : i = t - 1 \/ i \in t .. m - 1
    BY <1>1, <1>7
  <2>3. Widened(text, m, n) = [from |-> t - 1, to |-> b]
    BY <1>6, <1>9 DEF Widened
  <2>4. \A i \in t - 1 .. m - 1 : text[i] \in Dressing
    BY <1>7, <2>1, <2>2
  <2>5. WidenedBy(text, m, n, t - 1, b) /\ t - 1 \in Nat /\ b \in Nat
    BY <1>1, <1>8, <2>1, <2>3, <2>4 DEF WidenedBy
  <2> QED BY <2>5
<1>10. CASE ~Separated(text, t)
  <2>1. Widened(text, m, n) = [from |-> t, to |-> b]
    BY <1>6, <1>10 DEF Widened
  <2>2. WidenedBy(text, m, n, t, b) /\ t \in Nat /\ b \in Nat
    BY <1>1, <1>7, <1>8, <2>1 DEF WidenedBy
  <2> QED BY <2>2
<1> QED BY <1>9, <1>10

LEMMA SymbolRangeType ==
    ASSUME NEW S, NEW text \in Seq(S), NEW f, NEW ranges \in Seq(LineRange), NEW s \in LineSpec
    PROVE  SymbolRange(text, f, ranges, s) \in Seq(LineRange)
<1>1. CASE s.symbol /\ Places(text, f, s) # {}
  <2>1. PICK m, n \in DOMAIN text : m = Min(Places(text, f, s)) /\ n = Max(Places(text, f, s))
    BY <1>1, PlacesOfText
  <2>2. PICK a, b \in Nat : Widened(text, m, n) = [from |-> a, to |-> b]
    BY WidenedLines DEF WidenedBy
  <2>3. [from |-> a, to |-> b] \in LineRange
    BY DEF LineRange
  <2> QED BY <1>1, <2>1, <2>2, <2>3 DEF SymbolRange
<1> QED BY <1>1 DEF SymbolRange

LEMMA NumberRangeType ==
    ASSUME NEW shifts \in Seq(Shift), NEW ranges \in Seq(LineRange), NEW s \in LineSpec
    PROVE  NumberRange(shifts, ranges, s) \in Seq(LineRange)
<1>1. s.from \in Nat /\ s.to - s.from \in Nat
  BY DEF LineSpec
<1>2. PICK a \in Nat : a = adjustLineForShifts(s.from, shifts)
  BY <1>1, AdjustedType
<1>3. [from |-> a, to |-> a + (s.to - s.from)] \in LineRange
  BY <1>1 DEF LineRange
<1> QED BY <1>2, <1>3 DEF NumberRange

LEMMA SymbolSteps ==
    ASSUME NEW S, NEW text \in Seq(S), NEW f \in File, NEW remove \in Seq(LineSpec)
    PROVE  \E D \in [0 .. Len(remove) -> Seq(LineRange)] :
              /\ D[0] = << >> /\ SymbolRanges(text, f, remove) = D[Len(remove)]
              /\ \A k \in 1 .. Len(remove) : D[k] = SymbolRange(text, f, D[k - 1], remove[k])
<1> DEFINE N == Len(remove)
           step == [p \in Seq(LineRange) \X (1 .. N) |-> SymbolRange(text, f, p[1], remove[p[2]])]
           at(it, s) == IF s = {} THEN << >> ELSE SymbolRange(text, f, it[s \ {Max(s)}], remove[Max(s)])
           it == CHOOSE it : it = [s \in SUBSET (1 .. N) |-> at(it, s)]
<1>1. N \in Nat /\ DOMAIN remove = 1 .. N /\ \A k \in 1 .. N : remove[k] \in LineSpec
  OBVIOUS
<1> HIDE DEF N
<1>2. << >> \in Seq(LineRange) /\ step \in [Seq(LineRange) \X (1 .. N) -> Seq(LineRange)]
  BY <1>1, SymbolRangeType
<1>3. \A x \in Seq(LineRange), k \in 1 .. N : step[<<x, k>>] = SymbolRange(text, f, x, remove[k])
  OBVIOUS
<1> HIDE DEF step
<1>4. \E h : h = [s \in SUBSET (1 .. N) |-> at(h, s)]
  <2>1. PICK h \in [SUBSET (1 .. N) -> Seq(LineRange)] : Folds(h, N, << >>, step)
    BY <1>1, <1>2, FoldExists
  <2>2. ASSUME NEW s \in SUBSET (1 .. N) PROVE h[s] = at(h, s)
    <3>1. h[s] = IF s = {} THEN << >> ELSE step[<<h[s \ {Max(s)}], Max(s)>>]
      BY <2>1 DEF Folds
    <3>2. CASE s = {} BY <3>1, <3>2
    <3>3. CASE s # {}
      <4>1. Max(s) \in 1 .. N
        BY <1>1, <3>3, PlaceIn
      <4>2. h[s \ {Max(s)}] \in Seq(LineRange)
        OBVIOUS
      <4> QED BY <1>3, <3>1, <3>3, <4>1, <4>2
    <3> QED BY <3>2, <3>3
  <2> HIDE DEF at
  <2> QED BY <2>1, <2>2
<1>5. it = [s \in SUBSET (1 .. N) |-> at(it, s)]
  <2> HIDE DEF at
  <2> QED BY <1>4
<1>6. SymbolRanges(text, f, remove) = it[1 .. N]
  BY <1>1 DEF SymbolRanges, FoldLeft, MapThenFoldSet
<1> HIDE DEF it
<1>7. \A s \in SUBSET (1 .. N) : it[s] = at(it, s)
  <2> HIDE DEF at
  <2> QED BY <1>5
<1>8. StepsInto(it, Seq(LineRange), N, << >>, step)
  <2>1. {} \in SUBSET (1 .. N)
    OBVIOUS
  <2>2. it[{}] = << >>
    BY <1>7, <2>1
  <2>3. ASSUME NEW s \in SUBSET (1 .. N), s # {}, it[s \ {Max(s)}] \in Seq(LineRange)
        PROVE  it[s] = step[<<it[s \ {Max(s)}], Max(s)>>]
    <3>1. Max(s) \in 1 .. N
      BY <1>1, <2>3, PlaceIn
    <3> QED BY <1>3, <1>7, <2>3, <3>1
  <2> HIDE DEF at
  <2> QED BY <2>2, <2>3 DEF StepsInto
<1>9. PICK D \in [0 .. N -> Seq(LineRange)] :
         Trace(D, N, << >>, step) /\ it[1 .. N] = D[N]
  <2>1. Traced(it, Seq(LineRange), N, << >>, step)
    BY <1>1, <1>2, <1>8, FoldValues
  <2> QED BY <2>1 DEF Traced
<1>10. ASSUME NEW k \in 1 .. N PROVE D[k] = SymbolRange(text, f, D[k - 1], remove[k])
  <2>1. k - 1 \in 0 .. N
    BY <1>1
  <2> QED BY <1>3, <1>9, <2>1 DEF Trace
<1>11. D[0] = << >>
  BY <1>9 DEF Trace
<1> QED BY <1>6, <1>9, <1>10, <1>11 DEF N

LEMMA NumberSteps ==
    ASSUME NEW shifts \in Seq(Shift), NEW remove \in Seq(LineSpec)
    PROVE  \E D \in [0 .. Len(remove) -> Seq(LineRange)] :
              /\ D[0] = << >> /\ NumberRanges(shifts, remove) = D[Len(remove)]
              /\ \A k \in 1 .. Len(remove) : D[k] = NumberRange(shifts, D[k - 1], remove[k])
<1> DEFINE N == Len(remove)
           step == [p \in Seq(LineRange) \X (1 .. N) |-> NumberRange(shifts, p[1], remove[p[2]])]
           at(it, s) == IF s = {} THEN << >> ELSE NumberRange(shifts, it[s \ {Max(s)}], remove[Max(s)])
           it == CHOOSE it : it = [s \in SUBSET (1 .. N) |-> at(it, s)]
<1>1. N \in Nat /\ DOMAIN remove = 1 .. N /\ \A k \in 1 .. N : remove[k] \in LineSpec
  OBVIOUS
<1> HIDE DEF N
<1>2. << >> \in Seq(LineRange) /\ step \in [Seq(LineRange) \X (1 .. N) -> Seq(LineRange)]
  BY <1>1, NumberRangeType
<1>3. \A x \in Seq(LineRange), k \in 1 .. N : step[<<x, k>>] = NumberRange(shifts, x, remove[k])
  OBVIOUS
<1> HIDE DEF step
<1>4. \E h : h = [s \in SUBSET (1 .. N) |-> at(h, s)]
  <2>1. PICK h \in [SUBSET (1 .. N) -> Seq(LineRange)] : Folds(h, N, << >>, step)
    BY <1>1, <1>2, FoldExists
  <2>2. ASSUME NEW s \in SUBSET (1 .. N) PROVE h[s] = at(h, s)
    <3>1. h[s] = IF s = {} THEN << >> ELSE step[<<h[s \ {Max(s)}], Max(s)>>]
      BY <2>1 DEF Folds
    <3>2. CASE s = {} BY <3>1, <3>2
    <3>3. CASE s # {}
      <4>1. Max(s) \in 1 .. N
        BY <1>1, <3>3, PlaceIn
      <4>2. h[s \ {Max(s)}] \in Seq(LineRange)
        OBVIOUS
      <4> QED BY <1>3, <3>1, <3>3, <4>1, <4>2
    <3> QED BY <3>2, <3>3
  <2> HIDE DEF at
  <2> QED BY <2>1, <2>2
<1>5. it = [s \in SUBSET (1 .. N) |-> at(it, s)]
  <2> HIDE DEF at
  <2> QED BY <1>4
<1>6. NumberRanges(shifts, remove) = it[1 .. N]
  BY <1>1 DEF NumberRanges, FoldLeft, MapThenFoldSet
<1> HIDE DEF it
<1>7. \A s \in SUBSET (1 .. N) : it[s] = at(it, s)
  <2> HIDE DEF at
  <2> QED BY <1>5
<1>8. StepsInto(it, Seq(LineRange), N, << >>, step)
  <2>1. {} \in SUBSET (1 .. N)
    OBVIOUS
  <2>2. it[{}] = << >>
    BY <1>7, <2>1
  <2>3. ASSUME NEW s \in SUBSET (1 .. N), s # {}, it[s \ {Max(s)}] \in Seq(LineRange)
        PROVE  it[s] = step[<<it[s \ {Max(s)}], Max(s)>>]
    <3>1. Max(s) \in 1 .. N
      BY <1>1, <2>3, PlaceIn
    <3> QED BY <1>3, <1>7, <2>3, <3>1
  <2> HIDE DEF at
  <2> QED BY <2>2, <2>3 DEF StepsInto
<1>9. PICK D \in [0 .. N -> Seq(LineRange)] :
         Trace(D, N, << >>, step) /\ it[1 .. N] = D[N]
  <2>1. Traced(it, Seq(LineRange), N, << >>, step)
    BY <1>1, <1>2, <1>8, FoldValues
  <2> QED BY <2>1 DEF Traced
<1>10. ASSUME NEW k \in 1 .. N PROVE D[k] = NumberRange(shifts, D[k - 1], remove[k])
  <2>1. k - 1 \in 0 .. N
    BY <1>1
  <2> QED BY <1>3, <1>9, <2>1 DEF Trace
<1>11. D[0] = << >>
  BY <1>9 DEF Trace
<1> QED BY <1>6, <1>9, <1>10, <1>11 DEF N

\* The ranges of one symbol: its lines; those of any list are ranges of lines.
LEMMA RangesAre ==
    ASSUME NEW S, NEW f \in File, Content(f) \in Seq(S), call.lineShifts[f] \in Seq(Shift),
           NEW remove \in Seq(LineSpec)
    PROVE  /\ Ranges(f, remove) \in Seq(LineRange)
           /\ Len(remove) = 1 /\ remove[1].symbol =>
                Ranges(f, remove) = SymbolRange(Content(f), f, << >>, remove[1])
<1>1. PICK text \in Seq(S) : text = Content(f)
  OBVIOUS
<1>2. PICK shifts \in Seq(Shift) : shifts = call.lineShifts[f]
  OBVIOUS
<1> DEFINE a == SymbolRanges(text, f, remove)
           b == NumberRanges(shifts, remove)
<1>3. Ranges(f, remove) = a \o b
  BY <1>1, <1>2 DEF Ranges
<1>4. PICK A \in [0 .. Len(remove) -> Seq(LineRange)] :
         /\ A[0] = << >> /\ a = A[Len(remove)]
         /\ \A k \in 1 .. Len(remove) : A[k] = SymbolRange(text, f, A[k - 1], remove[k])
  BY SymbolSteps, SMTT(60)
<1>5. PICK B \in [0 .. Len(remove) -> Seq(LineRange)] :
         /\ B[0] = << >> /\ b = B[Len(remove)]
         /\ \A k \in 1 .. Len(remove) : B[k] = NumberRange(shifts, B[k - 1], remove[k])
  BY NumberSteps
<1> HIDE DEF a, b
<1>6. Len(remove) \in Nat /\ Len(remove) \in 0 .. Len(remove)
  OBVIOUS
<1>7. a \o b \in Seq(LineRange)
  BY <1>4, <1>5, <1>6
<1>8. ASSUME Len(remove) = 1, remove[1].symbol
      PROVE  Ranges(f, remove) = SymbolRange(Content(f), f, << >>, remove[1])
  <2>1. 1 \in 1 .. Len(remove) /\ 1 - 1 = 0
    BY <1>8
  <2>2. a = SymbolRange(text, f, << >>, remove[1])
    BY <1>4, <1>8, <2>1
  <2>3. b = << >>
    BY <1>5, <1>8, <2>1 DEF NumberRange
  <2>4. a \o << >> = a
    BY <1>4, <1>6
  <2> QED BY <1>1, <1>3, <2>2, <2>3, <2>4
<1> QED BY <1>3, <1>7, <1>8

(***************************************************************************)
(* Types: of the files, the call, and the data to roll it back.            *)
(***************************************************************************)
CallTyped(c) ==
    /\ c.step \in {"op", "create", "remove", "update", "respond"}
    /\ c.first \in DOMAIN c.ops /\ c.next \in c.first .. Len(c.ops) + 1
    /\ IsTexts(c.snapshots) /\ c.created \subseteq File
    /\ IsTexts(c.sourceContent) /\ IsTexts(c.targetContent)
    /\ DOMAIN c.targetContent = c.created
    /\ c.lineShifts \in [File -> Seq(Shift)]

Typed ==
    /\ disk \in [File -> Texts \cup {None}]
    /\ \A k \in DOMAIN given : IsData(given[k])
    /\ calls \in 0 .. MaxCalls /\ changes \in 0 .. MaxChanges
    /\ lost \subseteq File /\ foreign \subseteq File
    /\ call # NoCall => CallTyped(call)

LEMMA NewText ==
    ASSUME NEW f \in File
    PROVE  <<New(f)>> \in Texts /\ \A text \in Texts : <<New(f)>> \o text \in Texts
<1>1. 0 \in 0 .. Lines
  BY FileAssumption
<1>2. New(f) \in File \X (0 .. Lines)
  BY <1>1 DEF New
<1> QED BY <1>2 DEF Texts

LEMMA TextsWith ==
    ASSUME NEW texts, IsTexts(texts), NEW f \in File, NEW text \in Texts
    PROVE  /\ IsTexts(With(texts, f, text)) /\ DOMAIN With(texts, f, text) = DOMAIN texts \cup {f}
           /\ With(texts, f, text)[f] = text
           /\ \A g \in DOMAIN texts \ {f} : With(texts, f, text)[g] = texts[g]
BY DEF IsTexts, With

\* What the operation at work is made of.
LEMMA OpTyped ==
    ASSUME Inv, call # NoCall, call.step \in {"create", "remove", "update"}
    PROVE  /\ Op.remove \in Seq(LineSpec)
           /\ \A u \in Op.updates : u \in Update /\ u.line \in Nat
<1>1. Op \in Operations
  BY OpIsOperation
<1>2. Op \in Operation
  BY <1>1, OperationsAssumption
<1>3. Op.remove \in Seq(Removal) /\ Op.updates \subseteq Update
  BY <1>2 DEF Operation
<1>4. Removal \subseteq LineSpec
  BY FileAssumption DEF Removal, LineSpec
<1>5. \A u \in Update : u.line \in Nat
  BY FileAssumption DEF Update
<1> QED BY <1>3, <1>4, <1>5

LEMMA ContentTyped ==
    ASSUME Inv, Typed, call # NoCall, NEW f \in File, Content(f) # None
    PROVE  Content(f) \in Texts
BY DEF Content, Typed, CallTyped, IsTexts

LEMMA RollbackTyped ==
    ASSUME Typed, NEW data, IsData(data)
    PROVE  RolledBack(data) \in [File -> Texts \cup {None}]
BY DEF Typed, RolledBack, IsData, IsTexts, Mentions, Restored

\* The lines between two places of a text.
LEMMA PartOfText ==
    ASSUME NEW S, NEW text \in Seq(S), NEW m \in DOMAIN text, NEW n \in DOMAIN text
    PROVE  /\ SubSeq(text, m, n) \in Seq(S)
           /\ \A i \in DOMAIN text : m <= i /\ i <= n => text[i] \in ToSet(SubSeq(text, m, n))
<1>1. m \in 1 .. Len(text) /\ n \in 1 .. Len(text) /\ Len(text) \in Nat /\ DOMAIN text = 1 .. Len(text)
  OBVIOUS
<1>2. \A i \in m .. n : text[i] \in S
  BY <1>1
<1>3. PICK r : r = SubSeq(text, m, n)
  OBVIOUS
<1>4. /\ r \in Seq(S)
      /\ Len(r) = IF m <= n THEN n - m + 1 ELSE 0
      /\ \A k \in 1 .. n - m + 1 : r[k] = text[m + k - 1]
  BY <1>1, <1>2, <1>3, SubSeqProperties
<1>5. ASSUME NEW i \in DOMAIN text, m <= i, i <= n PROVE text[i] \in ToSet(r)
  <2>1. i - m + 1 \in 1 .. n - m + 1 /\ m + (i - m + 1) - 1 = i /\ m <= n
    BY <1>1, <1>5
  <2>2. DOMAIN r = 1 .. n - m + 1
    BY <1>4, <2>1
  <2>3. r[i - m + 1] = text[i]
    BY <1>4, <2>1
  <2> QED BY <2>1, <2>2, <2>3 DEF ToSet
<1> QED BY <1>3, <1>4, <1>5

LEMMA ExtractedTyped ==
    ASSUME Inv, Typed, call # NoCall, Source \in File, Content(Source) # None,
           Copied # {}
    PROVE  Extracted \in Texts
<1>1. PICK text \in Texts : text = Content(Source)
  BY ContentTyped
<1>2. PICK m, n \in DOMAIN text : m = Min(Copied) /\ n = Max(Copied)
  BY <1>1, PlacesOfText DEF Texts, Copied
<1>3. SubSeq(text, m, n) \in Texts
  BY <1>1, PartOfText DEF Texts
<1> QED BY <1>1, <1>2, <1>3 DEF Extracted

\* What a call has taken from the data it was given, or gives.
LEMMA CallDataTyped ==
    ASSUME Typed, call # NoCall
    PROVE  IsData(RollbackData(call))
BY DEF Typed, CallTyped, IsData, RollbackData

LEMMA InitTyped == Init => Typed
<1> SUFFICES ASSUME Init PROVE Typed
  OBVIOUS
<1>1. Lines \in Nat /\ \A f \in File, i \in 1 .. Lines : <<f, i>> \in File \X (0 .. Lines)
  BY FileAssumption
<1>2. \A f \in File : [i \in 1 .. Lines |-> <<f, i>>] \in Texts
  BY <1>1 DEF Texts
<1>3. disk \in [File -> Texts \cup {None}]
  BY <1>2 DEF Init
<1> QED BY <1>3, BoundsAssumption DEF Init, Typed

LEMMA RespondTyped ==
    ASSUME Inv, Typed, call # NoCall, Respond, disk' \in [File -> Texts \cup {None}]
    PROVE  Typed'
<1>1. PICK S : given \in Seq(S)
  BY DEF Inv, Shape
<1>2. given' = Append(given, RollbackData(call)) /\ call' = NoCall /\ calls' = calls /\ changes' = changes
      /\ foreign' = foreign
  BY DEF Respond, history
<1>3. \A k \in DOMAIN given' : given'[k] = RollbackData(call) \/ (k \in DOMAIN given /\ given'[k] = given[k])
  <2>1. PICK last : last = RollbackData(call)
    OBVIOUS
  <2>2. given \in Seq(S \cup {last}) /\ last \in S \cup {last}
    BY <1>1
  <2>3. PICK all : all = Append(given, last)
    OBVIOUS
  <2>4. /\ DOMAIN given = 1 .. Len(given) /\ DOMAIN all = 1 .. Len(given) + 1 /\ Len(given) \in Nat
        /\ \A k \in 1 .. Len(given) : all[k] = given[k]
        /\ all[Len(given) + 1] = last
    BY <2>2, <2>3
  <2>5. ASSUME NEW k \in DOMAIN all PROVE all[k] = last \/ (k \in DOMAIN given /\ all[k] = given[k])
    <3>1. k \in 1 .. Len(given) \/ k = Len(given) + 1
      BY <2>4
    <3>2. CASE k \in 1 .. Len(given) BY <2>4, <3>2
    <3>3. CASE k = Len(given) + 1 BY <2>4, <3>3
    <3> QED BY <3>1, <3>2, <3>3
  <2> QED BY <1>2, <2>1, <2>3, <2>5
<1>4. \A k \in DOMAIN given' : IsData(given'[k])
  BY <1>3, CallDataTyped DEF Typed
<1>5. lost' \subseteq File
  BY CallDataTyped DEF Respond, IsData, RollbackData, Typed
<1> QED BY <1>2, <1>4, <1>5 DEF Typed

LEMMA PauseTyped == ASSUME Inv, Typed, call # NoCall, Pause PROVE Typed'
<1>1. disk' \in [File -> Texts \cup {None}]
  BY DEF Pause, Typed
<1> QED BY <1>1, RespondTyped DEF Pause

LEMMA PauseOrRollBackTyped == ASSUME Inv, Typed, call # NoCall, PauseOrRollBack PROVE Typed'
<1>1. IsData(RollbackData(call))
  BY CallDataTyped
<1>2. RolledBack(RollbackData(call)) \in [File -> Texts \cup {None}]
  BY <1>1, RollbackTyped
<1>3. disk' \in [File -> Texts \cup {None}]
  BY <1>2 DEF PauseOrRollBack, Typed
<1> QED BY <1>3, RespondTyped DEF PauseOrRollBack

\* A step within a call.
LEMMA GoOnTyped ==
    ASSUME Typed, call' # NoCall, CallTyped(call'), disk' \in [File -> Texts \cup {None}],
           given' = given, calls' = calls, changes' = changes, foreign' = foreign, lost' \subseteq File
    PROVE  Typed'
BY DEF Typed

LEMMA ExecuteTyped ==
    ASSUME Inv, Typed, NEW ops \in Scripts, NEW first \in DOMAIN ops, NEW incremental \in BOOLEAN,
           Execute(ops, first, incremental)
    PROVE  Typed'
<1>1. /\ disk' = disk /\ given' = given /\ foreign' = {} /\ changes' = changes
      /\ calls' = calls + 1 /\ calls < MaxCalls /\ lost' \subseteq lost
  BY DEF Execute
<1>2. /\ call'.step = "op" /\ call'.ops = ops /\ call'.next = first /\ call'.first = first
      /\ call'.snapshots = Snapshots(ops) /\ call'.sourceContent = Snapshots(ops) /\ call'.created = {}
      /\ call'.targetContent = NoTexts /\ call'.lineShifts = [f \in File |-> << >>]
  BY DEF Execute
<1>3. call' # NoCall
  BY <1>2 DEF NoCall
<1>4. IsTexts(Snapshots(ops))
  BY DEF Typed, IsTexts, Snapshots
<1>5. IsTexts(NoTexts) /\ DOMAIN NoTexts = {}
  BY DEF IsTexts, NoTexts
<1>6. first \in DOMAIN ops /\ first \in first .. Len(ops) + 1
  <2>1. PICK n \in 1 .. MaxOps : ops \in [1 .. n -> Operations]
    BY DEF Scripts
  <2>2. n \in Nat /\ ops \in Seq(Operations)
    BY <2>1, BoundsAssumption
  <2> QED BY <2>2
<1>7. CallTyped(call')
  BY <1>2, <1>4, <1>5, <1>6 DEF CallTyped
<1>8. calls' \in 0 .. MaxCalls
  BY <1>1, BoundsAssumption DEF Typed
<1> QED BY <1>1, <1>3, <1>7, <1>8 DEF Typed

LEMMA FailTyped == ASSUME Typed, Fail PROVE Typed'
<1>1. Mutated \subseteq File
  BY CallDataTyped DEF Fail, Mutated, IsData, IsTexts, RollbackData
<1> QED BY <1>1 DEF Fail, Typed, history

LEMMA RollbackActionTyped == ASSUME Inv, Typed, Rollback PROVE Typed'
<1>1. PICK S : given \in Seq(S)
  BY DEF Inv, Shape
<1>2. Len(given) \in DOMAIN given /\ Last(given) = given[Len(given)]
  BY <1>1 DEF Rollback, Last
<1>3. IsData(Last(given))
  BY <1>2 DEF Typed
<1>4. disk' \in [File -> Texts \cup {None}]
  BY <1>3, RollbackTyped DEF Rollback, Typed
<1>5. \A k \in DOMAIN given' : k \in DOMAIN given /\ given'[k] = given[k]
  BY <1>1 DEF Rollback, Front
<1> QED BY <1>4, <1>5 DEF Rollback, Typed, history

LEMMA ExternalChangeTyped ==
    ASSUME Typed, NEW f \in File, NEW text \in {None, <<New(f)>>}, ExternalChange(f, text)
    PROVE  Typed'
<1>1. text \in Texts \cup {None}
  BY NewText
<1>2. disk' \in [File -> Texts \cup {None}]
  BY <1>1 DEF ExternalChange, Typed
<1>3. changes' \in 0 .. MaxChanges
  BY BoundsAssumption DEF ExternalChange, Typed
<1> QED BY <1>2, <1>3 DEF ExternalChange, Typed

LEMMA BeginOperationTyped == ASSUME Inv, Typed, call # NoCall, BeginOperation PROVE Typed'
<1>1. CASE GoOn(To("create")) /\ UNCHANGED <<disk, lost>>
  <2>1. call' = [call EXCEPT !.step = "create"] /\ DOMAIN call = CallFields
    BY <1>1, CallFieldsKept DEF GoOn, To
  <2>2. call' # NoCall /\ CallTyped(call')
    BY <2>1 DEF CallFields, NoCall, Typed, CallTyped
  <2> QED BY <1>1, <2>2 DEF GoOn, history, Typed
<1>2. CASE Pause
  BY <1>2, PauseTyped
<1> QED BY <1>1, <1>2 DEF BeginOperation

LEMMA CreatedTextTyped ==
    ASSUME Inv, Typed, call # NoCall, Create
    PROVE  Op.create \in File /\ CreatedText \in Texts
<1>1. /\ Op \in Operations /\ Op.create \in File
  BY OpIsOperation DEF Create, At
<1>2. CASE ~Op.extract
  BY <1>1, <1>2, NewText DEF CreatedText
<1>3. CASE Op.extract
  <2>1. Source \in File
    BY <1>1, <1>3, ExtractAssumption DEF Source
  <2>2. Extracted \in Texts
    BY <1>3, <2>1, ExtractedTyped DEF Create
  <2>3. Op.create \in DOMAIN call.targetContent => call.targetContent[Op.create] \in Texts
    BY DEF Typed, CallTyped, IsTexts
  <2>4. \A x, y \in Texts : x \o y \in Texts
    BY DEF Texts
  <2> QED BY <1>1, <1>3, <2>2, <2>3, <2>4 DEF CreatedText
<1> QED BY <1>2, <1>3

LEMMA CreateTyped == ASSUME Inv, Typed, call # NoCall, Create PROVE Typed'
<1> DEFINE w == Op.create
           text == CreatedText
<1>1. CASE PauseOrRollBack
  BY <1>1, PauseOrRollBackTyped
<1>2. CASE /\ disk' = [disk EXCEPT ![w] = text]
           /\ lost' = lost \cup ({f \in {w} : began[f] # None} \ MentionedBefore)
           /\ GoOn([call EXCEPT !.step = "remove", !.created = @ \cup {w},
                                !.targetContent = With(@, w, text)])
  <2>1. w \in File /\ text \in Texts
    BY CreatedTextTyped
  <2> HIDE DEF w, text
  <2>2. /\ call' = [call EXCEPT !.step = "remove", !.created = @ \cup {w}, !.targetContent = With(@, w, text)]
        /\ given' = given /\ calls' = calls /\ changes' = changes /\ foreign' = foreign
    BY <1>2 DEF GoOn, history
  <2>3. /\ call'.step = "remove" /\ call'.ops = call.ops /\ call'.next = call.next /\ call'.first = call.first
        /\ call'.snapshots = call.snapshots /\ call'.created = call.created \cup {w}
        /\ call'.sourceContent = call.sourceContent /\ call'.lineShifts = call.lineShifts
        /\ call'.targetContent = With(call.targetContent, w, text) /\ DOMAIN call' = CallFields
    BY <2>2, CallFieldsKept DEF CallFields
  <2>4. IsTexts(With(call.targetContent, w, text)) /\ DOMAIN With(call.targetContent, w, text) = call.created \cup {w}
    <3>1. IsTexts(call.targetContent) /\ DOMAIN call.targetContent = call.created
      BY DEF Typed, CallTyped
    <3>2. PICK texts : texts = call.targetContent /\ IsTexts(texts)
      BY <3>1
    <3>3. PICK v \in File, new \in Texts : v = w /\ new = text
      BY <2>1
    <3>4. IsTexts(With(texts, v, new)) /\ DOMAIN With(texts, v, new) = DOMAIN texts \cup {v}
      BY <3>2, TextsWith
    <3> QED BY <3>1, <3>2, <3>3, <3>4
  <2>5. call' # NoCall /\ CallTyped(call')
    BY <2>1, <2>3, <2>4 DEF CallFields, NoCall, Typed, CallTyped
  <2>6. disk' \in [File -> Texts \cup {None}] /\ lost' \subseteq File
    BY <1>2, <2>1 DEF Typed
  <2> QED BY <2>2, <2>5, <2>6, GoOnTyped
<1> QED BY <1>1, <1>2 DEF Create

LEMMA NoCreateTyped == ASSUME Inv, Typed, call # NoCall, NoCreate PROVE Typed'
<1>1. call' = [call EXCEPT !.step = "remove"] /\ DOMAIN call = CallFields
  BY CallFieldsKept DEF NoCreate, GoOn, To
<1>2. call' # NoCall /\ CallTyped(call')
  BY <1>1 DEF CallFields, NoCall, Typed, CallTyped
<1> QED BY <1>2 DEF NoCreate, GoOn, history, Typed

\* The text that is left when lines were removed from a source, and the shifts.
LEMMA RemovedTyped ==
    ASSUME Inv, Typed, call # NoCall, call.step = "remove", Source \in File, Content(Source) # None
    PROVE  /\ Content(Source) \in Texts
           /\ Ranges(Source, Op.remove) \in Seq(LineRange)
           /\ Deleted(Content(Source), Ranges(Source, Op.remove)) \in Texts
           /\ Shifts \in Seq(Shift)
<1>1. Op.remove \in Seq(LineSpec)
  BY OpTyped
<1>2. PICK text \in Texts : text = Content(Source)
  BY ContentTyped
<1>3. PICK shifts \in Seq(Shift) : shifts = call.lineShifts[Source]
  BY DEF Typed, CallTyped
<1>4. Ranges(Source, Op.remove) \in Seq(LineRange)
  BY <1>1, <1>2, <1>3, RangesAre DEF Texts
<1>5. PICK ranges \in Seq(LineRange) : ranges = Ranges(Source, Op.remove)
  BY <1>4
<1>6. Deleted(text, ranges) \in Texts
  <2>1. PICK D \in [0 .. Len(ranges) -> Texts] : Deleted(text, ranges) = D[Len(ranges)]
    BY <1>5, DeletedSteps DEF Texts
  <2>2. Len(ranges) \in 0 .. Len(ranges)
    BY <1>5
  <2> QED BY <2>1, <2>2
<1>7. Shifts \in Seq(Shift)
  <2>1. PICK remove \in Seq(LineSpec) : remove = Op.remove
    BY <1>1
  <2>2. PICK D \in [0 .. Len(remove) -> Seq(Shift)] : FoldLeft(Recorded, shifts, remove) = D[Len(remove)]
    BY <1>3, <2>1, RecordedSteps
  <2>3. Len(remove) \in 0 .. Len(remove)
    BY <2>1
  <2>4. Shifts = FoldLeft(Recorded, shifts, remove)
    BY <1>3, <2>1 DEF Shifts
  <2> QED BY <2>2, <2>3, <2>4
<1> QED BY <1>2, <1>4, <1>5, <1>6, <1>7

LEMMA RemoveLinesTyped == ASSUME Inv, Typed, call # NoCall, RemoveLines PROVE Typed'
<1> DEFINE text == Deleted(Content(Source), Ranges(Source, Op.remove))
<1>1. CASE PauseOrRollBack
  BY <1>1, PauseOrRollBackTyped
<1>2. ASSUME NEW new \in {text} \cup {<<New(Source)>> \o text},
             disk' = [disk EXCEPT ![Source] = new],
             GoOn([call EXCEPT !.step = "update", !.updates = Op.updates,
                               !.sourceContent = With(@, Source, new),
                               !.lineShifts[Source] = Shifts]),
             UNCHANGED lost
      PROVE  Typed'
  <2>1. call.step = "remove" /\ Source \in File /\ Content(Source) # None
    BY OpIsOperation DEF RemoveLines, At, Source
  <2>2. text \in Texts /\ Shifts \in Seq(Shift)
    BY <2>1, RemovedTyped
  <2> HIDE DEF text
  <2>3. PICK w \in File : w = Source
    BY <2>1
  <2>4. new \in Texts
    BY <1>2, <2>2, <2>3, NewText
  <2>5. PICK shifts \in Seq(Shift) : shifts = Shifts
    BY <2>2
  <2>6. /\ call' = [call EXCEPT !.step = "update", !.updates = Op.updates,
                                !.sourceContent = With(@, w, new), !.lineShifts[w] = shifts]
        /\ given' = given /\ calls' = calls /\ changes' = changes /\ foreign' = foreign
    BY <1>2, <2>3, <2>5 DEF GoOn, history
  <2>7. /\ call'.step = "update" /\ call'.ops = call.ops /\ call'.next = call.next /\ call'.first = call.first
        /\ call'.snapshots = call.snapshots /\ call'.created = call.created
        /\ call'.targetContent = call.targetContent
        /\ call'.sourceContent = With(call.sourceContent, w, new)
        /\ call'.lineShifts = [call.lineShifts EXCEPT ![w] = shifts] /\ DOMAIN call' = CallFields
    BY <2>6, CallFieldsKept DEF CallFields
  <2>8. IsTexts(With(call.sourceContent, w, new))
    <3>1. IsTexts(call.sourceContent)
      BY DEF Typed, CallTyped
    <3>2. PICK texts : texts = call.sourceContent
      OBVIOUS
    <3> QED BY <2>4, <3>1, <3>2, TextsWith
  <2>9. call' # NoCall /\ CallTyped(call')
    BY <2>7, <2>8 DEF CallFields, NoCall, Typed, CallTyped
  <2>10. disk' \in [File -> Texts \cup {None}] /\ lost' \subseteq File
    BY <1>2, <2>3, <2>4 DEF Typed
  <2> QED BY <2>6, <2>9, <2>10, GoOnTyped
<1> QED BY <1>1, <1>2 DEF RemoveLines

LEMMA NoRemovalTyped == ASSUME Inv, Typed, call # NoCall, NoRemoval PROVE Typed'
<1>1. call' = [call EXCEPT !.step = "update", !.updates = Op.updates] /\ DOMAIN call = CallFields
  BY CallFieldsKept DEF NoRemoval, GoOn
<1>2. call' # NoCall /\ CallTyped(call')
  BY <1>1 DEF CallFields, NoCall, Typed, CallTyped
<1> QED BY <1>2 DEF NoRemoval, GoOn, history, Typed

LEMMA PutTyped ==
    ASSUME NEW text \in Texts, NEW line \in Nat \ {0}, NEW count \in Nat, NEW new \in Texts
    PROVE  Put(text, line, count, new) \in Texts
<1>1. Before(text, line) \in Texts
  BY BeforeLines DEF Texts
<1>2. SubSeq(text, line + count, Len(text)) \in Texts
  <2>1. line + count \in Nat \ {0}
    OBVIOUS
  <2> QED BY <2>1, RestLines DEF Texts
<1>3. \A x, y, z \in Texts : x \o y \o z \in Texts
  BY DEF Texts
<1> QED BY <1>1, <1>2, <1>3 DEF Put

\* What an update moves or writes is lines, wherever its numbers point to.
LEMMA UpdatedTyped ==
    ASSUME NEW text \in Texts, NEW u \in Update, NEW line \in Nat \ {0}, u.action = "move" => u.to > 0
    PROVE  UpdatedTexts(text, u, line) \subseteq Texts
<1>1. /\ u.file \in File /\ u.end \in Nat /\ u.size \in Nat /\ u.repeats \in Nat /\ u.to \in Nat
      /\ u.action \in {"insert_before", "insert_after", "replace", "replace_body", "move"}
  BY FileAssumption DEF Update
<1>2. Len(text) \in Nat
  BY DEF Texts
<1>3. PICK count \in Nat : count = Span(u, line)
  BY <1>1 DEF Span
<1>4. CASE u.action = "move"
  <2> DEFINE at == IF u.to <= line THEN u.to ELSE IF u.to > count THEN u.to - count ELSE 1
             last == IF line + count - 1 <= Len(text) THEN line + count - 1 ELSE Len(text)
  <2>1. at \in Nat \ {0}
    BY <1>1, <1>4
  <2>2. last \in Nat /\ last <= Len(text) /\ Min({line + count - 1, Len(text)}) = last
    <3>1. line + count - 1 \in Nat
      OBVIOUS
    <3> QED BY <1>2, <3>1, MinOfTwo
  <2>3. SubSeq(text, line, last) \in Texts
    <3>1. \A i \in line .. last : text[i] \in File \X (0 .. Lines)
      BY <1>2, <2>2 DEF Texts
    <3> HIDE DEF last
    <3> QED BY <2>2, <3>1, SubSeqProperties DEF Texts
  <2>4. << >> \in Texts
    BY DEF Texts
  <2>5. PICK rest \in Texts : rest = Put(text, line, count, << >>)
    BY <2>4, PutTyped
  <2>6. 0 \in Nat
    OBVIOUS
  <2>7. Put(rest, at, 0, SubSeq(text, line, last)) \in Texts
    <3> HIDE DEF at, last
    <3> QED BY <2>1, <2>3, <2>6, PutTyped
  <2>8. Moved(text, u, line) = Put(rest, at, 0, SubSeq(text, line, last))
    <3> HIDE DEF last
    <3> QED BY <1>3, <2>2, <2>5 DEF Moved
  <2> HIDE DEF at, last
  <2> QED BY <1>4, <2>7, <2>8 DEF UpdatedTexts
<1>5. CASE u.action # "move"
  <2>1. Written(u) \in Texts
    <3>1. 0 \in 0 .. Lines
      BY FileAssumption
    <3>2. New(u.file) \in File \X (0 .. Lines)
      BY <1>1, <3>1 DEF New
    <3> QED BY <1>1, <3>2 DEF Written, Texts
  <2>2. ASSUME NEW r \in Replaced(text, u, line) PROVE r.from \in Nat \ {0} /\ r.count \in Nat
    <3>1. CASE u.action = "insert_before"
      BY <2>2, <3>1 DEF Replaced
    <3>2. CASE u.action = "insert_after"
      BY <2>2, <3>2 DEF Replaced
    <3>3. CASE u.action = "replace"
      <4>1. PICK k \in 0 .. u.repeats : r = [from |-> line, count |-> count + k]
        BY <1>3, <2>2, <3>3 DEF Replaced
      <4> QED BY <1>1, <4>1
    <3>4. CASE u.action = "replace_body"
      <4>1. r \in Bodies(text, u, line)
        BY <2>2, <3>4 DEF Replaced
      <4>2. PICK last \in Nat : r \in [from : line + 1 .. last + 1, count : 0 .. last]
        BY <1>1, <1>2, <4>1 DEF Bodies
      <4> QED BY <4>2
    <3> QED BY <1>1, <1>5, <3>1, <3>2, <3>3, <3>4
  <2>3. ASSUME NEW r \in Replaced(text, u, line) PROVE Put(text, r.from, r.count, Written(u)) \in Texts
    <3>1. PICK from \in Nat \ {0}, n \in Nat : from = r.from /\ n = r.count
      BY <2>2
    <3> QED BY <2>1, <3>1, PutTyped
  <2> QED BY <1>5, <2>3 DEF UpdatedTexts
<1> QED BY <1>4, <1>5

LEMMA UpdateLinesTyped ==
    ASSUME Inv, Typed, call # NoCall, NEW u \in call.updates, UpdateLines(u)
    PROVE  Typed'
<1> DEFINE w == u.file
           line == adjustLineForShifts(u.line, call.lineShifts[u.file])
<1>1. CASE PauseOrRollBack
  BY <1>1, PauseOrRollBackTyped
<1>2. ASSUME NEW text \in UpdatedTexts(Content(w), u, line), disk' = [disk EXCEPT ![w] = text],
             GoOn([call EXCEPT !.updates = @ \ {u}, !.sourceContent = With(@, w, text)]), UNCHANGED lost
      PROVE  Typed'
  <2>1. call.step = "update" /\ Content(w) # None /\ line >= 1 /\ (u.action = "move" => u.to > 0)
    BY DEF UpdateLines, At, Applies
  <2>2. call.updates \subseteq Op.updates
    BY <2>1, CallFieldsKept DEF CallShape
  <2>3. w \in File /\ u \in Update /\ u.line \in Nat
    BY <2>1, <2>2, OpIsOperation, OpTyped
  <2>4. PICK shifts \in Seq(Shift) : shifts = call.lineShifts[u.file]
    BY <2>3 DEF Typed, CallTyped
  <2>5. line \in Nat \ {0}
    <3>1. PICK n \in Nat : n = adjustLineForShifts(u.line, shifts)
      BY <2>3, <2>4, AdjustedType
    <3> QED BY <2>1, <2>4, <3>1
  <2>6. Content(w) \in Texts
    BY <2>1, <2>3, ContentTyped
  <2> HIDE DEF line
  <2>7. text \in Texts
    BY <1>2, <2>1, <2>3, <2>5, <2>6, UpdatedTyped
  <2> HIDE DEF w
  <2>8. /\ call' = [call EXCEPT !.updates = @ \ {u}, !.sourceContent = With(@, w, text)]
        /\ given' = given /\ calls' = calls /\ changes' = changes /\ foreign' = foreign
    BY <1>2 DEF GoOn, history
  <2>9. /\ call'.step = call.step /\ call'.ops = call.ops /\ call'.next = call.next /\ call'.first = call.first
        /\ call'.snapshots = call.snapshots /\ call'.created = call.created
        /\ call'.targetContent = call.targetContent
        /\ call'.sourceContent = With(call.sourceContent, w, text)
        /\ call'.lineShifts = call.lineShifts /\ DOMAIN call' = CallFields
    BY <2>8, CallFieldsKept DEF CallFields
  <2>10. IsTexts(With(call.sourceContent, w, text))
    <3>1. IsTexts(call.sourceContent)
      BY DEF Typed, CallTyped
    <3>2. PICK texts : texts = call.sourceContent
      OBVIOUS
    <3> QED BY <2>3, <2>7, <3>1, <3>2, TextsWith
  <2>11. call' # NoCall /\ CallTyped(call')
    BY <2>9, <2>10 DEF CallFields, NoCall, Typed, CallTyped
  <2>12. disk' \in [File -> Texts \cup {None}] /\ lost' \subseteq File
    BY <1>2, <2>3, <2>7 DEF Typed
  <2> QED BY <2>8, <2>11, <2>12, GoOnTyped
<1> QED BY <1>1, <1>2 DEF UpdateLines

LEMMA EndOperationTyped == ASSUME Inv, Typed, call # NoCall, EndOperation PROVE Typed'
<1>1. call' = [call EXCEPT !.step = "op", !.next = @ + 1] /\ DOMAIN call = CallFields
  BY CallFieldsKept DEF EndOperation, GoOn
<1>2. /\ call'.step = "op" /\ call'.ops = call.ops /\ call'.next = call.next + 1 /\ call'.first = call.first
      /\ call'.snapshots = call.snapshots /\ call'.created = call.created
      /\ call'.targetContent = call.targetContent /\ call'.sourceContent = call.sourceContent
      /\ call'.lineShifts = call.lineShifts /\ DOMAIN call' = CallFields
  BY <1>1 DEF CallFields
<1>3. call.next \in DOMAIN call.ops /\ call.ops \in Seq(Operations)
  BY DEF EndOperation, At, Inv, Shape, CallShape
<1>4. call.next + 1 \in call.first .. Len(call.ops) + 1
  BY <1>3 DEF Typed, CallTyped
<1>5. call' # NoCall /\ CallTyped(call')
  BY <1>2, <1>4 DEF CallFields, NoCall, Typed, CallTyped
<1> QED BY <1>5 DEF EndOperation, GoOn, history, Typed

LEMMA RewriteImportsTyped ==
    ASSUME Inv, Typed, call # NoCall, NEW rewritten \in SUBSET Consumers, RewriteImports(rewritten)
    PROVE  Typed'
<1>1. /\ disk' = [f \in File |-> IF f \in rewritten THEN <<New(f)>> \o disk[f] ELSE disk[f]]
      /\ call' = [call EXCEPT !.step = "respond", !.snapshots = WithConsumers(@, rewritten)]
      /\ lost' = lost /\ given' = given /\ calls' = calls /\ changes' = changes /\ foreign' = foreign
      /\ \A f \in rewritten : disk[f] # None
  BY DEF RewriteImports, GoOn, history
<1>2. rewritten \subseteq File
  BY DEF Consumers
<1>3. /\ call'.step = "respond" /\ call'.ops = call.ops /\ call'.next = call.next /\ call'.first = call.first
      /\ call'.snapshots = WithConsumers(call.snapshots, rewritten) /\ call'.created = call.created
      /\ call'.targetContent = call.targetContent /\ call'.sourceContent = call.sourceContent
      /\ call'.lineShifts = call.lineShifts /\ DOMAIN call' = CallFields
  BY <1>1, CallFieldsKept DEF CallFields
<1>4. \A f \in rewritten : disk[f] \in Texts
  BY <1>1, <1>2 DEF Typed
<1>5. IsTexts(WithConsumers(call.snapshots, rewritten))
  BY <1>2, <1>4 DEF WithConsumers, IsTexts, Typed, CallTyped
<1>6. call' # NoCall /\ CallTyped(call')
  BY <1>3, <1>5 DEF CallFields, NoCall, Typed, CallTyped
<1>7. disk' \in [File -> Texts \cup {None}]
  <2>1. ASSUME NEW f \in File PROVE disk'[f] \in Texts \cup {None}
    BY <1>1, <1>4, NewText DEF Typed
  <2> QED BY <1>1, <2>1
<1> QED BY <1>1, <1>6, <1>7, GoOnTyped DEF Typed

LEMMA NextKeepsTyped == Inv /\ Typed /\ [Next]_vars => Typed'
<1> SUFFICES ASSUME Inv, Typed, [Next]_vars PROVE Typed'
  OBVIOUS
<1>1. CASE \E ops \in Scripts : \E first \in DOMAIN ops, incremental \in BOOLEAN : Execute(ops, first, incremental)
  BY <1>1, ExecuteTyped
<1>2. CASE call # NoCall /\ Steps
  <2>1. CASE Done
    BY <1>2, <2>1, PauseTyped DEF Done
  <2> QED BY <1>2, <2>1, BeginOperationTyped, CreateTyped, NoCreateTyped, RemoveLinesTyped,
             NoRemovalTyped, UpdateLinesTyped, EndOperationTyped, RewriteImportsTyped DEF Steps
<1>3. CASE Fail
  BY <1>3, FailTyped
<1>4. CASE Rollback
  BY <1>4, RollbackActionTyped
<1>5. CASE \E f \in File : \E text \in {None, <<New(f)>>} : ExternalChange(f, text)
  BY <1>5, ExternalChangeTyped
<1>6. CASE UNCHANGED vars
  BY <1>6 DEF vars, Typed
<1> QED BY <1>1, <1>2, <1>3, <1>4, <1>5, <1>6 DEF Next

LEMMA TypedIsTypeOK == Typed => TypeOK
BY DEF Typed, CallTyped, TypeOK, IsData, RollbackData

(***************************************************************************)
(* What is extracted from a source is in a target before it is removed.    *)
(***************************************************************************)
\* The files the symbols of f go to.
Targets(f) == {call.ops[j].create : j \in {k \in DOMAIN call.ops : Removes(call.ops[k], f)}}

\* A call creates what its operations create, and has the text of the files to be snapshot.
CreatedByOps ==
    call # NoCall =>
        /\ call.created \subseteq {call.ops[j].create : j \in DOMAIN call.ops}
        /\ call.step # "respond" => DOMAIN call.snapshots \subseteq DOMAIN call.sourceContent

\* Every line of f is in f or in a target; the targets are as the call wrote them; and what is
\* about to be removed from f is in the target already.
LinesKept(f) ==
    ToSet(call.snapshots[f]) \ Dressing \subseteq
        ToSet(disk[f]) \cup UNION {ToSet(disk[g]) : g \in Targets(f) \cap call.created}
TargetsWritten(f) ==
    call.step # "respond" => \A g \in Targets(f) \cap call.created : disk[g] = call.targetContent[g]
CopiedFirst(f) ==
    call.step = "remove" /\ Removes(Op, f) =>
        Op.create \in call.created /\ ToSet(Extracted) \subseteq ToSet(disk[Op.create])
CodeKept ==
    call # NoCall =>
        \A f \in DOMAIN call.snapshots \ foreign :
            OnlyExtracted(f) => LinesKept(f) /\ TargetsWritten(f) /\ CopiedFirst(f)

KeepInv == Inv /\ Typed /\ CreatedByOps /\ CodeKept

\* Lines of texts that are put together.
LEMMA LinesOfBoth ==
    ASSUME NEW S, NEW x \in Seq(S), NEW y \in Seq(S)
    PROVE  ToSet(x \o y) = ToSet(x) \cup ToSet(y)
<1>1. /\ Len(x) \in Nat /\ Len(y) \in Nat /\ DOMAIN x = 1 .. Len(x) /\ DOMAIN y = 1 .. Len(y)
      /\ DOMAIN (x \o y) = 1 .. Len(x) + Len(y)
      /\ \A i \in 1 .. Len(x) + Len(y) : (x \o y)[i] = IF i <= Len(x) THEN x[i] ELSE y[i - Len(x)]
  OBVIOUS
<1>2. ASSUME NEW i \in 1 .. Len(x) + Len(y) PROVE (x \o y)[i] \in ToSet(x) \cup ToSet(y)
  <2>1. CASE i <= Len(x)
    <3>1. i \in DOMAIN x
      BY <1>1, <2>1
    <3> QED BY <1>1, <2>1, <3>1 DEF ToSet
  <2>2. CASE ~(i <= Len(x))
    <3>1. i - Len(x) \in DOMAIN y
      BY <1>1, <2>2
    <3> QED BY <1>1, <2>2, <3>1 DEF ToSet
  <2> QED BY <2>1, <2>2
<1>3. ASSUME NEW i \in DOMAIN x PROVE x[i] \in ToSet(x \o y)
  <2>1. i \in 1 .. Len(x) + Len(y) /\ i <= Len(x)
    BY <1>1
  <2>2. (x \o y)[i] = x[i] /\ i \in DOMAIN (x \o y)
    BY <1>1, <2>1
  <2> QED BY <2>2 DEF ToSet
<1>4. ASSUME NEW i \in DOMAIN y PROVE y[i] \in ToSet(x \o y)
  <2>1. i + Len(x) \in 1 .. Len(x) + Len(y) /\ ~(i + Len(x) <= Len(x)) /\ (i + Len(x)) - Len(x) = i
    BY <1>1
  <2>2. (x \o y)[i + Len(x)] = y[i] /\ i + Len(x) \in DOMAIN (x \o y)
    BY <1>1, <2>1
  <2> QED BY <2>2 DEF ToSet
<1>5. ToSet(x) = {x[i] : i \in DOMAIN x} /\ ToSet(y) = {y[i] : i \in DOMAIN y}
      /\ ToSet(x \o y) = {(x \o y)[i] : i \in DOMAIN (x \o y)}
  BY DEF ToSet
<1> QED BY <1>1, <1>2, <1>3, <1>4, <1>5

\* The lines of a text but those that were removed are left.
LEMMA DeletedRest ==
    ASSUME NEW S, NEW text \in Seq(S), NEW m \in DOMAIN text, NEW n \in DOMAIN text, m <= n
    PROVE  \A i \in DOMAIN text : text[i] \in ToSet(Delete(text, [from |-> m, to |-> n])) \/ (m <= i /\ i <= n)
<1>1. m \in Nat /\ n + 1 \in Nat \ {0} /\ DOMAIN text = 1 .. Len(text) /\ Len(text) \in Nat
  OBVIOUS
<1>2. PICK a \in Seq(S) : a = Before(text, m) /\ \A i \in 1 .. Len(text) : i < m => i \in DOMAIN a /\ a[i] = text[i]
  <2>1. /\ Before(text, m) \in Seq(S)
        /\ \A i \in 1 .. Len(text) : i < m =>
              i \in DOMAIN Before(text, m) /\ Before(text, m)[i] = text[i]
    BY <1>1, BeforeLines
  <2> QED BY <2>1
<1>3. PICK b \in Seq(S) : b = SubSeq(text, n + 1, Len(text))
           /\ \A i \in 1 .. Len(text) : i >= n + 1 => \E k \in DOMAIN b : b[k] = text[i]
  <2>1. PICK l \in Nat \ {0} : l = n + 1
    BY <1>1
  <2>2. /\ SubSeq(text, l, Len(text)) \in Seq(S)
        /\ \A i \in 1 .. Len(text) : i >= l =>
              \E k \in DOMAIN SubSeq(text, l, Len(text)) : SubSeq(text, l, Len(text))[k] = text[i]
    BY RestLines
  <2> QED BY <2>1, <2>2
<1>4. Delete(text, [from |-> m, to |-> n]) = a \o b
  BY <1>2, <1>3 DEF Delete
<1>5. ToSet(a \o b) = ToSet(a) \cup ToSet(b)
  BY LinesOfBoth
<1>6. ASSUME NEW i \in DOMAIN text, ~(m <= i /\ i <= n) PROVE text[i] \in ToSet(a) \cup ToSet(b)
  <2>1. CASE i < m
    BY <1>1, <1>2, <2>1 DEF ToSet
  <2>2. CASE i >= n + 1
    <3>1. PICK k \in DOMAIN b : b[k] = text[i]
      BY <1>1, <1>3, <2>2
    <3> QED BY <3>1 DEF ToSet
  <2> QED BY <1>1, <1>6, <2>1, <2>2
<1> QED BY <1>4, <1>5, <1>6

\* What OnlyExtracted says of the operation at work.
LEMMA OpOnlyExtracts ==
    ASSUME Inv, call # NoCall, call.step \in {"create", "remove", "update"}, NEW f, OnlyExtracted(f)
    PROVE  /\ Op.source = f => Op.extract /\ LinesOf(Op.remove[1]) \subseteq LinesOf(Op.copy)
           /\ Op.create # f /\ Op.source \notin Targets(f)
           /\ Op.create \in Targets(f) => Op.extract /\ ~Op.raw
           /\ \A u \in Op.updates : u.file \notin Targets(f) \cup {f}
           /\ Removes(Op, f) => Op.create \in Targets(f)
<1>1. call.next \in DOMAIN call.ops /\ Op = call.ops[call.next]
  BY DEF Inv, Shape, CallShape, Op
<1> QED BY <1>1 DEF OnlyExtracted, Targets

\* A source of extracts is not created, and the call's text of it is what is on disk.
LEMMA SourceOfExtracts ==
    ASSUME KeepInv, call # NoCall, call.step # "respond",
           NEW f \in DOMAIN call.snapshots \ foreign, OnlyExtracted(f)
    PROVE  f \in File /\ f \notin call.created /\ Content(f) = disk[f]
<1>1. f \in File
  BY DEF KeepInv, Inv, Shape, CallShape
<1>2. f \notin call.created
  BY DEF KeepInv, CreatedByOps, OnlyExtracted
<1>3. f \in DOMAIN call.sourceContent
  BY DEF KeepInv, CreatedByOps
<1>4. call.sourceContent[f] = disk[f]
  BY <1>2, <1>3 DEF KeepInv, Inv, WorkingCopyIsDisk
<1> QED BY <1>1, <1>2, <1>3, <1>4 DEF Content

LEMMA InitKeep == Init => CreatedByOps /\ CodeKept
BY DEF Init, CreatedByOps, CodeKept

LEMMA EndedKeeps == ASSUME call' = NoCall PROVE CreatedByOps' /\ CodeKept'
BY DEF CreatedByOps, CodeKept

LEMMA ExecuteKeeps ==
    ASSUME KeepInv, NEW ops \in Scripts, NEW first \in DOMAIN ops, NEW incremental \in BOOLEAN,
           Execute(ops, first, incremental)
    PROVE  CreatedByOps' /\ CodeKept'
<1>1. disk' = disk /\ DOMAIN disk = File
  BY DEF Execute, KeepInv, Inv, Shape
<1>2. /\ call'.step = "op" /\ call'.ops = ops /\ call'.created = {}
      /\ call'.snapshots = Snapshots(ops) /\ call'.sourceContent = Snapshots(ops)
  BY DEF Execute
<1>3. CreatedByOps'
  BY <1>2 DEF CreatedByOps
<1>4. ASSUME NEW f \in DOMAIN Snapshots(ops) PROVE Snapshots(ops)[f] = disk[f]
  BY DEF Snapshots
<1>5. ASSUME NEW f \in DOMAIN call'.snapshots PROVE (LinesKept(f) /\ TargetsWritten(f) /\ CopiedFirst(f))'
  BY <1>1, <1>2, <1>4 DEF LinesKept, TargetsWritten, CopiedFirst
<1> QED BY <1>3, <1>5 DEF CodeKept

\* Operations, snapshots and what others changed stay the same within a call.
SameCall ==
    /\ call # NoCall /\ call' # NoCall /\ call.step # "respond" /\ foreign' = foreign
    /\ call'.ops = call.ops /\ call'.snapshots = call.snapshots

LEMMA SameTargets ==
    ASSUME SameCall, NEW f
    PROVE  (OnlyExtracted(f))' <=> OnlyExtracted(f)
BY DEF SameCall, OnlyExtracted

LEMMA SameOp ==
    ASSUME SameCall, call'.next = call.next, NEW f
    PROVE  (Removes(Op, f))' <=> Removes(Op, f)
BY DEF SameCall, Removes, Op

\* The lines of f are kept by a step, in f or in the targets there are afterwards.
StillThere(f) ==
    /\ ToSet(disk[f]) \ Dressing \subseteq
          ToSet(disk'[f]) \cup UNION {ToSet(disk'[g]) : g \in Targets(f) \cap call'.created}
    /\ \A g \in Targets(f) \cap call.created : ToSet(disk[g]) \subseteq ToSet(disk'[g])

LEMMA LinesStillKept ==
    ASSUME SameCall, call.created \subseteq call'.created, NEW f, LinesKept(f), StillThere(f)
    PROVE  (LinesKept(f))'
<1>1. (Targets(f))' = Targets(f) /\ call'.snapshots[f] = call.snapshots[f]
  BY DEF SameCall, Targets
<1>2. (LinesKept(f))' <=> ToSet(call.snapshots[f]) \ Dressing \subseteq
         ToSet(disk'[f]) \cup UNION {ToSet(disk'[g]) : g \in Targets(f) \cap call'.created}
  BY <1>1 DEF LinesKept
<1>3. ASSUME NEW l \in ToSet(call.snapshots[f]) \ Dressing
      PROVE  l \in ToSet(disk'[f]) \cup UNION {ToSet(disk'[g]) : g \in Targets(f) \cap call'.created}
  <2>1. l \in ToSet(disk[f]) \/ \E g \in Targets(f) \cap call.created : l \in ToSet(disk[g])
    BY <1>3 DEF LinesKept
  <2> QED BY <2>1 DEF StillThere
<1> QED BY <1>2, <1>3

\* A step that leaves what was created as it is.
LEMMA StepKeepsCode ==
    ASSUME KeepInv, SameCall, call'.created = call.created, call'.targetContent = call.targetContent,
           DOMAIN call.sourceContent \subseteq DOMAIN call'.sourceContent, call'.step # "remove",
           \A f \in DOMAIN call.snapshots \ foreign : OnlyExtracted(f) =>
              /\ disk'[f] = disk[f] \/ StillThere(f)
              /\ \A g \in Targets(f) \cap call.created : disk'[g] = disk[g]
    PROVE  CreatedByOps' /\ CodeKept'
<1>1. CreatedByOps'
  BY DEF KeepInv, CreatedByOps, SameCall
<1>2. ASSUME NEW f \in DOMAIN call'.snapshots \ foreign', (OnlyExtracted(f))'
      PROVE  (LinesKept(f) /\ TargetsWritten(f) /\ CopiedFirst(f))'
  <2>1. f \in DOMAIN call.snapshots \ foreign /\ OnlyExtracted(f)
    BY <1>2, SameTargets DEF SameCall
  <2>2. LinesKept(f) /\ TargetsWritten(f)
    BY <2>1 DEF KeepInv, CodeKept, SameCall
  <2>3. /\ disk'[f] = disk[f] \/ StillThere(f)
        /\ \A g \in Targets(f) \cap call.created : disk'[g] = disk[g]
    BY <2>1
  <2>4. StillThere(f)
    BY <2>3 DEF StillThere
  <2>5. (LinesKept(f))'
    BY <2>2, <2>4, LinesStillKept
  <2>6. (Targets(f))' = Targets(f)
    BY DEF SameCall, Targets
  <2>7. (TargetsWritten(f))'
    BY <2>2, <2>3, <2>6 DEF TargetsWritten, SameCall
  <2>8. (CopiedFirst(f))'
    BY DEF CopiedFirst
  <2> QED BY <2>5, <2>7, <2>8
<1> QED BY <1>1, <1>2 DEF CodeKept

LEMMA BeginOperationKeeps == ASSUME KeepInv, call # NoCall, BeginOperation PROVE CreatedByOps' /\ CodeKept'
<1>1. CASE GoOn(To("create")) /\ UNCHANGED <<disk, lost>>
  <2>1. call' = [call EXCEPT !.step = "create"] /\ disk' = disk /\ foreign' = foreign
    BY <1>1 DEF GoOn, To, history
  <2>2. /\ call'.step = "create" /\ call'.ops = call.ops
        /\ call'.snapshots = call.snapshots /\ call'.created = call.created
        /\ call'.targetContent = call.targetContent
        /\ call'.sourceContent = call.sourceContent /\ DOMAIN call' = CallFields
    BY <2>1, CallFieldsKept DEF CallFields, KeepInv
  <2>3. SameCall
    BY <2>1, <2>2 DEF NoCall, SameCall, BeginOperation, At
  <2> QED BY <2>1, <2>2, <2>3, StepKeepsCode
<1>2. CASE Pause
  BY <1>2, EndedKeeps DEF Pause, Respond
<1> QED BY <1>1, <1>2 DEF BeginOperation

LEMMA NoCreateKeeps == ASSUME KeepInv, call # NoCall, NoCreate PROVE CreatedByOps' /\ CodeKept'
<1>1. /\ call' = [call EXCEPT !.step = "remove"] /\ disk' = disk /\ foreign' = foreign
      /\ call.step = "create" /\ Op.create = None
  BY DEF NoCreate, GoOn, To, At, history
<1>2. /\ call'.step = "remove" /\ call'.ops = call.ops /\ call'.next = call.next
      /\ call'.snapshots = call.snapshots /\ call'.created = call.created
      /\ call'.targetContent = call.targetContent
      /\ call'.sourceContent = call.sourceContent /\ DOMAIN call' = CallFields
  BY <1>1, CallFieldsKept DEF CallFields, KeepInv
<1>3. SameCall
  BY <1>1, <1>2 DEF NoCall, SameCall
<1>4. CreatedByOps'
  BY <1>1, <1>2 DEF KeepInv, CreatedByOps
<1>5. ASSUME NEW f \in DOMAIN call.snapshots \ foreign, OnlyExtracted(f)
      PROVE  (LinesKept(f) /\ TargetsWritten(f) /\ CopiedFirst(f))'
  <2>1. LinesKept(f) /\ TargetsWritten(f)
    BY <1>5 DEF KeepInv, CodeKept
  <2>2. (Targets(f))' = Targets(f)
    BY <1>2 DEF Targets
  <2>3. (LinesKept(f))' /\ (TargetsWritten(f))'
    BY <1>1, <1>2, <2>1, <2>2 DEF LinesKept, TargetsWritten
  <2>4. ~Removes(Op, f)
    <3>1. SUFFICES ASSUME Op.source = f PROVE FALSE
      BY DEF Removes
    <3>2. Op.extract /\ Op \in Operations
      BY <1>1, <1>5, <3>1, OpOnlyExtracts, OpIsOperation DEF KeepInv
    <3> QED BY <1>1, <3>2, ExtractAssumption, NoneAssumption
  <2>5. (CopiedFirst(f))'
    BY <1>2, <1>3, <2>4, SameOp DEF CopiedFirst
  <2> QED BY <2>3, <2>5
<1> QED BY <1>3, <1>4, <1>5, SameTargets DEF CodeKept, SameCall

LEMMA NoRemovalKeeps == ASSUME KeepInv, call # NoCall, NoRemoval PROVE CreatedByOps' /\ CodeKept'
<1>1. /\ call' = [call EXCEPT !.step = "update", !.updates = Op.updates] /\ disk' = disk /\ foreign' = foreign
      /\ call.step = "remove"
  BY DEF NoRemoval, GoOn, At, history
<1>2. /\ call'.step = "update" /\ call'.ops = call.ops
      /\ call'.snapshots = call.snapshots /\ call'.created = call.created
      /\ call'.targetContent = call.targetContent
      /\ call'.sourceContent = call.sourceContent /\ DOMAIN call' = CallFields
  BY <1>1, CallFieldsKept DEF CallFields, KeepInv
<1>3. SameCall
  BY <1>1, <1>2 DEF NoCall, SameCall
<1> QED BY <1>1, <1>2, <1>3, StepKeepsCode

LEMMA EndOperationKeeps == ASSUME KeepInv, call # NoCall, EndOperation PROVE CreatedByOps' /\ CodeKept'
<1>1. /\ call' = [call EXCEPT !.step = "op", !.next = @ + 1] /\ disk' = disk /\ foreign' = foreign
      /\ call.step = "update"
  BY DEF EndOperation, GoOn, At, history
<1>2. /\ call'.step = "op" /\ call'.ops = call.ops
      /\ call'.snapshots = call.snapshots /\ call'.created = call.created
      /\ call'.targetContent = call.targetContent
      /\ call'.sourceContent = call.sourceContent /\ DOMAIN call' = CallFields
  BY <1>1, CallFieldsKept DEF CallFields, KeepInv
<1>3. SameCall
  BY <1>1, <1>2 DEF NoCall, SameCall
<1> QED BY <1>1, <1>2, <1>3, StepKeepsCode

\* An update is of neither a source of extracts nor one of their targets.
LEMMA UpdateLinesKeeps ==
    ASSUME KeepInv, call # NoCall, NEW u \in call.updates, UpdateLines(u)
    PROVE  CreatedByOps' /\ CodeKept'
<1> DEFINE w == u.file
           line == adjustLineForShifts(u.line, call.lineShifts[u.file])
<1>1. CASE PauseOrRollBack
  BY <1>1, EndedKeeps DEF PauseOrRollBack, Respond
<1>2. ASSUME NEW text \in UpdatedTexts(Content(w), u, line), disk' = [disk EXCEPT ![w] = text],
             GoOn([call EXCEPT !.updates = @ \ {u}, !.sourceContent = With(@, w, text)])
      PROVE  CreatedByOps' /\ CodeKept'
  <2> HIDE DEF line
  <2>1. call.step = "update" /\ u \in Op.updates
    BY CallFieldsKept DEF UpdateLines, At, CallShape, KeepInv
  <2> HIDE DEF w
  <2>2. /\ call' = [call EXCEPT !.updates = @ \ {u}, !.sourceContent = With(@, w, text)] /\ foreign' = foreign
    BY <1>2 DEF GoOn, history
  <2>3. /\ call'.step = "update" /\ call'.ops = call.ops
        /\ call'.snapshots = call.snapshots /\ call'.created = call.created
        /\ call'.targetContent = call.targetContent
        /\ call'.sourceContent = With(call.sourceContent, w, text) /\ DOMAIN call' = CallFields
    BY <2>1, <2>2, CallFieldsKept DEF CallFields, KeepInv
  <2>4. SameCall
    BY <2>1, <2>2, <2>3 DEF NoCall, SameCall
  <2>5. DOMAIN call.sourceContent \subseteq DOMAIN call'.sourceContent
    BY <2>3 DEF With
  <2>6. ASSUME NEW f \in DOMAIN call.snapshots \ foreign, OnlyExtracted(f)
        PROVE  disk'[f] = disk[f] /\ \A g \in Targets(f) \cap call.created : disk'[g] = disk[g]
    <3>1. w # f /\ w \notin Targets(f)
      BY <2>1, <2>6, OpOnlyExtracts DEF KeepInv, w
    <3> QED BY <1>2, <2>6, <3>1, SourceOfExtracts, <2>1 DEF KeepInv, Typed, CallTyped
  <2> QED BY <2>3, <2>4, <2>5, <2>6, StepKeepsCode
<1> QED BY <1>1, <1>2 DEF UpdateLines

\* What is removed from a source of extracts is the symbol that is in the target.
LEMMA RemovalKeepsLines ==
    ASSUME KeepInv, call # NoCall, RemoveLines, NEW f \in DOMAIN call.snapshots \ foreign, OnlyExtracted(f),
           Source = f, NEW new,
           new \in {Deleted(Content(Source), Ranges(Source, Op.remove)),
                    <<New(Source)>> \o Deleted(Content(Source), Ranges(Source, Op.remove))}
    PROVE  /\ Op.create \in Targets(f) \cap call.created
           /\ ToSet(disk[f]) \ Dressing \subseteq ToSet(new) \cup ToSet(disk[Op.create])
<1>1. /\ call.step = "remove" /\ Source \in File /\ Content(Source) # None /\ Op.remove # << >>
      /\ Ranges(Source, Op.remove) # << >>
  BY OpIsOperation DEF RemoveLines, At, Source, KeepInv
<1>2. Removes(Op, f)
  BY <1>1 DEF Removes, Source
<1>3. /\ Op.create \in Targets(f) /\ Op.extract /\ Op \in Operations
      /\ LinesOf(Op.remove[1]) \subseteq LinesOf(Op.copy)
  BY <1>1, <1>2, OpOnlyExtracts, OpIsOperation DEF KeepInv, Removes
<1>4. Op.create \in call.created /\ ToSet(Extracted) \subseteq ToSet(disk[Op.create])
  BY <1>1, <1>2 DEF KeepInv, CodeKept, CopiedFirst
<1>5. Content(f) = disk[f] /\ f \in File
  BY <1>1, SourceOfExtracts
<1>6. PICK text \in Texts : text = Content(f)
  BY <1>1, ContentTyped DEF KeepInv
<1>7. call.lineShifts[f] \in Seq(Shift)
  BY <1>5 DEF KeepInv, Typed, CallTyped
<1>8. PICK remove \in Seq(LineSpec) : remove = Op.remove
  BY <1>1, OpTyped DEF KeepInv
<1>9. Len(remove) = 1 /\ remove[1].symbol
  BY <1>3, <1>8, ExtractAssumption
<1>10. Ranges(f, remove) = SymbolRange(text, f, << >>, remove[1])
  BY <1>5, <1>6, <1>7, <1>9, RangesAre DEF Texts
<1>11. Places(text, f, remove[1]) # {}
  BY <1>1, <1>8, <1>10 DEF SymbolRange
<1>12. PICK m, n \in DOMAIN text : m = Min(Places(text, f, remove[1])) /\ n = Max(Places(text, f, remove[1])) /\ m <= n
  <2>1. PICK i : i \in Places(text, f, remove[1])
    BY <1>11
  <2>2. PICK m, n \in DOMAIN text : m = Min(Places(text, f, remove[1])) /\ n = Max(Places(text, f, remove[1]))
                                    /\ m <= i /\ i <= n
    BY <1>11, <2>1, PlacesOfText DEF Texts
  <2>3. i \in DOMAIN text /\ DOMAIN text \subseteq Nat
    BY <2>1 DEF Places, Texts
  <2> QED BY <2>2, <2>3
<1>13. PICK a, b \in Nat : WidenedBy(text, m, n, a, b)
  BY WidenedLines DEF Texts
<1>14. a \in DOMAIN text /\ b \in DOMAIN text /\ a <= m /\ n <= b /\ a <= b /\ DOMAIN text \subseteq Nat
  <2>1. DOMAIN text = 1 .. Len(text) /\ Len(text) \in Nat
    BY DEF Texts
  <2>2. a \in 1 .. m /\ b \in n .. Len(text)
    BY <1>13 DEF WidenedBy
  <2> QED BY <1>12, <2>1, <2>2
<1>15. Ranges(f, remove) = <<[from |-> a, to |-> b]>>
  BY <1>9, <1>10, <1>11, <1>12, <1>13 DEF SymbolRange, WidenedBy
<1>16. PICK r \in LineRange : r = [from |-> a, to |-> b]
  BY DEF LineRange
<1>17. Deleted(text, <<r>>) = Delete(text, r)
  BY DeletedOne DEF Texts
<1>18. Delete(text, r) \in Texts
  BY DeleteType DEF Texts
<1>19. ToSet(Delete(text, r)) \subseteq ToSet(new)
  <2>1. new \in {Delete(text, r), <<New(f)>> \o Delete(text, r)}
    BY <1>6, <1>8, <1>15, <1>16, <1>17
  <2>2. <<New(f)>> \in Texts
    BY <1>5, NewText
  <2>3. ToSet(<<New(f)>> \o Delete(text, r)) = ToSet(<<New(f)>>) \cup ToSet(Delete(text, r))
    <3>1. PICK x, y \in Texts : x = <<New(f)>> /\ y = Delete(text, r)
      BY <1>18, <2>2
    <3>2. ToSet(x \o y) = ToSet(x) \cup ToSet(y)
      BY LinesOfBoth DEF Texts
    <3> QED BY <3>1, <3>2
  <2> QED BY <2>1, <2>3
<1>20. \A i \in DOMAIN text : text[i] \in ToSet(Delete(text, r)) \/ (a <= i /\ i <= b)
  BY <1>14, <1>16, DeletedRest DEF Texts
<1>21. \A i \in DOMAIN text : m <= i /\ i <= n => text[i] \in ToSet(Extracted)
  <2>1. Copied = Places(text, f, Op.copy)
    BY <1>6 DEF Copied
  <2>2. Places(text, f, remove[1]) \subseteq Copied
    BY <1>3, <1>8, <2>1 DEF Places, SymbolLines, LinesOf
  <2>3. m \in Copied /\ n \in Copied
    BY <1>12, <1>11, <2>2, FirstAndLast DEF Texts
  <2>4. PICK p, q \in DOMAIN text : p = Min(Copied) /\ q = Max(Copied) /\ p <= m /\ n <= q
    BY <2>1, <2>3, PlacesOfText DEF Texts
  <2>5. Extracted = SubSeq(text, p, q)
    BY <1>6, <2>4 DEF Extracted
  <2>6. \A i \in DOMAIN text : p <= i /\ i <= q => text[i] \in ToSet(SubSeq(text, p, q))
    BY PartOfText DEF Texts
  <2>7. \A i \in DOMAIN text : m <= i /\ i <= n => p <= i /\ i <= q
    BY <1>12, <1>14, <2>4
  <2> QED BY <2>5, <2>6, <2>7
<1>22. ASSUME NEW i \in DOMAIN text, text[i] \notin Dressing
       PROVE  text[i] \in ToSet(new) \cup ToSet(disk[Op.create])
  <2>1. CASE m <= i /\ i <= n
    BY <1>4, <1>21, <2>1
  <2>2. CASE ~(m <= i /\ i <= n)
    <3>1. ~(a <= i /\ i <= b)
      <4>1. ~(i \in a .. m - 1) /\ ~(i \in n + 1 .. b)
        BY <1>13, <1>22 DEF WidenedBy
      <4> QED BY <1>12, <1>14, <2>2, <4>1
    <3> QED BY <1>19, <1>20, <3>1
  <2> QED BY <2>1, <2>2
<1>23. ToSet(text) \ Dressing \subseteq ToSet(new) \cup ToSet(disk[Op.create])
  BY <1>22 DEF ToSet
<1> QED BY <1>3, <1>4, <1>5, <1>6, <1>23

LEMMA RemoveLinesKeeps == ASSUME KeepInv, call # NoCall, RemoveLines PROVE CreatedByOps' /\ CodeKept'
<1> DEFINE text == Deleted(Content(Source), Ranges(Source, Op.remove))
<1>1. CASE PauseOrRollBack
  BY <1>1, EndedKeeps DEF PauseOrRollBack, Respond
<1>2. ASSUME NEW new \in {text} \cup {<<New(Source)>> \o text},
             disk' = [disk EXCEPT ![Source] = new],
             GoOn([call EXCEPT !.step = "update", !.updates = Op.updates,
                               !.sourceContent = With(@, Source, new),
                               !.lineShifts[Source] = Shifts])
      PROVE  CreatedByOps' /\ CodeKept'
  <2>1. call.step = "remove"
    BY DEF RemoveLines, At
  <2>2. /\ call'.step = "update" /\ call'.ops = call.ops
        /\ call'.snapshots = call.snapshots /\ call'.created = call.created
        /\ call'.targetContent = call.targetContent
        /\ call'.sourceContent = With(call.sourceContent, Source, new)
        /\ DOMAIN call' = CallFields /\ foreign' = foreign
    BY <1>2, CallFieldsKept DEF CallFields, GoOn, history, KeepInv
  <2>3. SameCall
    BY <2>1, <2>2 DEF NoCall, SameCall
  <2>4. DOMAIN call.sourceContent \subseteq DOMAIN call'.sourceContent
    BY <2>2 DEF With
  <2>5. ASSUME NEW f \in DOMAIN call.snapshots \ foreign, OnlyExtracted(f)
        PROVE  /\ disk'[f] = disk[f] \/ StillThere(f)
               /\ \A g \in Targets(f) \cap call.created : disk'[g] = disk[g]
    <3>1. Source \notin Targets(f)
      BY <2>1, <2>5, OpOnlyExtracts DEF KeepInv, Source
    <3>2. DOMAIN disk = File /\ f \in File /\ call.created \subseteq File
      BY <2>1, <2>5, SourceOfExtracts DEF KeepInv, Typed, CallTyped
    <3>3. \A g \in Targets(f) \cap call.created : disk'[g] = disk[g]
      BY <1>2, <3>1, <3>2
    <3>4. CASE Source = f
      <4>1. /\ Op.create \in Targets(f) \cap call.created
            /\ ToSet(disk[f]) \ Dressing \subseteq ToSet(new) \cup ToSet(disk[Op.create])
        BY <1>2, <2>5, <3>4, RemovalKeepsLines
      <4>2. disk'[f] = new
        BY <1>2, <3>2, <3>4
      <4> QED BY <2>2, <3>3, <4>1, <4>2 DEF StillThere
    <3>5. CASE Source # f
      BY <1>2, <3>2, <3>3, <3>5
    <3> QED BY <3>3, <3>4, <3>5
  <2> QED BY <2>2, <2>3, <2>4, <2>5, StepKeepsCode
<1> QED BY <1>1, <1>2 DEF RemoveLines

\* What an extract that is not raw writes to its target holds what the target held, and the symbol.
LEMMA TargetGrows ==
    ASSUME KeepInv, call # NoCall, Create, Op.extract, ~Op.raw
    PROVE  /\ ToSet(Extracted) \subseteq ToSet(CreatedText)
           /\ Op.create \in call.created => ToSet(call.targetContent[Op.create]) \subseteq ToSet(CreatedText)
<1>1. Op \in Operations
  BY OpIsOperation DEF Create, At, KeepInv
<1>2. Source \in File
  BY <1>1, ExtractAssumption DEF Source
<1>3. Extracted \in Texts
  BY <1>2, ExtractedTyped DEF Create, KeepInv
<1>4. DOMAIN call.targetContent = call.created
  BY DEF KeepInv, Typed, CallTyped
<1>5. CASE Op.create \in call.created
  <2>1. call.targetContent[Op.create] \in Texts
    BY <1>4, <1>5 DEF KeepInv, Typed, CallTyped, IsTexts
  <2>2. PICK x, y \in Texts : x = call.targetContent[Op.create] /\ y = Extracted
    BY <1>3, <2>1
  <2>3. ToSet(x \o y) = ToSet(x) \cup ToSet(y)
    BY LinesOfBoth DEF Texts
  <2>4. CreatedText = x \o y
    BY <1>4, <1>5, <2>2 DEF CreatedText
  <2> QED BY <2>2, <2>3, <2>4
<1>6. CASE Op.create \notin call.created
  BY <1>4, <1>6 DEF CreatedText
<1> QED BY <1>5, <1>6

LEMMA CreateKeeps == ASSUME KeepInv, call # NoCall, Create PROVE CreatedByOps' /\ CodeKept'
<1> DEFINE w == Op.create
           text == CreatedText
<1>1. CASE PauseOrRollBack
  BY <1>1, EndedKeeps DEF PauseOrRollBack, Respond
<1>2. CASE /\ disk' = [disk EXCEPT ![w] = text]
           /\ lost' = lost \cup ({f \in {w} : began[f] # None} \ MentionedBefore)
           /\ GoOn([call EXCEPT !.step = "remove", !.created = @ \cup {w},
                                !.targetContent = With(@, w, text)])
  <2>1. w \in File /\ text \in Texts /\ call.step = "create"
    BY CreatedTextTyped DEF KeepInv, Create, At
  <2>2. w \in {call.ops[j].create : j \in DOMAIN call.ops}
    BY <2>1 DEF KeepInv, Inv, Shape, CallShape, Op
  <2>3. PICK v \in File, new \in Texts : v = w /\ new = text
    BY <2>1
  <2>4. /\ call' = [call EXCEPT !.step = "remove", !.created = @ \cup {v}, !.targetContent = With(@, v, new)]
        /\ disk' = [disk EXCEPT ![v] = new] /\ foreign' = foreign
    BY <1>2, <2>3 DEF GoOn, history
  <2> HIDE DEF w, text
  <2>5. /\ call'.step = "remove" /\ call'.ops = call.ops /\ call'.next = call.next
        /\ call'.snapshots = call.snapshots /\ call'.created = call.created \cup {v}
        /\ call'.sourceContent = call.sourceContent
        /\ call'.targetContent = With(call.targetContent, v, new) /\ DOMAIN call' = CallFields
    BY <2>4, CallFieldsKept DEF CallFields, KeepInv
  <2>6. SameCall
    BY <2>1, <2>4, <2>5 DEF NoCall, SameCall
  <2>7. CreatedByOps'
    BY <2>1, <2>2, <2>3, <2>5 DEF KeepInv, CreatedByOps
  <2>8. /\ With(call.targetContent, v, new)[v] = new
        /\ \A g \in call.created \ {v} : With(call.targetContent, v, new)[g] = call.targetContent[g]
    <3>1. IsTexts(call.targetContent) /\ DOMAIN call.targetContent = call.created
      BY DEF KeepInv, Typed, CallTyped
    <3> QED BY <3>1 DEF With
  <2>9. DOMAIN disk = File /\ call.created \subseteq File
    BY DEF KeepInv, Typed, CallTyped
  <2>10. ASSUME NEW f \in DOMAIN call.snapshots \ foreign, OnlyExtracted(f)
         PROVE  (LinesKept(f) /\ TargetsWritten(f) /\ CopiedFirst(f))'
    <3>1. LinesKept(f) /\ \A g \in Targets(f) \cap call.created : disk[g] = call.targetContent[g]
      BY <2>1, <2>10 DEF KeepInv, CodeKept, TargetsWritten
    <3>2. f \in File /\ Content(f) = disk[f]
      BY <2>1, <2>10, SourceOfExtracts
    <3>3. v # f /\ (v \in Targets(f) => Op.extract /\ ~Op.raw) /\ (Removes(Op, f) => v \in Targets(f))
      BY <2>1, <2>3, <2>10, OpOnlyExtracts DEF KeepInv, w
    <3>4. disk'[f] = disk[f] /\ \A g \in call.created \ {v} : disk'[g] = disk[g]
      BY <2>4, <2>9, <3>2, <3>3
    <3>5. disk'[v] = new
      BY <2>4, <2>9
    <3>6. v \in Targets(f) \cap call.created => ToSet(disk[v]) \subseteq ToSet(new)
      BY <2>3, <3>1, <3>3, TargetGrows DEF w, text
    <3>7. StillThere(f)
      BY <2>5, <3>4, <3>5, <3>6 DEF StillThere
    <3>8. (LinesKept(f))'
      BY <2>5, <2>6, <3>1, <3>7, LinesStillKept
    <3>9. (Targets(f))' = Targets(f)
      BY <2>5 DEF Targets
    <3>10. (TargetsWritten(f))'
      <4>1. ASSUME NEW g \in Targets(f) \cap call'.created PROVE disk'[g] = call'.targetContent[g]
        <5>1. CASE g = v
          BY <2>5, <2>8, <3>5, <5>1
        <5>2. CASE g # v
          BY <2>5, <2>8, <3>1, <3>4, <5>2
        <5> QED BY <5>1, <5>2
      <4> QED BY <3>9, <4>1 DEF TargetsWritten
    <3>11. (CopiedFirst(f))'
      <4>1. SUFFICES ASSUME Removes(Op, f) PROVE (Op.create \in call.created /\ ToSet(Extracted) \subseteq ToSet(disk[Op.create]))'
        BY <2>5, <2>6, SameOp DEF CopiedFirst
      <4>2. Op' = Op /\ Op.create = v /\ Source = f /\ Source' = f
        BY <2>3, <2>5, <4>1 DEF Op, Source, Removes, w
      <4>3. (Content(f))' = Content(f)
        BY <2>5, <3>4 DEF Content
      <4>4. Extracted' = Extracted
        BY <4>2, <4>3 DEF Extracted, Copied
      <4>5. ToSet(Extracted) \subseteq ToSet(new)
        BY <2>3, <3>3, <4>1, TargetGrows DEF text
      <4> QED BY <2>5, <3>5, <4>2, <4>4, <4>5
    <3> QED BY <3>8, <3>10, <3>11
  <2> QED BY <2>6, <2>7, <2>10, SameTargets DEF CodeKept, SameCall
<1> QED BY <1>1, <1>2 DEF Create

LEMMA RewriteImportsKeeps ==
    ASSUME KeepInv, call # NoCall, NEW rewritten \in SUBSET Consumers, RewriteImports(rewritten)
    PROVE  CreatedByOps' /\ CodeKept'
<1>1. /\ disk' = [f \in File |-> IF f \in rewritten THEN <<New(f)>> \o disk[f] ELSE disk[f]]
      /\ call' = [call EXCEPT !.step = "respond", !.snapshots = WithConsumers(@, rewritten)]
      /\ foreign' = foreign /\ call.step = "op" /\ \A f \in rewritten : disk[f] # None
  BY DEF RewriteImports, GoOn, history, At
<1>2. /\ call'.step = "respond" /\ call'.ops = call.ops
      /\ call'.snapshots = WithConsumers(call.snapshots, rewritten) /\ call'.created = call.created
      /\ DOMAIN call' = CallFields
  BY <1>1, CallFieldsKept DEF CallFields, KeepInv
<1>3. CreatedByOps'
  BY <1>2 DEF KeepInv, CreatedByOps
<1>4. rewritten \subseteq File
  BY DEF Consumers
<1>5. ASSUME NEW f \in File PROVE ToSet(disk[f]) \subseteq ToSet(disk'[f])
  <2>1. CASE f \in rewritten
    <3>1. disk[f] \in Texts /\ <<New(f)>> \in Texts
      BY <1>1, <2>1, NewText DEF KeepInv, Typed
    <3>2. PICK x, y \in Texts : x = <<New(f)>> /\ y = disk[f]
      BY <3>1
    <3>3. ToSet(x \o y) = ToSet(x) \cup ToSet(y)
      BY LinesOfBoth DEF Texts
    <3> QED BY <1>1, <2>1, <3>2, <3>3
  <2>2. CASE f \notin rewritten
    BY <1>1, <2>2
  <2> QED BY <2>1, <2>2
<1>6. DOMAIN call.snapshots \subseteq File /\ call.created \subseteq File
  BY DEF KeepInv, Typed, CallTyped, IsTexts
<1>7. ASSUME NEW f \in DOMAIN call'.snapshots \ foreign', (OnlyExtracted(f))' PROVE (LinesKept(f))'
  <2>1. (Targets(f))' = Targets(f)
    BY <1>2 DEF Targets
  <2>2. \A g \in Targets(f) \cap call.created : ToSet(disk[g]) \subseteq ToSet(disk'[g])
    BY <1>5, <1>6
  <2>3. (LinesKept(f))' <=> ToSet(call'.snapshots[f]) \ Dressing \subseteq
           ToSet(disk'[f]) \cup UNION {ToSet(disk'[g]) : g \in Targets(f) \cap call.created}
    BY <1>2, <2>1 DEF LinesKept
  <2>4. CASE f \in DOMAIN call.snapshots
    <3>1. OnlyExtracted(f)
      BY <1>1, <1>2, <1>7 DEF OnlyExtracted
    <3>2. LinesKept(f)
      BY <1>1, <1>7, <2>4, <3>1 DEF KeepInv, CodeKept
    <3>3. call'.snapshots[f] = call.snapshots[f]
      BY <1>2, <2>4 DEF WithConsumers
    <3>4. ToSet(disk[f]) \subseteq ToSet(disk'[f])
      BY <1>5, <1>6, <2>4
    <3>5. ASSUME NEW l \in ToSet(call.snapshots[f]) \ Dressing
          PROVE  l \in ToSet(disk'[f]) \cup UNION {ToSet(disk'[g]) : g \in Targets(f) \cap call.created}
      <4>1. l \in ToSet(disk[f]) \/ \E g \in Targets(f) \cap call.created : l \in ToSet(disk[g])
        BY <3>2, <3>5 DEF LinesKept
      <4> QED BY <2>2, <3>4, <4>1
    <3> QED BY <2>3, <3>3, <3>5
  <2>5. CASE f \notin DOMAIN call.snapshots
    <3>1. f \in rewritten /\ call'.snapshots[f] = disk[f]
      BY <1>2, <1>7, <2>5 DEF WithConsumers
    <3> QED BY <1>4, <1>5, <2>3, <3>1
  <2> QED BY <2>4, <2>5
<1>8. ASSUME NEW f PROVE (TargetsWritten(f))' /\ (CopiedFirst(f))'
  BY <1>2 DEF TargetsWritten, CopiedFirst
<1> QED BY <1>3, <1>7, <1>8 DEF CodeKept

LEMMA ExternalChangeKeeps ==
    ASSUME KeepInv, NEW w \in File, NEW text, ExternalChange(w, text)
    PROVE  CreatedByOps' /\ CodeKept'
<1>1. /\ DOMAIN disk = File /\ disk' = [disk EXCEPT ![w] = text] /\ foreign' = foreign \cup {w} /\ call' = call
  BY DEF KeepInv, Inv, Shape, ExternalChange
<1>2. CreatedByOps'
  BY <1>1 DEF KeepInv, CreatedByOps
<1>3. ASSUME call # NoCall, NEW f \in DOMAIN call.snapshots \ foreign', (OnlyExtracted(f))'
      PROVE  (LinesKept(f) /\ TargetsWritten(f) /\ CopiedFirst(f))'
  <2>1. OnlyExtracted(f) /\ w \notin Targets(f) /\ f # w /\ f \in DOMAIN call.snapshots \ foreign
    BY <1>1, <1>3 DEF OnlyExtracted, Targets
  <2>2. LinesKept(f) /\ TargetsWritten(f) /\ CopiedFirst(f)
    BY <1>3, <2>1 DEF KeepInv, CodeKept
  <2>3. disk'[f] = disk[f] /\ \A g \in Targets(f) : disk'[g] = disk[g]
    BY <1>1, <2>1
  <2>4. (Targets(f))' = Targets(f)
    BY <1>1 DEF Targets
  <2>5. (LinesKept(f))'
    BY <1>1, <2>2, <2>3, <2>4 DEF LinesKept
  <2>6. (TargetsWritten(f))'
    BY <1>1, <2>2, <2>3, <2>4 DEF TargetsWritten
  <2>7. (CopiedFirst(f))'
    <3>1. SUFFICES ASSUME call.step = "remove", Removes(Op, f)
                   PROVE  (Op.create \in call.created /\ ToSet(Extracted) \subseteq ToSet(disk[Op.create]))'
      BY <1>1 DEF CopiedFirst, Op, Removes
    <3>2. Op' = Op /\ Source = f /\ Source' = f /\ Op.create \in Targets(f)
      BY <1>1, <1>3, <2>1, <3>1, OpOnlyExtracts DEF Op, Source, Removes, KeepInv
    <3>3. (Content(f))' = Content(f)
      BY <1>1, <2>3 DEF Content
    <3>4. Extracted' = Extracted
      BY <3>2, <3>3 DEF Extracted, Copied
    <3> QED BY <1>1, <2>2, <2>3, <3>1, <3>2, <3>4 DEF CopiedFirst
  <2> QED BY <2>5, <2>6, <2>7
<1> QED BY <1>1, <1>2, <1>3 DEF CodeKept

(***************************************************************************)
(* Counting the lines that are gone.                                       *)
(***************************************************************************)
LEMMA GoneSplit ==
    ASSUME NEW G \in SUBSET (Nat \ {0}), NEW i \in Nat, NEW j \in Nat, i <= j
    PROVE  /\ GoneBefore(G, i) \in Nat /\ GoneBefore(G, j) \in Nat
           /\ IsFiniteSet({k \in G : i <= k /\ k < j})
           /\ GoneBefore(G, j) = GoneBefore(G, i) + Cardinality({k \in G : i <= k /\ k < j})
<1> DEFINE A == {k \in G : k < i}
           B == {k \in G : k < j}
           C == {k \in G : i <= k /\ k < j}
<1>1. IsFiniteSet(A) /\ IsFiniteSet(B) /\ IsFiniteSet(C)
  <2>1. A \in SUBSET Nat /\ B \in SUBSET Nat /\ C \in SUBSET Nat
    OBVIOUS
  <2>2. (\A s \in A : s <= j) /\ (\A s \in B : s <= j) /\ (\A s \in C : s <= j)
    OBVIOUS
  <2> HIDE DEF A, B, C
  <2> QED BY <2>1, <2>2, FS_BoundedSetOfNaturals
<1>2. B = A \cup C /\ A \cap C = {}
  <2>1. \A k \in G : k \in Nat /\ ((k < j) <=> ((k < i) \/ (i <= k /\ k < j))) /\ ~(k < i /\ i <= k)
    OBVIOUS
  <2> QED BY <2>1
<1> HIDE DEF A, B, C
<1>3. /\ Cardinality(A) \in Nat /\ Cardinality(B) \in Nat /\ Cardinality(C) \in Nat
      /\ Cardinality({}) = 0
  BY <1>1, FS_CardinalityType, FS_EmptySet
<1>4. Cardinality(A \cup C) = Cardinality(A) + Cardinality(C) - Cardinality(A \cap C)
  BY <1>1, FS_Union
<1>5. Cardinality(A \cup C) = Cardinality(A) + Cardinality(C)
  <2>1. Cardinality(A \cap C) = 0
    BY <1>2, <1>3
  <2>2. PICK a, c \in Nat : a = Cardinality(A) /\ c = Cardinality(C)
    BY <1>3
  <2>3. Cardinality(A \cup C) = a + c - 0
    BY <1>4, <2>1, <2>2
  <2> QED BY <2>2, <2>3
<1>6. Cardinality(B) = Cardinality(A) + Cardinality(C)
  BY <1>2, <1>5
<1> QED BY <1>1, <1>3, <1>6 DEF GoneBefore, A, B, C

LEMMA GoneIsNat == ASSUME NEW G \in SUBSET (Nat \ {0}), NEW i \in Nat PROVE GoneBefore(G, i) \in Nat
<1>1. i <= i
  OBVIOUS
<1> QED BY <1>1, GoneSplit

\* At most all lines between two lines are gone; none when they are not in the set.
LEMMA GoneBetween ==
    ASSUME NEW G \in SUBSET (Nat \ {0}), NEW i \in Nat, NEW j \in Nat, i <= j
    PROVE  /\ GoneBefore(G, i) \in Nat /\ GoneBefore(G, j) \in Nat
           /\ GoneBefore(G, i) <= GoneBefore(G, j)
           /\ GoneBefore(G, j) <= GoneBefore(G, i) + (j - i)
           /\ (\A k \in G : k < i \/ j <= k) => GoneBefore(G, j) = GoneBefore(G, i)
           /\ (\A k \in Nat : i <= k /\ k < j => k \in G) => GoneBefore(G, j) = GoneBefore(G, i) + (j - i)
<1> DEFINE C == {k \in G : i <= k /\ k < j}
<1>1. /\ GoneBefore(G, i) \in Nat /\ GoneBefore(G, j) \in Nat
      /\ IsFiniteSet(C)
      /\ GoneBefore(G, j) = GoneBefore(G, i) + Cardinality(C)
  BY GoneSplit
<1>2. PICK n \in Int : n = j - 1
  OBVIOUS
<1>3. IsFiniteSet(i .. n) /\ Cardinality(i .. n) = IF i > n THEN 0 ELSE n - i + 1
  BY FS_Interval
<1>4. C \in SUBSET (i .. n)
  <2>1. \A k \in G : k \in Nat /\ (i <= k /\ k < j => k \in i .. n)
    BY <1>2
  <2> QED BY <2>1
<1>5. (\A k \in G : k < i \/ j <= k) => C = {}
  <2>1. \A k \in G : (k < i \/ j <= k) => ~(i <= k /\ k < j)
    OBVIOUS
  <2> QED BY <2>1
<1>6. (\A k \in Nat : i <= k /\ k < j => k \in G) => C = i .. n
  <2>1. \A k \in i .. n : k \in Nat /\ i <= k /\ k < j
    BY <1>2
  <2> QED BY <2>1, <1>4
<1> HIDE DEF C
<1>7. Cardinality(C) <= Cardinality(i .. n) /\ Cardinality(C) \in Nat /\ Cardinality({}) = 0
  BY <1>1, <1>3, <1>4, FS_Subset, FS_CardinalityType, FS_EmptySet
<1>8. Cardinality(C) <= j - i
  BY <1>2, <1>3, <1>7
<1>9. (\A k \in G : k < i \/ j <= k) => Cardinality(C) = 0
  BY <1>5, <1>7
<1>10. (\A k \in Nat : i <= k /\ k < j => k \in G) => Cardinality(C) = j - i
  BY <1>2, <1>3, <1>6
<1>11. PICK x, y, z \in Nat : x = GoneBefore(G, i) /\ y = GoneBefore(G, j) /\ z = Cardinality(C)
  BY <1>1, <1>7
<1>12. y = x + z /\ z <= j - i
  BY <1>1, <1>8, <1>11
<1> QED BY <1>9, <1>10, <1>11, <1>12

LEMMA GoneOfBoth ==
    ASSUME NEW A \in SUBSET (Nat \ {0}), NEW B \in SUBSET (Nat \ {0}), A \cap B = {}, NEW i \in Nat
    PROVE  GoneBefore(A \cup B, i) = GoneBefore(A, i) + GoneBefore(B, i)
<1> DEFINE a == {k \in A : k < i}
           b == {k \in B : k < i}
<1>1. IsFiniteSet(a) /\ IsFiniteSet(b)
  <2>1. (\A s \in A : s \in Nat /\ (s < i => s <= i)) /\ (\A s \in B : s \in Nat /\ (s < i => s <= i))
    OBVIOUS
  <2>2. a \in SUBSET Nat /\ b \in SUBSET Nat /\ (\A s \in a : s <= i) /\ (\A s \in b : s <= i)
    BY <2>1
  <2> HIDE DEF a, b
  <2> QED BY <2>2, FS_BoundedSetOfNaturals
<1>2. {k \in A \cup B : k < i} = a \cup b /\ a \cap b = {}
  <2>1. {k \in A \cup B : k < i} = a \cup b
    BY Zenon
  <2>2. a \cap b = {}
    BY Zenon
  <2> QED BY <2>1, <2>2
<1> HIDE DEF a, b
<1>3. Cardinality(a \cup b) = Cardinality(a) + Cardinality(b) - Cardinality(a \cap b)
  BY <1>1, FS_Union
<1>4. Cardinality(a) \in Nat /\ Cardinality(b) \in Nat /\ Cardinality({}) = 0
  BY <1>1, FS_CardinalityType, FS_EmptySet
<1>5. Cardinality(a \cup b) = Cardinality(a) + Cardinality(b)
  BY <1>2, <1>3, <1>4
<1> QED BY <1>2, <1>5 DEF GoneBefore, a, b

LEMMA GoneOfRange ==
    ASSUME NEW a \in Nat \ {0}, NEW b \in Nat, a <= b, NEW i \in Nat
    PROVE  /\ i <= a => GoneBefore(a .. b, i) = 0
           /\ a <= i /\ i <= b + 1 => GoneBefore(a .. b, i) = i - a
           /\ i > b => GoneBefore(a .. b, i) = b - a + 1
<1>1. PICK n \in Int : n = IF i <= b THEN i - 1 ELSE b
  OBVIOUS
<1>2. {k \in a .. b : k < i} = a .. n
  BY <1>1
<1>3. Cardinality(a .. n) = IF a > n THEN 0 ELSE n - a + 1
  BY FS_Interval
<1>4. GoneBefore(a .. b, i) = IF a > n THEN 0 ELSE n - a + 1
  BY <1>2, <1>3 DEF GoneBefore
<1> QED BY <1>1, <1>4

\* How many of the first n lines are left.
LEMMA LeftOf ==
    ASSUME NEW G \in SUBSET (Nat \ {0}), NEW n \in Nat
    PROVE  Cardinality((1 .. n) \ G) = n - GoneBefore(G, n + 1)
<1> DEFINE g == {k \in G : k < n + 1}
           l == (1 .. n) \ G
<1>1. g \cup l = 1 .. n /\ g \cap l = {} /\ g \in SUBSET (1 .. n) /\ l \in SUBSET (1 .. n)
  <2>1. \A k \in G : k \in Nat /\ (k < n + 1 <=> k \in 1 .. n)
    OBVIOUS
  <2>2. \A k \in 1 .. n : k < n + 1
    OBVIOUS
  <2> QED BY <2>1, <2>2
<1>2. IsFiniteSet(1 .. n) /\ Cardinality(1 .. n) = IF 1 > n THEN 0 ELSE n - 1 + 1
  <2>1. 1 \in Int /\ n \in Int
    OBVIOUS
  <2> QED BY <2>1, FS_Interval
<1> HIDE DEF g, l
<1>3. IsFiniteSet(g) /\ IsFiniteSet(l)
  BY <1>1, <1>2, FS_Subset
<1>4. Cardinality(g \cup l) = Cardinality(g) + Cardinality(l) - Cardinality(g \cap l)
  BY <1>3, FS_Union
<1>5. Cardinality(g) \in Nat /\ Cardinality(l) \in Nat /\ Cardinality({}) = 0
  BY <1>3, FS_CardinalityType, FS_EmptySet
<1>6. Cardinality(l) = n - Cardinality(g)
  <2>1. PICK x, y \in Nat : x = Cardinality(g) /\ y = Cardinality(l)
    BY <1>5
  <2>2. Cardinality(1 .. n) = x + y - 0
    BY <1>1, <1>4, <1>5, <2>1
  <2> QED BY <1>2, <2>1, <2>2
<1> QED BY <1>6 DEF GoneBefore, g, l

\* The place of a line when the lines of G are gone.
Place(G, i) == i - GoneBefore(G, i)

\* Places are positive, in the order of the lines, and different for lines that are left.
LEMMA PlacesInOrder ==
    ASSUME NEW G \in SUBSET (Nat \ {0}), NEW i \in Nat \ {0}, NEW j \in Nat \ {0}, i <= j
    PROVE  /\ Place(G, i) \in Nat \ {0} /\ Place(G, j) \in Nat \ {0} /\ Place(G, i) <= Place(G, j)
           /\ i < j /\ i \notin G => Place(G, i) + 1 <= Place(G, j)
<1>1. GoneBefore(G, 1) = 0
  <2>1. \A k \in G : ~(k < 1)
    OBVIOUS
  <2>2. {k \in G : k < 1} = {}
    BY <2>1
  <2> QED BY <2>2, FS_EmptySet DEF GoneBefore
<1>2. /\ GoneBefore(G, i) \in Nat /\ GoneBefore(G, i) <= GoneBefore(G, 1) + (i - 1)
  <2>1. 1 \in Nat /\ 1 <= i
    OBVIOUS
  <2> QED BY <2>1, GoneBetween
<1>3. /\ GoneBefore(G, j) \in Nat /\ GoneBefore(G, j) <= GoneBefore(G, i) + (j - i)
  BY GoneBetween
<1>4. ASSUME i < j, i \notin G PROVE GoneBefore(G, j) + 1 <= GoneBefore(G, i) + (j - i)
  <2>1. PICK k \in Nat : k = i + 1
    OBVIOUS
  <2>2. GoneBefore(G, k) = GoneBefore(G, i)
    <3>1. i <= k /\ \A x \in G : x < i \/ k <= x
      BY <1>4, <2>1
    <3> QED BY <3>1, GoneBetween
  <2>3. GoneBefore(G, j) <= GoneBefore(G, k) + (j - k)
    <3>1. k <= j
      BY <1>4, <2>1
    <3> QED BY <3>1, GoneBetween
  <2> QED BY <1>2, <1>3, <2>1, <2>2, <2>3
<1>5. PICK x, y \in Nat : x = GoneBefore(G, i) /\ y = GoneBefore(G, j)
  BY <1>2, <1>3
<1> QED BY <1>1, <1>2, <1>3, <1>4, <1>5 DEF Place

(***************************************************************************)
(* The shifts of a call: each is of lines that were removed, no two of the *)
(* same lines.                                                             *)
(***************************************************************************)
LinesOfShift(s) == s.start .. s.start + s.count - 1
LinesOfShifts(shifts, n) == UNION {LinesOfShift(shifts[k]) : k \in 1 .. n}
ShiftsApart(shifts) ==
    \A k \in DOMAIN shifts :
        /\ shifts[k].start # 0 /\ shifts[k].count # 0
        /\ \A j \in DOMAIN shifts \ {k} : LinesOfShift(shifts[j]) \cap LinesOfShift(shifts[k]) = {}

ShiftsOf(shifts, gone) ==
    /\ shifts \in Seq(Shift)
    /\ ShiftsApart(shifts)
    /\ gone = LinesOfShifts(shifts, Len(shifts))

LEMMA ShiftIsOfLines ==
    ASSUME NEW shifts, NEW gone, ShiftsOf(shifts, gone)
    PROVE  /\ gone \in SUBSET (Nat \ {0})
           /\ \A n \in 0 .. Len(shifts) : LinesOfShifts(shifts, n) \in SUBSET (Nat \ {0})
<1>1. \A k \in DOMAIN shifts : shifts[k] \in Shift /\ shifts[k].start # 0
  BY DEF ShiftsOf, ShiftsApart
<1>2. ASSUME NEW k \in 1 .. Len(shifts), NEW i \in LinesOfShift(shifts[k]) PROVE i \in Nat \ {0}
  <2>1. k \in DOMAIN shifts
    BY DEF ShiftsOf
  <2>2. shifts[k].start \in Nat \ {0} /\ shifts[k].count \in Nat
    BY <1>1, <2>1 DEF Shift
  <2> QED BY <2>2 DEF LinesOfShift
<1>3. Len(shifts) \in Nat
  BY DEF ShiftsOf
<1>4. ASSUME NEW n \in 0 .. Len(shifts) PROVE LinesOfShifts(shifts, n) \in SUBSET (Nat \ {0})
  <2>1. \A k \in 1 .. n : k \in 1 .. Len(shifts)
    BY <1>3
  <2> QED BY <1>2, <2>1 DEF LinesOfShifts
<1>5. Len(shifts) \in 0 .. Len(shifts)
  BY <1>3
<1> QED BY <1>4, <1>5 DEF ShiftsOf

\* What a shift adds to the sum for a line that is not one of its lines.
LEMMA AddedIsGone ==
    ASSUME NEW s \in Shift, s.start # 0, s.count # 0, NEW line \in Nat \ {0}, line \notin LinesOfShift(s),
           NEW sum \in Nat
    PROVE  Added(line, sum, s) = sum + GoneBefore(LinesOfShift(s), line)
<1>1. PICK a \in Nat \ {0}, c \in Nat \ {0} : a = s.start /\ c = s.count
  BY DEF Shift
<1>2. PICK b \in Nat : b = a + c - 1 /\ a <= b
  OBVIOUS
<1>3. LinesOfShift(s) = a .. b
  BY <1>1, <1>2 DEF LinesOfShift
<1>4. line < a \/ line > b
  BY <1>3
<1>5. /\ line <= a => GoneBefore(a .. b, line) = 0
      /\ line > b => GoneBefore(a .. b, line) = b - a + 1
  BY <1>2, GoneOfRange
<1>6. CASE line < a
  BY <1>1, <1>2, <1>3, <1>5, <1>6 DEF Added
<1>7. CASE line > b
  <2>1. b - a + 1 = c /\ a + c <= line
    BY <1>2, <1>7
  <2> QED BY <1>1, <1>3, <1>5, <1>7, <2>1 DEF Added
<1> QED BY <1>4, <1>6, <1>7

\* The next shift's lines are not those of the shifts before it.
LEMMA NextShift ==
    ASSUME NEW shifts \in Seq(Shift), ShiftsApart(shifts), NEW n \in Nat, n + 1 <= Len(shifts)
    PROVE  /\ LinesOfShifts(shifts, n + 1) = LinesOfShifts(shifts, n) \cup LinesOfShift(shifts[n + 1])
           /\ LinesOfShifts(shifts, n) \cap LinesOfShift(shifts[n + 1]) = {}
<1>1. PICK m \in DOMAIN shifts : m = n + 1
  OBVIOUS
<1>2. 1 .. m = (1 .. n) \cup {m} /\ \A k \in 1 .. n : k \in DOMAIN shifts \ {m}
  BY <1>1
<1>3. LinesOfShifts(shifts, m) = LinesOfShifts(shifts, n) \cup LinesOfShift(shifts[m])
  BY <1>2 DEF LinesOfShifts
<1>4. \A k \in 1 .. n : LinesOfShift(shifts[k]) \cap LinesOfShift(shifts[m]) = {}
  BY <1>2 DEF ShiftsApart
<1>5. LinesOfShifts(shifts, n) \cap LinesOfShift(shifts[m]) = {}
  BY <1>4 DEF LinesOfShifts
<1> QED BY <1>1, <1>3, <1>5

\* A line that is left is adjusted to its place among the lines that are left.
LEMMA AdjustedIsPlace ==
    ASSUME NEW shifts, NEW gone, ShiftsOf(shifts, gone), NEW line \in Nat \ {0}, line \notin gone
    PROVE  adjustLineForShifts(line, shifts) = Place(gone, line)
<1> DEFINE N == Len(shifts)
           before(n) == LinesOfShifts(shifts, n)
           total == FoldLeft(LAMBDA sum, s : IF s.start + s.count <= line THEN sum + s.count ELSE sum, 0, shifts)
<1>1. shifts \in Seq(Shift) /\ ShiftsApart(shifts) /\ N \in Nat /\ DOMAIN shifts = 1 .. N
      /\ \A k \in 1 .. N : shifts[k] \in Shift /\ shifts[k].start # 0 /\ shifts[k].count # 0
  BY DEF ShiftsOf, ShiftsApart
<1>2. \A k \in 1 .. N : line \notin LinesOfShift(shifts[k])
  BY DEF ShiftsOf, LinesOfShifts
<1>3. {k \in DOMAIN shifts : shifts[k].start <= line /\ line < shifts[k].start + shifts[k].count} = {}
  <2>1. ASSUME NEW k \in 1 .. N PROVE ~(shifts[k].start <= line /\ line < shifts[k].start + shifts[k].count)
    <3>1. PICK a \in Nat \ {0}, c \in Nat \ {0} : a = shifts[k].start /\ c = shifts[k].count
      BY <1>1 DEF Shift
    <3>2. line \notin a .. a + c - 1
      BY <1>2, <3>1 DEF LinesOfShift
    <3> QED BY <3>1, <3>2
  <2> QED BY <1>1, <2>1
<1>4. PICK D \in [0 .. N -> Nat] :
        /\ D[0] = 0 /\ total = D[N]
        /\ \A k \in 1 .. N : D[k] = Added(line, D[k - 1], shifts[k])
  BY <1>1, SumSteps
<1> DEFINE P == {n \in Nat : n <= N => D[n] = GoneBefore(before(n), line)}
<1>5. 0 \in P
  <2>1. before(0) = {}
    <3>1. 1 .. 0 = {}
      OBVIOUS
    <3> QED BY <3>1 DEF LinesOfShifts
  <2>2. {i \in {} : i < line} = {}
    OBVIOUS
  <2>3. GoneBefore(before(0), line) = 0
    BY <2>1, <2>2, FS_EmptySet DEF GoneBefore
  <2> HIDE DEF before
  <2> QED BY <1>4, <2>3
<1>6. ASSUME NEW n \in Nat, n \in P PROVE n + 1 \in P
  <2>1. SUFFICES ASSUME n + 1 <= N PROVE D[n + 1] = GoneBefore(before(n + 1), line)
    OBVIOUS
  <2>2. PICK m \in 1 .. N : m = n + 1 /\ m - 1 = n
    BY <2>1
  <2>3. n \in 0 .. N /\ D[n] \in Nat /\ D[n] = GoneBefore(before(n), line)
    BY <1>1, <1>6, <2>1
  <2>4. D[m] = Added(line, D[n], shifts[m])
    BY <1>4, <2>2
  <2>5. before(m) = before(n) \cup LinesOfShift(shifts[m]) /\ before(n) \cap LinesOfShift(shifts[m]) = {}
    BY <1>1, <2>1, <2>2, NextShift
  <2>6. before(n) \in SUBSET (Nat \ {0}) /\ before(m) \in SUBSET (Nat \ {0})
    BY <1>1, <2>2, <2>3, ShiftIsOfLines
  <2> HIDE DEF before
  <2>7. LinesOfShift(shifts[m]) \in SUBSET (Nat \ {0})
    BY <2>5, <2>6
  <2>8. GoneBefore(before(m), line) = GoneBefore(before(n), line) + GoneBefore(LinesOfShift(shifts[m]), line)
    BY <2>5, <2>6, <2>7, GoneOfBoth
  <2>9. D[m] = D[n] + GoneBefore(LinesOfShift(shifts[m]), line)
    BY <1>1, <1>2, <2>3, <2>4, AddedIsGone
  <2> QED BY <2>2, <2>3, <2>8, <2>9
<1> HIDE DEF P
<1>7. \A n \in Nat : n \in P
  BY <1>5, <1>6, CountingUp
<1>8. total = GoneBefore(gone, line)
  <2>1. N \in P /\ N <= N
    BY <1>1, <1>7
  <2>2. gone = before(N)
    BY DEF ShiftsOf
  <2> HIDE DEF total, before
  <2> QED BY <1>1, <1>4, <2>1, <2>2 DEF P
<1> HIDE DEF total
<1>9. gone \in SUBSET (Nat \ {0})
  BY ShiftIsOfLines
<1>10. Place(gone, line) \in Nat \ {0}
  BY <1>9, PlacesInOrder
<1>11. GoneBefore(gone, line) \in Nat
  BY <1>9, GoneSplit
<1>12. adjustLineForShifts(line, shifts) = IF total > line THEN 0 ELSE line - total
  BY <1>3 DEF adjustLineForShifts, total
<1> QED BY <1>8, <1>10, <1>11, <1>12 DEF Place

\* One element between two lists.
Between(r, a, new, b) ==
    /\ Len(r) = Len(a) + 1 + Len(b)
    /\ \A i \in 1 .. Len(r) : r[i] = IF i <= Len(a) THEN a[i] ELSE IF i = Len(a) + 1 THEN new ELSE b[i - (Len(a) + 1)]

LEMMA PutBetween ==
    ASSUME NEW S, NEW a \in Seq(S), NEW new \in S, NEW b \in Seq(S)
    PROVE  \E r \in Seq(S) : r = a \o <<new>> \o b /\ Between(r, a, new, b)
<1>1. PICK c \in Seq(S) : c = <<new>> /\ Len(c) = 1 /\ c[1] = new
  <2>1. <<new>> \in Seq(S) /\ Len(<<new>>) = 1 /\ <<new>>[1] = new
    OBVIOUS
  <2> QED BY <2>1
<1>2. PICK m \in Nat, n \in Nat : m = Len(a) /\ n = Len(b)
  OBVIOUS
<1>3. /\ a \o c \in Seq(S) /\ Len(a \o c) = m + 1
      /\ \A i \in 1 .. m + 1 : (a \o c)[i] = IF i <= m THEN a[i] ELSE c[i - m]
  BY <1>1, <1>2, ConcatProperties
<1>4. PICK e \in Seq(S) : /\ e = a \o c /\ Len(e) = m + 1
                          /\ \A i \in 1 .. m + 1 : e[i] = IF i <= m THEN a[i] ELSE c[i - m]
  BY <1>3
<1>5. /\ e \o b \in Seq(S) /\ Len(e \o b) = Len(e) + n
      /\ \A i \in 1 .. Len(e) + n : (e \o b)[i] = IF i <= Len(e) THEN e[i] ELSE b[i - Len(e)]
  BY <1>2, ConcatProperties
<1>6. PICK r \in Seq(S) : /\ r = e \o b /\ Len(r) = m + 1 + n
                          /\ \A i \in 1 .. m + 1 + n : r[i] = IF i <= m + 1 THEN e[i] ELSE b[i - (m + 1)]
  <2>1. PICK r \in Seq(S) : r = e \o b
    BY <1>5
  <2>2. /\ Len(r) = m + 1 + n
        /\ \A i \in 1 .. m + 1 + n : r[i] = IF i <= m + 1 THEN e[i] ELSE b[i - (m + 1)]
    BY <1>4, <1>5, <2>1
  <2> QED BY <2>1, <2>2
<1>7. ASSUME NEW i \in 1 .. m + 1 + n
      PROVE  r[i] = IF i <= m THEN a[i] ELSE IF i = m + 1 THEN new ELSE b[i - (m + 1)]
  <2>1. CASE i <= m
    <3>1. i \in 1 .. m + 1 /\ i <= m + 1
      BY <2>1
    <3> QED BY <1>4, <1>6, <2>1, <3>1
  <2>2. CASE i = m + 1
    <3>1. m + 1 \in 1 .. m + 1 /\ m + 1 <= m + 1 /\ ~(m + 1 <= m) /\ (m + 1) - m = 1
      OBVIOUS
    <3>2. e[m + 1] = new
      BY <1>1, <1>4, <3>1
    <3> QED BY <1>6, <2>2, <3>1, <3>2
  <2>3. CASE i > m + 1
    <3>1. ~(i <= m + 1) /\ ~(i <= m) /\ i # m + 1
      BY <2>3
    <3> QED BY <1>6, <3>1
  <2> QED BY <2>1, <2>2, <2>3
<1>8. Between(r, a, new, b)
  BY <1>2, <1>6, <1>7 DEF Between
<1> QED BY <1>1, <1>4, <1>6, <1>8

\* A shift put among the shifts, behind the first c.
PutAt(r, shifts, c, new) ==
    /\ r \in Seq(Shift)
    /\ Len(r) = Len(shifts) + 1
    /\ \A k \in 1 .. Len(shifts) + 1 : r[k] = IF k <= c THEN shifts[k] ELSE IF k = c + 1 THEN new ELSE shifts[k - 1]

LEMMA ShiftPut ==
    ASSUME NEW shifts \in Seq(Shift), NEW c \in 0 .. Len(shifts), NEW new \in Shift
    PROVE  PutAt(InsertAt(shifts, c + 1, new), shifts, c, new)
<1>1. PICK n \in Nat : n = Len(shifts) /\ c \in 0 .. n /\ c \in Nat
  OBVIOUS
<1>2. /\ SubSeq(shifts, 1, c) \in Seq(Shift) /\ Len(SubSeq(shifts, 1, c)) = c
      /\ \A k \in 1 .. c : SubSeq(shifts, 1, c)[k] = shifts[k]
  BY <1>1
<1>3. PICK a \in Seq(Shift) : a = SubSeq(shifts, 1, c) /\ Len(a) = c /\ \A k \in 1 .. c : a[k] = shifts[k]
  BY <1>2
<1>4. \A k \in c + 1 .. n : shifts[k] \in Shift
  BY <1>1
<1>5. PICK r : r = SubSeq(shifts, c + 1, n)
  OBVIOUS
<1>6. /\ r \in Seq(Shift) /\ Len(r) = IF c + 1 <= n THEN n - (c + 1) + 1 ELSE 0
      /\ \A k \in 1 .. n - (c + 1) + 1 : r[k] = shifts[c + 1 + k - 1]
  BY <1>1, <1>4, <1>5, SubSeqProperties
<1>7. r \in Seq(Shift) /\ Len(r) = n - c /\ \A k \in 1 .. n - c : r[k] = shifts[c + k]
  BY <1>1, <1>6
<1>8. PICK q \in Seq(Shift) : q = a \o <<new>> \o r /\ Between(q, a, new, r)
  BY <1>7, PutBetween
<1>9. /\ Len(q) = n + 1
      /\ \A k \in 1 .. n + 1 : q[k] = IF k <= c THEN a[k] ELSE IF k = c + 1 THEN new ELSE r[k - (c + 1)]
  <2>1. c + 1 + (n - c) = n + 1
    BY <1>1
  <2> QED BY <1>3, <1>7, <1>8, <2>1 DEF Between
<1>10. InsertAt(shifts, c + 1, new) = q
  <2>1. (c + 1) - 1 = c
    BY <1>1
  <2>2. InsertAt(shifts, c + 1, new) = SubSeq(shifts, 1, (c + 1) - 1) \o <<new>> \o SubSeq(shifts, c + 1, Len(shifts))
    BY DEF InsertAt
  <2> QED BY <1>1, <1>3, <1>5, <1>8, <2>1, <2>2, Zenon
<1>11. ASSUME NEW k \in 1 .. n + 1
       PROVE  q[k] = IF k <= c THEN shifts[k] ELSE IF k = c + 1 THEN new ELSE shifts[k - 1]
  <2>1. CASE k <= c
    <3>1. k \in 1 .. c
      BY <1>1, <2>1
    <3> QED BY <1>3, <1>9, <2>1, <3>1
  <2>2. CASE k = c + 1
    <3>1. ~(k <= c)
      BY <1>1, <2>2
    <3> QED BY <1>9, <2>2, <3>1
  <2>3. CASE k > c + 1
    <3>1. k - (c + 1) \in 1 .. n - c /\ c + (k - (c + 1)) = k - 1 /\ ~(k <= c) /\ k # c + 1
      BY <1>1, <2>3
    <3>2. r[k - (c + 1)] = shifts[k - 1]
      BY <1>7, <3>1
    <3> QED BY <1>9, <3>1, <3>2
  <2>4. k <= c \/ k = c + 1 \/ k > c + 1
    BY <1>1
  <2> QED BY <2>1, <2>2, <2>3, <2>4
<1>12. PutAt(q, shifts, c, new)
  BY <1>1, <1>9, <1>11 DEF PutAt
<1> QED BY <1>10, <1>12

LEMMA PutApart ==
    ASSUME NEW shifts, NEW gone, ShiftsOf(shifts, gone), NEW c \in 0 .. Len(shifts), NEW new \in Shift,
           new.start # 0, new.count # 0, LinesOfShift(new) \cap gone = {}
    PROVE  ShiftsOf(InsertAt(shifts, c + 1, new), gone \cup LinesOfShift(new))
<1>1. PICK r : r = InsertAt(shifts, c + 1, new)
  OBVIOUS
<1>2. PICK n \in Nat : n = Len(shifts) /\ DOMAIN shifts = 1 .. n /\ c \in 0 .. n
  BY DEF ShiftsOf
<1>3. /\ r \in Seq(Shift) /\ Len(r) = n + 1 /\ DOMAIN r = 1 .. n + 1
      /\ \A k \in 1 .. n + 1 : r[k] = IF k <= c THEN shifts[k] ELSE IF k = c + 1 THEN new ELSE shifts[k - 1]
  <2>1. shifts \in Seq(Shift)
    BY DEF ShiftsOf
  <2>2. PutAt(r, shifts, c, new)
    BY <1>1, <2>1, ShiftPut
  <2> QED BY <1>2, <2>2 DEF PutAt
<1>4. \A k \in 1 .. n : LinesOfShift(shifts[k]) \cap LinesOfShift(new) = {}
  BY <1>2 DEF ShiftsOf, LinesOfShifts
\* The place of a shift before the new one was put among them.
<1> DEFINE old(k) == IF k <= c THEN k ELSE k - 1
<1>5. \A k \in 1 .. n + 1 : k # c + 1 => old(k) \in 1 .. n /\ r[k] = shifts[old(k)]
  BY <1>2, <1>3
<1>6. \A j, k \in 1 .. n + 1 : j # c + 1 /\ k # c + 1 /\ j # k => old(j) # old(k)
  BY <1>2
<1>7. r[c + 1] = new /\ c + 1 \in 1 .. n + 1
  BY <1>2, <1>3
<1>8. \A i \in 1 .. n : \E k \in 1 .. n + 1 : k # c + 1 /\ old(k) = i
  <2>1. \A i \in 1 .. n : IF i <= c THEN i \in 1 .. n + 1 /\ i # c + 1 /\ old(i) = i
                          ELSE i + 1 \in 1 .. n + 1 /\ i + 1 # c + 1 /\ old(i + 1) = i
    BY <1>2
  <2> HIDE DEF old
  <2> QED BY <2>1
<1> HIDE DEF old
<1>9. ShiftsApart(shifts)
  BY DEF ShiftsOf
<1>10. ASSUME NEW k \in 1 .. n + 1, NEW j \in (1 .. n + 1) \ {k}
       PROVE  LinesOfShift(r[j]) \cap LinesOfShift(r[k]) = {}
  <2>1. CASE k = c + 1
    <3>1. LinesOfShift(shifts[old(j)]) \cap LinesOfShift(new) = {}
      BY <1>4, <1>5, <2>1
    <3> QED BY <1>5, <1>7, <2>1, <3>1
  <2>2. CASE j = c + 1
    <3>1. LinesOfShift(shifts[old(k)]) \cap LinesOfShift(new) = {}
      BY <1>4, <1>5, <2>2
    <3> QED BY <1>5, <1>7, <2>2, <3>1
  <2>3. CASE k # c + 1 /\ j # c + 1
    <3>1. old(j) \in 1 .. n /\ old(k) \in 1 .. n /\ old(j) # old(k)
      BY <1>5, <1>6, <2>3
    <3>2. LinesOfShift(shifts[old(j)]) \cap LinesOfShift(shifts[old(k)]) = {}
      BY <1>2, <1>9, <3>1 DEF ShiftsApart
    <3> QED BY <1>5, <2>3, <3>2
  <2> QED BY <2>1, <2>2, <2>3
<1>11. ASSUME NEW k \in 1 .. n + 1 PROVE r[k].start # 0 /\ r[k].count # 0
  <2>1. CASE k = c + 1
    BY <1>7, <2>1
  <2>2. CASE k # c + 1
    BY <1>2, <1>5, <1>9, <2>2 DEF ShiftsApart
  <2> QED BY <2>1, <2>2
<1>12. ShiftsApart(r)
  BY <1>3, <1>10, <1>11 DEF ShiftsApart
<1>13. LinesOfShifts(r, n + 1) = gone \cup LinesOfShift(new)
  <2>1. gone = LinesOfShifts(shifts, n)
    BY <1>2 DEF ShiftsOf
  <2>2. ASSUME NEW i \in LinesOfShifts(r, n + 1) PROVE i \in gone \cup LinesOfShift(new)
    <3>1. PICK k \in 1 .. n + 1 : i \in LinesOfShift(r[k])
      BY DEF LinesOfShifts
    <3> QED BY <1>5, <1>7, <2>1, <3>1 DEF LinesOfShifts
  <2>3. ASSUME NEW i \in gone \cup LinesOfShift(new) PROVE i \in LinesOfShifts(r, n + 1)
    <3>1. CASE i \in LinesOfShift(new)
      BY <1>7, <3>1 DEF LinesOfShifts
    <3>2. CASE i \in gone
      <4>1. PICK m \in 1 .. n : i \in LinesOfShift(shifts[m])
        BY <2>1, <3>2 DEF LinesOfShifts
      <4>2. PICK k \in 1 .. n + 1 : k # c + 1 /\ old(k) = m
        BY <1>8
      <4>3. i \in LinesOfShift(r[k])
        BY <1>5, <4>1, <4>2
      <4> QED BY <4>3 DEF LinesOfShifts
    <3> QED BY <3>1, <3>2
  <2> QED BY <2>2, <2>3
<1> QED BY <1>1, <1>3, <1>12, <1>13 DEF ShiftsOf

\* A removal by number is recorded as a shift of its lines.
LEMMA RecordedApart ==
    ASSUME NEW shifts, NEW gone, ShiftsOf(shifts, gone), NEW spec \in LineSpec, ~spec.symbol, spec.from # 0,
           LinesOf(spec) \cap gone = {}
    PROVE  ShiftsOf(Recorded(shifts, spec), gone \cup LinesOf(spec))
<1> DEFINE before == {k \in DOMAIN shifts : shifts[k].start <= spec.from}
           new == [start |-> spec.from, count |-> spec.to - spec.from + 1]
<1>1. PICK a \in Nat \ {0}, b \in Nat : a = spec.from /\ b = spec.to /\ a <= b
  BY DEF LineSpec
<1>2. new \in Shift /\ new.start = a /\ new.count = b - a + 1 /\ new.count # 0
  BY <1>1 DEF Shift
<1> HIDE DEF new
<1>3. LinesOfShift(new) = LinesOf(spec)
  <2>1. a + (b - a + 1) - 1 = b
    BY <1>1
  <2> QED BY <1>1, <1>2, <2>1 DEF LinesOfShift, LinesOf
<1>4. shifts \in Seq(Shift)
  BY DEF ShiftsOf
<1>5. Cardinality(before) \in 0 .. Len(shifts)
  <2>1. PICK n \in Nat : n = Len(shifts) /\ DOMAIN shifts = 1 .. n
    BY <1>4
  <2>2. 1 \in Int /\ n \in Int
    OBVIOUS
  <2>3. IsFiniteSet(1 .. n) /\ Cardinality(1 .. n) = IF 1 > n THEN 0 ELSE n - 1 + 1
    BY <2>2, FS_Interval
  <2>4. before \in SUBSET (1 .. n)
    BY <2>1
  <2> HIDE DEF before
  <2>5. IsFiniteSet(before) /\ Cardinality(before) <= Cardinality(1 .. n)
    BY <2>3, <2>4, FS_Subset
  <2>6. Cardinality(before) \in Nat
    BY <2>5, FS_CardinalityType
  <2> QED BY <2>1, <2>3, <2>5, <2>6
<1> HIDE DEF before
<1>6. PICK c \in 0 .. Len(shifts) : c = Cardinality(before)
  BY <1>5
<1>7. Recorded(shifts, spec) = InsertAt(shifts, c + 1, new)
  BY <1>6 DEF Recorded, before, new
<1>8. ShiftsOf(InsertAt(shifts, c + 1, new), gone \cup LinesOfShift(new))
  <2>1. new.start # 0 /\ LinesOfShift(new) \cap gone = {}
    BY <1>1, <1>2, <1>3
  <2> QED BY <1>2, <2>1, PutApart
<1> QED BY <1>3, <1>7, <1>8

\* One removal by number: its range, and what is recorded of it.
LEMMA OneByNumber ==
    ASSUME NEW S, NEW text \in Seq(S), NEW f \in File, NEW shifts \in Seq(Shift), NEW remove \in Seq(LineSpec),
           Len(remove) = 1, ~remove[1].symbol
    PROVE  /\ SymbolRanges(text, f, remove) \o NumberRanges(shifts, remove)
                = <<[from |-> adjustLineForShifts(remove[1].from, shifts),
                     to |-> adjustLineForShifts(remove[1].from, shifts) + (remove[1].to - remove[1].from)]>>
           /\ FoldLeft(Recorded, shifts, remove) = Recorded(shifts, remove[1])
<1> DEFINE a == SymbolRanges(text, f, remove)
           b == NumberRanges(shifts, remove)
           start == adjustLineForShifts(remove[1].from, shifts)
           range == [from |-> start, to |-> start + (remove[1].to - remove[1].from)]
<1>1. 1 \in 1 .. Len(remove) /\ 1 - 1 = 0
  OBVIOUS
<1>2. a = << >>
  <2>1. PICK A \in [0 .. Len(remove) -> Seq(LineRange)] :
           /\ A[0] = << >> /\ a = A[Len(remove)]
           /\ \A k \in 1 .. Len(remove) : A[k] = SymbolRange(text, f, A[k - 1], remove[k])
    BY SymbolSteps, SMTT(60)
  <2> HIDE DEF a
  <2> QED BY <1>1, <2>1 DEF SymbolRange
<1>3. b = Append(<< >>, range)
  <2>1. PICK B \in [0 .. Len(remove) -> Seq(LineRange)] :
           /\ B[0] = << >> /\ b = B[Len(remove)]
           /\ \A k \in 1 .. Len(remove) : B[k] = NumberRange(shifts, B[k - 1], remove[k])
    BY NumberSteps
  <2> HIDE DEF b
  <2> QED BY <1>1, <2>1 DEF NumberRange
<1>4. FoldLeft(Recorded, shifts, remove) = Recorded(shifts, remove[1])
  <2>1. PICK D \in [0 .. Len(remove) -> Seq(Shift)] :
           /\ D[0] = shifts /\ FoldLeft(Recorded, shifts, remove) = D[Len(remove)]
           /\ \A k \in 1 .. Len(remove) : D[k] = Recorded(D[k - 1], remove[k])
    BY RecordedSteps
  <2> QED BY <1>1, <2>1
<1> HIDE DEF a, b, range
<1>5. a \o b = <<range>>
  BY <1>2, <1>3
<1> QED BY <1>4, <1>5 DEF a, b, range

(***************************************************************************)
(* A text and the lines it was made of.                                    *)
(***************************************************************************)
\* The text is what is left of the original lines, each at its place, the updated ones new.
Follows(original, gone, updated, new, text) ==
    /\ Len(text) = Cardinality(DOMAIN original \ gone)
    /\ \A i \in DOMAIN original \ gone :
          text[i - GoneBefore(gone, i)] = IF i \in updated THEN new ELSE original[i]

\* How long such a text is: the first line behind it is where a line behind the original is.
LEMMA LengthLeft ==
    ASSUME NEW S, NEW original \in Seq(S), NEW gone \in SUBSET (Nat \ {0}), NEW updated, NEW new, NEW text,
           Follows(original, gone, updated, new, text)
    PROVE  /\ Len(text) = Len(original) - GoneBefore(gone, Len(original) + 1)
           /\ Len(text) = Place(gone, Len(original) + 1) - 1
           /\ \A i \in DOMAIN original \ gone : Place(gone, i) \in 1 .. Len(text)
<1>1. PICK n \in Nat : n = Len(original) /\ DOMAIN original = 1 .. n
  OBVIOUS
<1>2. Cardinality((1 .. n) \ gone) = n - GoneBefore(gone, n + 1)
  BY LeftOf
<1>3. n + 1 \in Nat \ {0}
  OBVIOUS
<1>4. PICK g \in Nat : g = GoneBefore(gone, n + 1)
  BY <1>3, GoneIsNat
<1>5. Len(text) = n - g
  BY <1>1, <1>2, <1>4 DEF Follows
<1>6. Place(gone, n + 1) = (n + 1) - g
  BY <1>4 DEF Place
<1>7. ASSUME NEW i \in (1 .. n) \ gone PROVE Place(gone, i) \in 1 .. Len(text)
  <2>1. i \in Nat \ {0} /\ i <= n + 1 /\ i < n + 1 /\ i \notin gone
    OBVIOUS
  <2>2. Place(gone, i) \in Nat \ {0} /\ Place(gone, i) + 1 <= Place(gone, n + 1)
    BY <1>3, <2>1, PlacesInOrder
  <2> QED BY <1>4, <1>5, <1>6, <2>2
<1> QED BY <1>1, <1>4, <1>5, <1>6, <1>7

\* The lines p to q deleted: the first h lines of r are those before them, the other t those behind.
Leaves(text, p, q, r, h, t) ==
    /\ h = IF p - 1 <= Len(text) THEN p - 1 ELSE Len(text)
    /\ t = IF q < Len(text) THEN Len(text) - q ELSE 0
    /\ Len(r) = h + t
    /\ \A i \in 1 .. h : r[i] = text[i]
    /\ \A i \in 1 .. t : r[h + i] = text[q + i]

LEMMA DeleteLeaves ==
    ASSUME NEW S, NEW text \in Seq(S), NEW p \in Nat \ {0}, NEW q \in Nat
    PROVE  \E r \in Seq(S), h \in Nat, t \in Nat :
              r = Delete(text, [from |-> p, to |-> q]) /\ Leaves(text, p, q, r, h, t)
<1>1. PICK n \in Nat : n = Len(text) /\ \A i \in 1 .. n : text[i] \in S
  OBVIOUS
<1>2. PICK h \in Nat : h = IF p - 1 <= n THEN p - 1 ELSE n
  OBVIOUS
<1>3. Before(text, p) = SubSeq(text, 1, h)
  <2>1. p - 1 \in Int /\ n \in Int
    OBVIOUS
  <2>2. Min({p - 1, n}) = IF p - 1 <= n THEN p - 1 ELSE n
    BY <2>1, MinOfTwo
  <2> QED BY <1>1, <1>2, <2>2 DEF Before
<1>4. h <= n /\ h \in 0 .. n
  BY <1>2
<1>5. PICK a \in Seq(S) : a = SubSeq(text, 1, h) /\ Len(a) = h /\ \A i \in 1 .. h : a[i] = text[i]
  <2>1. SubSeq(text, 1, h) \in Seq(S) /\ Len(SubSeq(text, 1, h)) = h /\ \A i \in 1 .. h : SubSeq(text, 1, h)[i] = text[i]
    BY <1>1, <1>4
  <2> QED BY <2>1
<1>6. PICK b : b = SubSeq(text, q + 1, n)
  OBVIOUS
<1>7. \A i \in q + 1 .. n : text[i] \in S
  BY <1>1
<1>8. /\ b \in Seq(S) /\ Len(b) = IF q + 1 <= n THEN n - (q + 1) + 1 ELSE 0
      /\ \A k \in 1 .. n - (q + 1) + 1 : b[k] = text[q + 1 + k - 1]
  BY <1>1, <1>6, <1>7, SubSeqProperties
<1>9. PICK t \in Nat : t = IF q < n THEN n - q ELSE 0
  <2>1. CASE q < n
    <3>1. n - q \in Nat
      BY <2>1
    <3> QED BY <2>1, <3>1
  <2>2. CASE ~(q < n)
    BY <2>2
  <2> QED BY <2>1, <2>2
<1>10. Len(b) = t /\ \A k \in 1 .. t : b[k] = text[q + k]
  BY <1>8, <1>9
<1>11. PICK r \in Seq(S) : r = a \o b /\ Len(r) = h + t
                           /\ (\A i \in 1 .. h : r[i] = a[i]) /\ (\A i \in 1 .. t : r[h + i] = b[i])
  <2>1. /\ a \o b \in Seq(S) /\ Len(a \o b) = Len(a) + Len(b)
        /\ \A i \in 1 .. Len(a) + Len(b) : (a \o b)[i] = IF i <= Len(a) THEN a[i] ELSE b[i - Len(a)]
    BY <1>8, ConcatProperties
  <2>2. \A i \in 1 .. h : i \in 1 .. h + t /\ i <= h
    OBVIOUS
  <2>3. \A i \in 1 .. t : h + i \in 1 .. h + t /\ ~(h + i <= h) /\ (h + i) - h = i
    OBVIOUS
  <2>4. PICK c : c = a \o b
    OBVIOUS
  <2>5. /\ c \in Seq(S) /\ Len(c) = h + t
        /\ \A i \in 1 .. h + t : c[i] = IF i <= h THEN a[i] ELSE b[i - h]
    BY <1>5, <1>10, <2>1, <2>4
  <2>6. (\A i \in 1 .. h : c[i] = a[i]) /\ (\A i \in 1 .. t : c[h + i] = b[i])
    BY <2>2, <2>3, <2>5
  <2> QED BY <2>4, <2>5, <2>6
<1>12. Delete(text, [from |-> p, to |-> q]) = r
  BY <1>1, <1>3, <1>5, <1>6, <1>11 DEF Delete
<1>13. Leaves(text, p, q, r, h, t)
  BY <1>1, <1>2, <1>5, <1>9, <1>10, <1>11 DEF Leaves
<1> QED BY <1>12, <1>13

\* Lines that are left are deleted: the text is what is left without them.
LEMMA DeleteFollows ==
    ASSUME NEW S, NEW original \in Seq(S), NEW gone \in SUBSET (Nat \ {0}), NEW updated, NEW new,
           NEW text \in Seq(S), Follows(original, gone, updated, new, text),
           NEW a \in Nat \ {0}, NEW b \in Nat, a <= b, (a .. b) \cap gone = {}
    PROVE  Follows(original, gone \cup (a .. b), updated, new,
                   Delete(text, [from |-> Place(gone, a), to |-> Place(gone, a) + (b - a)]))
<1> DEFINE G == gone
           H == gone \cup (a .. b)
<1>1. PICK n \in Nat : n = Len(original) /\ DOMAIN original = 1 .. n
  OBVIOUS
<1>2. PICK m \in Nat : m = Len(text)
  OBVIOUS
<1>3. a .. b \in SUBSET (Nat \ {0}) /\ a \notin G /\ b \notin G /\ b \in Nat \ {0}
  OBVIOUS
<1>4. H \in SUBSET (Nat \ {0})
  BY <1>3
<1>5. \A i \in Nat : GoneBefore(H, i) = GoneBefore(G, i) + GoneBefore(a .. b, i)
  <2>1. gone \cap (a .. b) = {}
    OBVIOUS
  <2> QED BY <1>3, <2>1, GoneOfBoth
<1> HIDE DEF H
\* p and q are where the first and the last of the lines are.
<1>6. PICK p \in Nat \ {0}, q \in Nat : p = Place(G, a) /\ q = p + (b - a) /\ q + 1 - p = b - a + 1 /\ p <= q
  <2>1. Place(G, a) \in Nat \ {0}
    BY PlacesInOrder
  <2>2. Place(G, a) + (b - a) \in Nat
    BY <2>1
  <2> QED BY <2>1, <2>2
<1>7. \A i \in Nat : a <= i /\ i <= b + 1 => GoneBefore(G, i) = GoneBefore(G, a)
  <2>1. ASSUME NEW i \in Nat, a <= i, i <= b + 1 PROVE GoneBefore(G, i) = GoneBefore(G, a)
    <3>1. \A k \in G : k < a \/ i <= k
      <4>1. \A k \in G : k \in Nat /\ k \notin a .. b
        OBVIOUS
      <4> QED BY <2>1, <4>1
    <3> QED BY <2>1, <3>1, GoneBetween
  <2> QED BY <2>1
<1>8. \A i \in Nat : GoneBefore(G, i) \in Nat
  BY GoneIsNat
<1>9. Place(G, b + 1) = q + 1
  <2>1. PICK x \in Nat : x = GoneBefore(G, a)
    BY <1>8
  <2>2. GoneBefore(G, b + 1) = x
    BY <1>7, <2>1
  <2>3. Place(G, b + 1) = (b + 1) - x /\ Place(G, a) = a - x
    BY <2>1, <2>2 DEF Place
  <2>4. q = (a - x) + (b - a)
    BY <1>6, <2>3
  <2> QED BY <2>3, <2>4
<1>10. /\ Place(G, n + 1) = m + 1 /\ \A i \in (1 .. n) \ G : Place(G, i) \in 1 .. m
       /\ m = n - GoneBefore(G, n + 1)
  <2>1. /\ Len(text) = Len(original) - GoneBefore(G, Len(original) + 1)
        /\ Len(text) = Place(G, Len(original) + 1) - 1
        /\ \A i \in DOMAIN original \ G : Place(G, i) \in 1 .. Len(text)
    BY LengthLeft
  <2>2. Place(G, n + 1) \in Nat
    <3>1. n + 1 \in Nat \ {0}
      OBVIOUS
    <3> QED BY <3>1, PlacesInOrder
  <2> QED BY <1>1, <1>2, <2>1, <2>2
<1>11. PICK r \in Seq(S), h \in Nat, t \in Nat :
          r = Delete(text, [from |-> p, to |-> q]) /\ Leaves(text, p, q, r, h, t)
  BY DeleteLeaves
<1>12. /\ h = IF p - 1 <= m THEN p - 1 ELSE m
       /\ t = IF q < m THEN m - q ELSE 0
       /\ Len(r) = h + t
       /\ \A i \in 1 .. h : r[i] = text[i]
       /\ \A i \in 1 .. t : r[h + i] = text[q + i]
  BY <1>2, <1>11 DEF Leaves
<1>13. Len(r) = Cardinality((1 .. n) \ H)
  <2>1. Cardinality((1 .. n) \ H) = n - GoneBefore(H, n + 1)
    BY <1>4, LeftOf
  <2>2. PICK x, y \in Nat : x = GoneBefore(G, n + 1) /\ y = GoneBefore(a .. b, n + 1)
    <3>1. n + 1 \in Nat
      OBVIOUS
    <3> QED BY <1>3, <1>8, <3>1, GoneIsNat
  <2>3. GoneBefore(H, n + 1) = x + y
    BY <1>5, <2>2
  <2>4. /\ n + 1 <= a => y = 0
        /\ a <= n + 1 /\ n + 1 <= b + 1 => y = (n + 1) - a
        /\ n + 1 > b => y = b - a + 1
    BY <2>2, GoneOfRange
  <2>5. m = n - x
    BY <1>10, <2>2
  <2>6. CASE a > n
    <3>1. n + 1 <= a /\ n + 1 \in Nat \ {0}
      BY <2>6
    <3>2. Place(G, n + 1) <= Place(G, a)
      BY <3>1, PlacesInOrder
    <3>3. m + 1 <= p
      BY <1>6, <1>10, <3>2
    <3>4. h = m /\ t = 0
      BY <1>6, <1>12, <3>3
    <3> QED BY <1>12, <2>1, <2>3, <2>4, <2>5, <3>1, <3>4
  <2>7. CASE a <= n /\ b >= n
    <3>1. a <= n + 1 /\ n + 1 <= b + 1 /\ n + 1 \in Nat \ {0} /\ b + 1 \in Nat \ {0}
      BY <2>7
    <3>2. Place(G, n + 1) <= Place(G, b + 1)
      BY <3>1, PlacesInOrder
    <3>3. p \in 1 .. m
      BY <1>1, <1>3, <1>6, <1>10, <2>7
    <3>4. h = p - 1 /\ t = 0
      BY <1>9, <1>10, <1>12, <3>2, <3>3
    <3>5. GoneBefore(G, a) = x
      BY <1>7, <2>2, <3>1
    <3>6. p = a - x
      BY <1>6, <3>5 DEF Place
    <3> QED BY <1>12, <2>1, <2>3, <2>4, <2>5, <3>1, <3>4, <3>6
  <2>8. CASE b < n
    <3>1. b \in 1 .. n /\ a \in 1 .. n /\ b + 1 <= n + 1 /\ b < n + 1
      BY <2>8, <1>3
    <3>2. p \in 1 .. m
      BY <1>3, <1>6, <1>10, <3>1
    <3>3. n \in Nat \ {0} /\ n + 1 \in Nat \ {0} /\ b + 1 \in Nat \ {0}
      BY <3>1
    <3>4. Place(G, b + 1) <= Place(G, n + 1)
      BY <3>1, <3>3, PlacesInOrder
    <3>5. q <= m
      BY <1>9, <1>10, <3>4
    <3>6. h = p - 1 /\ t = m - q
      BY <1>12, <3>2, <3>5
    <3>7. Len(r) = (p - 1) + (m - q) /\ y = b - a + 1
      BY <1>12, <2>4, <3>1, <3>6
    <3>8. Cardinality((1 .. n) \ H) = m - y
      BY <2>1, <2>3, <2>5
    <3> QED BY <1>6, <3>7, <3>8
  <2> QED BY <2>6, <2>7, <2>8
<1>14. ASSUME NEW i \in (1 .. n) \ H
       PROVE  r[i - GoneBefore(H, i)] = IF i \in updated THEN new ELSE original[i]
  <2>1. i \in Nat \ {0} /\ i \in (1 .. n) \ G /\ i \notin a .. b
    BY DEF H
  <2>2. PICK x \in Nat : x = GoneBefore(G, i)
    BY <1>8, <2>1
  <2>3. /\ i <= a => GoneBefore(a .. b, i) = 0
        /\ i > b => GoneBefore(a .. b, i) = b - a + 1
    BY <2>1, GoneOfRange
  <2>4. text[i - x] = IF i \in updated THEN new ELSE original[i]
    BY <1>1, <2>1, <2>2 DEF Follows
  <2>5. Place(G, i) = i - x /\ i - x \in 1 .. m
    BY <1>10, <2>1, <2>2 DEF Place
  <2>6. CASE i < a
    <3>1. Place(G, i) + 1 <= Place(G, a)
      BY <2>1, <2>6, PlacesInOrder
    <3>2. i - x \in 1 .. h
      <4>1. i - x <= p - 1 /\ i - x <= m
        BY <1>6, <2>5, <3>1
      <4>2. i - x <= h
        BY <1>12, <4>1
      <4> QED BY <2>5, <4>2
    <3>3. GoneBefore(H, i) = x
      BY <1>5, <2>1, <2>2, <2>3, <2>6
    <3> QED BY <1>12, <2>4, <3>2, <3>3
  <2>7. CASE i > b
    <3>1. b + 1 <= i /\ b + 1 \in Nat \ {0}
      BY <2>1, <2>7
    <3>2. Place(G, b + 1) <= Place(G, i)
      BY <2>1, <3>1, PlacesInOrder
    <3>3. q + 1 <= i - x
      BY <1>9, <2>5, <3>2
    <3>4. h = p - 1 /\ t = m - q
      <4>1. q < m
        BY <2>5, <3>3
      <4>2. p - 1 <= m
        BY <1>6, <4>1
      <4> QED BY <1>12, <4>1, <4>2
    <3>5. PICK k \in Nat : k = (i - x) - q /\ k \in 1 .. t /\ q + k = i - x
      BY <2>5, <3>3, <3>4
    <3>6. GoneBefore(H, i) = x + (b - a + 1)
      BY <1>5, <2>1, <2>2, <2>3, <2>7
    <3>7. i - GoneBefore(H, i) = h + k
      <4>1. k = (i - x) - (p + (b - a)) /\ i \in Int /\ k \in Int
        BY <1>6, <2>1, <3>5
      <4>2. i - (x + (b - a + 1)) = (p - 1) + k
        BY <4>1
      <4> QED BY <3>4, <3>6, <4>2
    <3> QED BY <1>12, <2>4, <3>5, <3>7
  <2>8. i < a \/ i > b
    BY <2>1
  <2> QED BY <2>6, <2>7, <2>8
<1>15. Follows(original, H, updated, new, r)
  BY <1>1, <1>13, <1>14 DEF Follows
<1> QED BY <1>6, <1>11, <1>15 DEF H

\* An update of a line that is left writes it in its place.
LEMMA UpdateFollows ==
    ASSUME NEW S, NEW original \in Seq(S), NEW gone \in SUBSET (Nat \ {0}), NEW updated, NEW text \in Seq(S),
           NEW u, ReplacesOneLine(u), New(u.file) \in S, Follows(original, gone, updated, New(u.file), text),
           u.line \in DOMAIN original \ gone
    PROVE  \A r \in UpdatedTexts(text, u, Place(gone, u.line)) :
              Follows(original, gone, updated \cup {u.line}, New(u.file), r)
<1>1. PICK n \in Nat : n = Len(original) /\ DOMAIN original = 1 .. n
  OBVIOUS
<1>2. PICK m \in Nat : m = Len(text) /\ \A i \in 1 .. m : text[i] \in S
  OBVIOUS
<1>3. PICK line \in (1 .. n) \ gone : line = u.line
  BY <1>1
<1>4. \A i \in (1 .. n) \ gone : Place(gone, i) \in 1 .. m
  BY <1>1, <1>2, LengthLeft
<1>5. PICK p \in 1 .. m : p = Place(gone, line)
  BY <1>3, <1>4
<1>6. PICK new \in S : new = New(u.file)
  OBVIOUS
<1>7. PICK a \in Seq(S) : a = Before(text, p) /\ Len(a) = p - 1 /\ \A i \in 1 .. p - 1 : a[i] = text[i]
  <2>1. Before(text, p) = SubSeq(text, 1, p - 1)
    <3>1. Min({p - 1, m}) = p - 1
      BY MinOfTwo
    <3> QED BY <1>2, <3>1 DEF Before
  <2>2. p - 1 \in 0 .. m
    OBVIOUS
  <2>3. /\ SubSeq(text, 1, p - 1) \in Seq(S) /\ Len(SubSeq(text, 1, p - 1)) = p - 1
        /\ \A i \in 1 .. p - 1 : SubSeq(text, 1, p - 1)[i] = text[i]
    BY <1>2, <2>2
  <2> QED BY <2>1, <2>3
<1>8. PICK b : b = SubSeq(text, p + 1, m)
  OBVIOUS
<1>9. \A i \in p + 1 .. m : text[i] \in S
  BY <1>2
<1>10. /\ b \in Seq(S) /\ Len(b) = IF p + 1 <= m THEN m - (p + 1) + 1 ELSE 0
       /\ \A k \in 1 .. m - (p + 1) + 1 : b[k] = text[p + 1 + k - 1]
  BY <1>2, <1>8, <1>9, SubSeqProperties
<1>11. Len(b) = m - p /\ \A k \in 1 .. m - p : b[k] = text[p + k]
  BY <1>10
<1>12. PICK r \in Seq(S) : r = a \o <<new>> \o b /\ Between(r, a, new, b)
  BY <1>7, <1>10, PutBetween
<1>13. PICK k \in Nat : k = p - 1 /\ k + 1 = p
  OBVIOUS
<1>14. /\ Len(r) = m
       /\ \A i \in 1 .. m : r[i] = IF i < p THEN a[i] ELSE IF i = p THEN new ELSE b[i - p]
  <2>1. k + 1 + (m - p) = m
    BY <1>13
  <2>2. /\ Len(r) = m
        /\ \A i \in 1 .. m : r[i] = IF i <= k THEN a[i] ELSE IF i = p THEN new ELSE b[i - p]
    BY <1>7, <1>11, <1>12, <1>13, <2>1 DEF Between
  <2>3. \A i \in 1 .. m : i <= k <=> i < p
    BY <1>13
  <2> QED BY <2>2, <2>3
<1>15. UpdatedTexts(text, u, p) = {r}
  <2>1. u.action = "replace" /\ u.end = 0 /\ u.size = 1 /\ u.repeats = 0
    BY DEF ReplacesOneLine
  <2>2. Replaced(text, u, p) = {[from |-> p, count |-> 1]}
    <3>1. Span(u, p) = 1
      BY <2>1 DEF Span
    <3>2. 0 .. 0 = {0} /\ 1 + 0 = 1
      OBVIOUS
    <3> QED BY <2>1, <3>1, <3>2 DEF Replaced
  <2>3. Written(u) = <<new>>
    BY <1>6, <2>1 DEF Written
  <2>4. Put(text, p, 1, <<new>>) = r
    BY <1>2, <1>7, <1>8, <1>12, Zenon DEF Put
  <2> QED BY <2>1, <2>2, <2>3, <2>4 DEF UpdatedTexts
<1>16. \A i \in 1 .. m : r[i] = IF i = p THEN new ELSE text[i]
  <2>1. ASSUME NEW i \in 1 .. m, i > p PROVE r[i] = text[i]
    <3>1. i - p \in 1 .. m - p /\ p + (i - p) = i /\ ~(i < p) /\ i # p
      BY <2>1
    <3> QED BY <1>11, <1>14, <3>1
  <2>2. ASSUME NEW i \in 1 .. m, i < p PROVE r[i] = text[i]
    <3>1. i \in 1 .. p - 1
      BY <2>2
    <3> QED BY <1>7, <1>14, <2>2, <3>1
  <2>3. \A i \in 1 .. m : i < p \/ i = p \/ i > p
    OBVIOUS
  <2>4. r[p] = new
    <3>1. ~(p < p)
      OBVIOUS
    <3> QED BY <1>14, <3>1
  <2> QED BY <2>1, <2>2, <2>3, <2>4
<1>17. ASSUME NEW i \in (1 .. n) \ gone
       PROVE  r[Place(gone, i)] = IF i \in updated \cup {line} THEN new ELSE original[i]
  <2>1. text[Place(gone, i)] = IF i \in updated THEN new ELSE original[i]
    BY <1>1, <1>6 DEF Follows, Place
  <2>2. ASSUME i # line PROVE Place(gone, i) # p
    <3>1. i \in Nat \ {0} /\ line \in Nat \ {0} /\ i \notin gone /\ line \notin gone
      OBVIOUS
    <3>2. i < line => Place(gone, i) + 1 <= Place(gone, line)
      BY <3>1, PlacesInOrder
    <3>3. line < i => Place(gone, line) + 1 <= Place(gone, i)
      BY <3>1, PlacesInOrder
    <3>4. PICK x \in 1 .. m : x = Place(gone, i)
      BY <1>4
    <3> QED BY <1>5, <2>2, <3>1, <3>2, <3>3, <3>4
  <2>3. Place(gone, i) \in 1 .. m
    BY <1>4
  <2> QED BY <1>5, <1>16, <2>1, <2>2, <2>3
<1>18. Len(r) = Cardinality((1 .. n) \ gone)
  BY <1>1, <1>2, <1>14 DEF Follows
<1>19. Follows(original, gone, updated \cup {line}, new, r)
  BY <1>1, <1>17, <1>18 DEF Follows, Place
<1> QED BY <1>3, <1>5, <1>6, <1>15, <1>19

(***************************************************************************)
(* Files whose lines are removed by number follow the original lines.      *)
(***************************************************************************)
FollowsOf(f) ==
    /\ ShiftsOf(call.lineShifts[f], Gone(f))
    /\ Follows(call.snapshots[f], Gone(f), UpdatedLines(f), New(f), call.sourceContent[f])

\* The text a call works on, and the shifts, are of the lines the operations so far have removed.
LinesFollow ==
    call # NoCall /\ call.step # "respond" =>
        \A f \in DOMAIN call.snapshots : RemovedByNumber(f) => FollowsOf(f)

LinesInv == KeepInv /\ LinesFollow

LEMMA EndedFollows == ASSUME call' = NoCall PROVE LinesFollow'
BY DEF LinesFollow

LEMMA InitFollows == Init => LinesFollow
BY DEF Init, LinesFollow

LEMMA ExecuteFollows ==
    ASSUME LinesInv, NEW ops \in Scripts, NEW first \in DOMAIN ops, NEW incremental \in BOOLEAN,
           Execute(ops, first, incremental)
    PROVE  LinesFollow'
<1>1. /\ call'.step = "op" /\ call'.ops = ops /\ call'.first = first /\ call'.next = first
      /\ call'.snapshots = Snapshots(ops) /\ call'.sourceContent = Snapshots(ops)
      /\ call'.lineShifts = [f \in File |-> << >>]
  BY DEF Execute
<1>2. first \in Nat
  BY DEF Scripts
<1>3. Removed' = {}
  <2>1. \A j \in first .. Len(ops) : ~(j < first)
    BY <1>2
  <2> QED BY <1>1, <2>1 DEF Removed
<1>4. UpdatesDone' = {}
  BY <1>3 DEF UpdatesDone
<1>5. ASSUME NEW f \in DOMAIN Snapshots(ops) PROVE (FollowsOf(f))'
  <2>1. (Gone(f))' = {} /\ (UpdatedLines(f))' = {}
    BY <1>3, <1>4 DEF Gone, UpdatedLines
  <2>2. f \in File /\ disk[f] # None /\ Snapshots(ops)[f] = disk[f]
    BY DEF Snapshots
  <2>3. PICK text \in Texts : text = disk[f]
    BY <2>2 DEF LinesInv, KeepInv, Typed
  <2>4. PICK n \in Nat : n = Len(text) /\ DOMAIN text = 1 .. n
    BY <2>3 DEF Texts
  <2>5. ShiftsOf(<< >>, {})
    <3>1. << >> \in Seq(Shift) /\ Len(<< >>) = 0 /\ DOMAIN << >> = {}
      OBVIOUS
    <3>2. 1 .. 0 = {}
      OBVIOUS
    <3> QED BY <3>1, <3>2 DEF ShiftsOf, ShiftsApart, LinesOfShifts
  <2>6. \A i \in 1 .. n : i - GoneBefore({}, i) = i
    <3>1. \A i \in 1 .. n : {k \in {} : k < i} = {}
      OBVIOUS
    <3>2. Cardinality({}) = 0
      BY FS_EmptySet
    <3> QED BY <3>1, <3>2 DEF GoneBefore
  <2>7. Cardinality((1 .. n) \ {}) = n
    <3>1. (1 .. n) \ {} = 1 .. n /\ 1 \in Int /\ n \in Int
      OBVIOUS
    <3>2. Cardinality(1 .. n) = IF 1 > n THEN 0 ELSE n - 1 + 1
      BY <3>1, FS_Interval
    <3> QED BY <3>1, <3>2
  <2>8. Follows(text, {}, {}, New(f), text)
    BY <2>4, <2>6, <2>7 DEF Follows
  <2>9. call'.lineShifts[f] = << >> /\ call'.snapshots[f] = text /\ call'.sourceContent[f] = text
    BY <1>1, <2>2, <2>3
  <2> QED BY <2>1, <2>5, <2>8, <2>9 DEF FollowsOf
<1> QED BY <1>1, <1>5 DEF LinesFollow

LEMMA SameNumbers ==
    ASSUME SameCall, NEW f
    PROVE  (RemovedByNumber(f))' <=> RemovedByNumber(f)
BY DEF SameCall, RemovedByNumber

\* What a step leaves as it is for f.
SameLines(f) ==
    /\ (Gone(f))' = Gone(f) /\ (UpdatedLines(f))' = UpdatedLines(f)
    /\ call'.lineShifts[f] = call.lineShifts[f] /\ call'.sourceContent[f] = call.sourceContent[f]

LEMMA SameLinesFollow ==
    ASSUME LinesInv, SameCall, NEW f \in DOMAIN call.snapshots, RemovedByNumber(f), SameLines(f)
    PROVE  (FollowsOf(f))'
<1>1. FollowsOf(f)
  BY DEF LinesInv, LinesFollow, SameCall
<1> QED BY <1>1 DEF SameLines, FollowsOf, SameCall

LEMMA StepFollows ==
    ASSUME LinesInv, SameCall,
           \A f \in DOMAIN call.snapshots : RemovedByNumber(f) => SameLines(f) \/ (FollowsOf(f))'
    PROVE  LinesFollow'
<1> SUFFICES ASSUME NEW f \in DOMAIN call.snapshots, (RemovedByNumber(f))' PROVE (FollowsOf(f))'
  BY DEF LinesFollow, SameCall
<1>1. RemovedByNumber(f)
  BY SameNumbers
<1> QED BY <1>1, SameLinesFollow

\* Before an operation removes and replaces, and after, the same operations have done so.
LEMMA SameRemoved ==
    ASSUME SameCall, call.step \in {"op", "create", "remove"}, call'.step \in {"op", "create", "remove"},
           call'.next = call.next, call'.first = call.first, call'.updates = call.updates
    PROVE  Removed' = Removed /\ UpdatesDone' = UpdatesDone
<1>1. Removed' = Removed
  BY DEF Removed, SameCall
<1> QED BY <1>1 DEF UpdatesDone, SameCall

LEMMA SameForFile ==
    ASSUME SameCall, Removed' = Removed, UpdatesDone' = UpdatesDone, NEW f
    PROVE  (Gone(f))' = Gone(f) /\ (UpdatedLines(f))' = UpdatedLines(f)
BY DEF SameCall, Gone, UpdatedLines

LEMMA BeginOperationFollows == ASSUME LinesInv, call # NoCall, BeginOperation PROVE LinesFollow'
<1>1. CASE GoOn(To("create")) /\ UNCHANGED <<disk, lost>>
  <2>1. call' = [call EXCEPT !.step = "create"] /\ foreign' = foreign /\ call.step = "op"
    BY <1>1 DEF GoOn, To, history, BeginOperation, At
  <2>2. /\ call'.step = "create" /\ call'.ops = call.ops /\ call'.first = call.first /\ call'.next = call.next
        /\ call'.snapshots = call.snapshots /\ call'.updates = call.updates
        /\ call'.lineShifts = call.lineShifts
        /\ call'.sourceContent = call.sourceContent /\ DOMAIN call' = CallFields
    BY <2>1, CallFieldsKept DEF CallFields, LinesInv, KeepInv
  <2>3. SameCall
    BY <2>1, <2>2 DEF NoCall, SameCall
  <2>4. Removed' = Removed /\ UpdatesDone' = UpdatesDone
    BY <2>1, <2>2, <2>3, SameRemoved
  <2> QED BY <2>2, <2>3, <2>4, SameForFile, StepFollows DEF SameLines
<1>2. CASE Pause
  BY <1>2, EndedFollows DEF Pause, Respond
<1> QED BY <1>1, <1>2 DEF BeginOperation

LEMMA CreateFollows == ASSUME LinesInv, call # NoCall, Create PROVE LinesFollow'
<1> DEFINE next == [call EXCEPT !.step = "remove", !.created = @ \cup {Op.create},
                                !.targetContent = With(@, Op.create, CreatedText)]
<1>1. CASE PauseOrRollBack
  BY <1>1, EndedFollows DEF PauseOrRollBack, Respond
<1>2. CASE GoOn(next)
  <2>1. call' = next /\ foreign' = foreign /\ call.step = "create"
    BY <1>2 DEF GoOn, history, Create, At
  <2>2. /\ call'.step = "remove" /\ call'.ops = call.ops /\ call'.first = call.first /\ call'.next = call.next
        /\ call'.snapshots = call.snapshots /\ call'.updates = call.updates
        /\ call'.lineShifts = call.lineShifts
        /\ call'.sourceContent = call.sourceContent /\ DOMAIN call' = CallFields
    BY <2>1, CallFieldsKept DEF CallFields, LinesInv, KeepInv
  <2>3. SameCall
    BY <2>1, <2>2 DEF NoCall, SameCall
  <2>4. Removed' = Removed /\ UpdatesDone' = UpdatesDone
    BY <2>1, <2>2, <2>3, SameRemoved
  <2> QED BY <2>2, <2>3, <2>4, SameForFile, StepFollows DEF SameLines
<1> QED BY <1>1, <1>2 DEF Create

LEMMA NoCreateFollows == ASSUME LinesInv, call # NoCall, NoCreate PROVE LinesFollow'
<1>1. call' = [call EXCEPT !.step = "remove"] /\ foreign' = foreign /\ call.step = "create"
  BY DEF NoCreate, GoOn, To, At, history
<1>2. /\ call'.step = "remove" /\ call'.ops = call.ops /\ call'.first = call.first /\ call'.next = call.next
      /\ call'.snapshots = call.snapshots /\ call'.updates = call.updates
      /\ call'.lineShifts = call.lineShifts
      /\ call'.sourceContent = call.sourceContent /\ DOMAIN call' = CallFields
  BY <1>1, CallFieldsKept DEF CallFields, LinesInv, KeepInv
<1>3. SameCall
  BY <1>1, <1>2 DEF NoCall, SameCall
<1>4. Removed' = Removed /\ UpdatesDone' = UpdatesDone
  BY <1>1, <1>2, <1>3, SameRemoved
<1> QED BY <1>2, <1>3, <1>4, SameForFile, StepFollows DEF SameLines

LEMMA EndOperationFollows == ASSUME LinesInv, call # NoCall, EndOperation PROVE LinesFollow'
<1>1. call' = [call EXCEPT !.step = "op", !.next = @ + 1] /\ foreign' = foreign
      /\ call.step = "update" /\ call.updates = {}
  BY DEF EndOperation, GoOn, At, history
<1>2. /\ call'.step = "op" /\ call'.ops = call.ops /\ call'.first = call.first /\ call'.next = call.next + 1
      /\ call'.snapshots = call.snapshots /\ call'.updates = {}
      /\ call'.lineShifts = call.lineShifts
      /\ call'.sourceContent = call.sourceContent /\ DOMAIN call' = CallFields
  BY <1>1, CallFieldsKept DEF CallFields, LinesInv, KeepInv
<1>3. SameCall
  BY <1>1, <1>2 DEF NoCall, SameCall
<1>4. \A j \in call.first .. Len(call.ops) : j < call.next + 1 <=> j < call.next \/ j = call.next
  BY DEF LinesInv, KeepInv, Inv, Shape, CallShape
<1>5. Removed' = Removed
  BY <1>1, <1>2, <1>4 DEF Removed
<1>6. UpdatesDone' = UpdatesDone
  <2>1. \A j \in Removed : j < call.next + 1
    BY <1>4 DEF Removed
  <2>2. \A j : call.ops[j].updates \ {} = call.ops[j].updates
    OBVIOUS
  <2> QED BY <1>1, <1>2, <1>5, <2>1, <2>2 DEF UpdatesDone
<1> QED BY <1>2, <1>3, <1>5, <1>6, SameForFile, StepFollows DEF SameLines

\* An operation that has removed its lines has done none of its updates yet.
LEMMA NowRemoved ==
    ASSUME LinesInv, SameCall, call.step = "remove", call'.step = "update", call'.next = call.next,
           call'.first = call.first, call'.updates = Op.updates
    PROVE  /\ Removed' = Removed \cup {call.next} /\ call.next \notin Removed
           /\ UpdatesDone' = UpdatesDone
<1>1. /\ call.next \in call.first .. Len(call.ops) /\ call.next \in Nat
      /\ \A j \in call.first .. Len(call.ops) : j \in Int
  <2>1. call.next \in DOMAIN call.ops /\ call.ops \in Seq(Operations) /\ call.next \in Nat
    BY DEF LinesInv, KeepInv, Inv, Shape, CallShape, SameCall
  <2>2. call.first \in DOMAIN call.ops /\ call.next \in call.first .. Len(call.ops) + 1
    BY DEF LinesInv, KeepInv, Typed, CallTyped, SameCall
  <2> QED BY <2>1, <2>2
<1>2. Removed = {j \in call.first .. Len(call.ops) : j < call.next}
  BY DEF Removed
<1>3. Removed' = Removed \cup {call.next} /\ call.next \notin Removed
  BY <1>1, <1>2 DEF Removed, SameCall
<1>4. \A j \in Removed : j < call.next
  BY <1>2
<1>5. UpdatesDone = UNION {call.ops[j].updates : j \in Removed}
  BY <1>4 DEF UpdatesDone
<1>6. UpdatesDone' = UNION {IF j < call.next THEN call.ops[j].updates ELSE call.ops[j].updates \ Op.updates
                             : j \in Removed \cup {call.next}}
  BY <1>3 DEF UpdatesDone, SameCall
<1>7. ~(call.next < call.next) /\ call.ops[call.next].updates \ Op.updates = {}
  BY <1>1 DEF Op
<1>8. UpdatesDone' = UpdatesDone
  BY <1>4, <1>5, <1>6, <1>7
<1> QED BY <1>3, <1>8

\* The one range an operation removes from a file by number.
LEMMA RemovedSpec ==
    ASSUME LinesInv, call # NoCall, call.step = "remove", NEW f, RemovedByNumber(f), Source = f, Op.remove # << >>
    PROVE  /\ Op.remove \in Seq(LineSpec) /\ Len(Op.remove) = 1
           /\ Op.remove[1] \in LineSpec /\ ~Op.remove[1].symbol /\ Op.remove[1].from # 0
           /\ Gone(f) \cap LinesOf(Op.remove[1]) = {}
<1>1. Op \in Operations /\ Op \in Operation
  BY OpIsOperation, OperationsAssumption DEF LinesInv, KeepInv
<1>2. Op.remove \in Seq(Removal)
  BY <1>1 DEF Operation
<1>3. Removal \subseteq LineSpec /\ \A s \in Removal : s.from # 0
  BY FileAssumption DEF Removal, LineSpec
<1>4. call.next \in DOMAIN call.ops /\ call.ops \in Seq(Operations) /\ Removes(call.ops[call.next], f)
  BY DEF LinesInv, KeepInv, Inv, Shape, CallShape, Removes, Op, Source
<1>5. Len(Op.remove) = 1 /\ ~Op.remove[1].symbol
  BY <1>4 DEF RemovedByNumber, Op
<1>6. Op.remove[1] \in Removal
  BY <1>2, <1>5
<1>7. ASSUME NEW k \in Removed, Removes(call.ops[k], f)
      PROVE  LinesOf(call.ops[k].remove[1]) \cap LinesOf(Op.remove[1]) = {}
  <2>1. k \in call.first .. Len(call.ops) /\ k # call.next
    BY <1>4 DEF Removed
  <2>2. call.first \in DOMAIN call.ops
    BY DEF LinesInv, KeepInv, Typed, CallTyped
  <2>3. k \in DOMAIN call.ops
    BY <1>4, <2>1, <2>2
  <2> QED BY <1>4, <1>7, <2>1, <2>3 DEF RemovedByNumber, Op
<1>8. Gone(f) \cap LinesOf(Op.remove[1]) = {}
  BY <1>7 DEF Gone
<1> QED BY <1>2, <1>3, <1>5, <1>6, <1>8

\* A file whose lines are removed by number has ranges to remove.
LEMMA HasRange ==
    ASSUME LinesInv, call # NoCall, call.step = "remove", NEW f \in DOMAIN call.snapshots, RemovedByNumber(f),
           Source = f, Op.remove # << >>, Content(f) # None
    PROVE  /\ call.sourceContent[f] = Content(f) /\ Content(f) \in Texts /\ FollowsOf(f)
           /\ Ranges(f, Op.remove) =
                 <<[from |-> Place(Gone(f), Op.remove[1].from),
                    to |-> Place(Gone(f), Op.remove[1].from) + (Op.remove[1].to - Op.remove[1].from)]>>
           /\ Shifts = Recorded(call.lineShifts[f], Op.remove[1])
<1>1. f \in File /\ f \in DOMAIN call.sourceContent
  BY DEF LinesInv, KeepInv, CreatedByOps, Typed, CallTyped, IsTexts
<1>2. call.sourceContent[f] = Content(f) /\ Content(f) \in Texts
  BY <1>1, ContentTyped DEF LinesInv, KeepInv, Content
<1>3. FollowsOf(f)
  BY DEF LinesInv, LinesFollow
<1>4. PICK remove \in Seq(LineSpec) : remove = Op.remove /\ Len(remove) = 1 /\ ~remove[1].symbol
  BY RemovedSpec
<1>5. PICK shifts \in Seq(Shift) : shifts = call.lineShifts[f]
  BY <1>3 DEF FollowsOf, ShiftsOf
<1>6. PICK text \in Seq(File \X (0 .. Lines)) : text = Content(f)
  BY <1>2 DEF Texts
<1>7. /\ SymbolRanges(text, f, remove) \o NumberRanges(shifts, remove)
           = <<[from |-> adjustLineForShifts(remove[1].from, shifts),
                to |-> adjustLineForShifts(remove[1].from, shifts) + (remove[1].to - remove[1].from)]>>
      /\ FoldLeft(Recorded, shifts, remove) = Recorded(shifts, remove[1])
  BY <1>1, <1>4, OneByNumber
<1>8. Ranges(f, remove) = SymbolRanges(text, f, remove) \o NumberRanges(shifts, remove)
  BY <1>5, <1>6 DEF Ranges
<1>9. Shifts = Recorded(shifts, remove[1])
  BY <1>4, <1>5, <1>7 DEF Shifts
<1>10. adjustLineForShifts(remove[1].from, shifts) = Place(Gone(f), remove[1].from)
  <2>1. PICK gone : gone = Gone(f)
    OBVIOUS
  <2>2. PICK line \in Nat \ {0} : line = remove[1].from /\ line \in LinesOf(remove[1])
    BY <1>4, RemovedSpec DEF LineSpec, LinesOf
  <2>3. ShiftsOf(shifts, gone) /\ line \notin gone
    BY <1>3, <1>4, <1>5, <2>1, <2>2, RemovedSpec DEF FollowsOf
  <2>4. adjustLineForShifts(line, shifts) = Place(gone, line)
    BY <2>3, AdjustedIsPlace
  <2> QED BY <2>1, <2>2, <2>4
<1> QED BY <1>2, <1>3, <1>4, <1>5, <1>7, <1>8, <1>9, <1>10

LEMMA NoRemovalFollows == ASSUME LinesInv, call # NoCall, NoRemoval PROVE LinesFollow'
<1>1. call' = [call EXCEPT !.step = "update", !.updates = Op.updates] /\ foreign' = foreign /\ call.step = "remove"
  BY DEF NoRemoval, GoOn, At, history
<1>2. /\ call'.step = "update" /\ call'.ops = call.ops /\ call'.first = call.first /\ call'.next = call.next
      /\ call'.snapshots = call.snapshots /\ call'.updates = Op.updates
      /\ call'.lineShifts = call.lineShifts
      /\ call'.sourceContent = call.sourceContent /\ DOMAIN call' = CallFields
  BY <1>1, CallFieldsKept DEF CallFields, LinesInv, KeepInv
<1>3. SameCall
  BY <1>1, <1>2 DEF NoCall, SameCall
<1>4. Removed' = Removed \cup {call.next} /\ UpdatesDone' = UpdatesDone
  BY <1>1, <1>2, <1>3, NowRemoved
<1>5. ASSUME NEW f \in DOMAIN call.snapshots, RemovedByNumber(f) PROVE SameLines(f)
  <2>1. ~Removes(call.ops[call.next], f)
    <3>1. SUFFICES ASSUME Source = f, Op.remove # << >> PROVE FALSE
      BY DEF Removes, Op, Source
    <3>2. f \in File /\ f # None
      BY NoneAssumption DEF LinesInv, KeepInv, Typed, CallTyped, IsTexts
    <3>3. Content(f) # None /\ Ranges(f, Op.remove) = << >>
      BY <3>1, <3>2 DEF NoRemoval
    <3>4. PICK range : Ranges(f, Op.remove) = <<range>>
      BY <1>1, <1>5, <3>1, <3>3, HasRange
    <3>5. <<range>> # << >>
      OBVIOUS
    <3> QED BY <3>3, <3>4, <3>5
  <2>2. (Gone(f))' = Gone(f)
    BY <1>2, <1>4, <2>1 DEF Gone
  <2>3. (UpdatedLines(f))' = UpdatedLines(f)
    BY <1>4 DEF UpdatedLines
  <2> QED BY <1>2, <2>2, <2>3 DEF SameLines
<1> QED BY <1>3, <1>5, StepFollows

\* Nothing is put before the lines of a file whose lines are removed by number.
LEMMA NotInjected ==
    ASSUME LinesInv, call # NoCall, NEW f, RemovedByNumber(f), Source = f
    PROVE  ~Injected
<1>1. SUFFICES ASSUME NEW j \in DOMAIN call.ops, call.ops[j].extract, call.ops[j].source = f PROVE FALSE
  BY DEF Injected
<1>2. call.ops[j] \in Operations
  BY DEF LinesInv, KeepInv, Inv, Shape, CallShape
<1>3. Len(call.ops[j].remove) = 1 /\ call.ops[j].remove[1].symbol
  BY <1>1, <1>2, ExtractAssumption
<1>4. call.ops[j].remove # << >>
  BY <1>3
<1> QED BY <1>1, <1>3, <1>4 DEF Removes, RemovedByNumber

LEMMA RemovedFollows ==
    ASSUME LinesInv, call # NoCall, call.step = "remove", NEW f \in DOMAIN call.snapshots, RemovedByNumber(f),
           Source = f, Op.remove # << >>, Content(f) # None
    PROVE  /\ ShiftsOf(Shifts, Gone(f) \cup LinesOf(Op.remove[1]))
           /\ Follows(call.snapshots[f], Gone(f) \cup LinesOf(Op.remove[1]), UpdatedLines(f), New(f),
                      Deleted(Content(f), Ranges(f, Op.remove)))
<1>1. PICK spec \in LineSpec : spec = Op.remove[1] /\ ~spec.symbol /\ spec.from # 0 /\ Gone(f) \cap LinesOf(spec) = {}
  BY RemovedSpec
<1>2. PICK gone : gone = Gone(f)
  OBVIOUS
<1>3. PICK shifts : shifts = call.lineShifts[f] /\ ShiftsOf(shifts, gone) /\ Shifts = Recorded(shifts, spec)
  BY <1>1, <1>2, HasRange DEF FollowsOf
<1>4. ShiftsOf(Shifts, gone \cup LinesOf(spec))
  BY <1>1, <1>2, <1>3, RecordedApart
<1>5. gone \in SUBSET (Nat \ {0})
  BY <1>3, ShiftIsOfLines
<1>6. PICK a \in Nat \ {0}, b \in Nat : a = spec.from /\ b = spec.to /\ a <= b /\ LinesOf(spec) = a .. b
  BY <1>1 DEF LineSpec, LinesOf
<1>7. PICK text \in Seq(File \X (0 .. Lines)) : text = Content(f) /\ text = call.sourceContent[f]
  BY HasRange DEF Texts
<1>8. PICK original \in Seq(File \X (0 .. Lines)) : original = call.snapshots[f]
  BY DEF LinesInv, KeepInv, Typed, CallTyped, IsTexts, Texts
<1>9. PICK updated, new : updated = UpdatedLines(f) /\ new = New(f)
  OBVIOUS
<1>10. Follows(original, gone, updated, new, text)
  BY <1>2, <1>7, <1>8, <1>9, HasRange DEF FollowsOf
<1>11. PICK p \in Nat : p = Place(gone, a)
  BY <1>5, PlacesInOrder
<1>12. PICK r \in LineRange : r = [from |-> p, to |-> p + (b - a)]
  <2>1. [from |-> p, to |-> p + (b - a)] \in LineRange
    BY <1>6 DEF LineRange
  <2> QED BY <2>1
<1>13. Ranges(f, Op.remove) = <<r>>
  BY <1>1, <1>2, <1>6, <1>11, <1>12, HasRange
<1>14. Deleted(text, <<r>>) = Delete(text, r)
  BY DeletedOne
<1>15. (a .. b) \cap gone = {}
  BY <1>1, <1>2, <1>6
<1>16. Follows(original, gone \cup (a .. b), updated, new, Delete(text, [from |-> Place(gone, a), to |-> Place(gone, a) + (b - a)]))
  BY <1>5, <1>6, <1>10, <1>15, DeleteFollows
<1>17. Follows(original, gone \cup (a .. b), updated, new, Deleted(text, <<r>>))
  BY <1>11, <1>12, <1>14, <1>16
<1> QED BY <1>1, <1>2, <1>4, <1>6, <1>7, <1>8, <1>9, <1>13, <1>17

LEMMA RemoveLinesFollows == ASSUME LinesInv, call # NoCall, RemoveLines PROVE LinesFollow'
<1> DEFINE text == Deleted(Content(Source), Ranges(Source, Op.remove))
<1>1. CASE PauseOrRollBack
  BY <1>1, EndedFollows DEF PauseOrRollBack, Respond
<1>2. ASSUME NEW new \in {text} \cup (IF Injected THEN {<<New(Source)>> \o text} ELSE {}),
             GoOn([call EXCEPT !.step = "update", !.updates = Op.updates,
                               !.sourceContent = With(@, Source, new),
                               !.lineShifts[Source] = Shifts])
      PROVE  LinesFollow'
  <2>1. call.step = "remove" /\ Content(Source) # None /\ Op.remove # << >>
    BY DEF RemoveLines, At
  <2>2. /\ call'.step = "update" /\ call'.ops = call.ops /\ call'.first = call.first /\ call'.next = call.next
        /\ call'.snapshots = call.snapshots /\ call'.updates = Op.updates
        /\ call'.lineShifts = [call.lineShifts EXCEPT ![Source] = Shifts]
        /\ call'.sourceContent = With(call.sourceContent, Source, new)
        /\ DOMAIN call' = CallFields /\ foreign' = foreign
    BY <1>2, CallFieldsKept DEF CallFields, GoOn, history, LinesInv, KeepInv
  <2>3. SameCall
    BY <2>1, <2>2 DEF NoCall, SameCall
  <2>4. Removed' = Removed \cup {call.next} /\ UpdatesDone' = UpdatesDone
    BY <2>1, <2>2, <2>3, NowRemoved
  <2>5. ASSUME NEW f \in DOMAIN call.snapshots, RemovedByNumber(f)
        PROVE  SameLines(f) \/ (FollowsOf(f))'
    <3>1. (UpdatedLines(f))' = UpdatedLines(f)
      BY <2>4 DEF UpdatedLines
    <3>2. f \in File /\ f \in DOMAIN call.sourceContent /\ call.lineShifts \in [File -> Seq(Shift)]
      BY <2>3 DEF LinesInv, KeepInv, CreatedByOps, Typed, CallTyped, IsTexts, SameCall
    <3>3. CASE Source # f
      <4>1. ~Removes(call.ops[call.next], f)
        BY <3>3 DEF Removes, Op, Source
      <4>2. (Gone(f))' = Gone(f)
        BY <2>2, <2>4, <4>1 DEF Gone
      <4>3. call'.sourceContent[f] = call.sourceContent[f] /\ call'.lineShifts[f] = call.lineShifts[f]
        BY <2>2, <3>2, <3>3 DEF With
      <4> QED BY <3>1, <4>2, <4>3 DEF SameLines
    <3>4. CASE Source = f
      <4>1. Removes(call.ops[call.next], f)
        BY <2>1, <3>4 DEF Removes, Op, Source
      <4>2. (Gone(f))' = Gone(f) \cup LinesOf(Op.remove[1])
        BY <2>2, <2>4, <4>1 DEF Gone, Op
      <4>3. new = text
        BY <1>2, <2>5, <3>4, NotInjected
      <4>4. call'.sourceContent[f] = Deleted(Content(f), Ranges(f, Op.remove)) /\ call'.lineShifts[f] = Shifts
        BY <2>2, <3>2, <3>4, <4>3 DEF With
      <4>5. /\ ShiftsOf(Shifts, Gone(f) \cup LinesOf(Op.remove[1]))
            /\ Follows(call.snapshots[f], Gone(f) \cup LinesOf(Op.remove[1]), UpdatedLines(f), New(f),
                       Deleted(Content(f), Ranges(f, Op.remove)))
        BY <2>1, <2>5, <3>4, RemovedFollows
      <4> QED BY <2>2, <3>1, <4>2, <4>4, <4>5 DEF FollowsOf
    <3> QED BY <3>3, <3>4
  <2> QED BY <2>3, <2>5, StepFollows
<1> QED BY <1>1, <1>2 DEF RemoveLines

\* An update writes the line its author named.
LEMMA UpdateLinesFollows ==
    ASSUME LinesInv, call # NoCall, NEW u \in call.updates, UpdateLines(u)
    PROVE  LinesFollow'
<1> DEFINE w == u.file
           line == adjustLineForShifts(u.line, call.lineShifts[u.file])
<1>1. CASE PauseOrRollBack
  BY <1>1, EndedFollows DEF PauseOrRollBack, Respond
<1>2. ASSUME NEW text \in UpdatedTexts(Content(w), u, line),
             GoOn([call EXCEPT !.updates = @ \ {u}, !.sourceContent = With(@, w, text)])
      PROVE  LinesFollow'
  <2>1. call.step = "update" /\ u \in Op.updates /\ call.updates \subseteq Op.updates /\ Content(w) # None
    BY CallFieldsKept DEF UpdateLines, At, CallShape, LinesInv, KeepInv
  <2> HIDE DEF w
  <2>2. /\ call'.step = "update" /\ call'.ops = call.ops /\ call'.first = call.first /\ call'.next = call.next
        /\ call'.snapshots = call.snapshots /\ call'.updates = call.updates \ {u}
        /\ call'.lineShifts = call.lineShifts
        /\ call'.sourceContent = With(call.sourceContent, w, text)
        /\ DOMAIN call' = CallFields /\ foreign' = foreign
    BY <1>2, <2>1, CallFieldsKept DEF CallFields, GoOn, history, LinesInv, KeepInv
  <2>3. SameCall
    BY <2>1, <2>2 DEF NoCall, SameCall
  <2>4. Removed' = Removed
    BY <2>1, <2>2 DEF Removed
  <2>5. call.next \in Removed /\ call.next \in Nat /\ call.next \in DOMAIN call.ops
    <3>1. call.next \in DOMAIN call.ops /\ call.ops \in Seq(Operations) /\ call.next \in Nat
      BY <2>1 DEF LinesInv, KeepInv, Inv, Shape, CallShape
    <3>2. call.first \in DOMAIN call.ops /\ call.next \in call.first .. Len(call.ops) + 1
      BY DEF LinesInv, KeepInv, Typed, CallTyped
    <3> QED BY <2>1, <3>1, <3>2 DEF Removed
  <2>6. UpdatesDone' = UpdatesDone \cup {u}
    <3> DEFINE done(c) == UNION {IF j < call.next THEN call.ops[j].updates ELSE call.ops[j].updates \ c : j \in Removed}
    <3>1. UpdatesDone = done(call.updates) /\ UpdatesDone' = done(call.updates \ {u})
      BY <2>2, <2>4 DEF UpdatesDone
    <3>2. \A j \in Removed : j < call.next \/ j = call.next
      BY <2>1 DEF Removed
    <3>3. ~(call.next < call.next) /\ u \in call.ops[call.next].updates
      BY <2>1, <2>5 DEF Op
    <3>4. ASSUME NEW x \in done(call.updates \ {u}) PROVE x \in done(call.updates) \cup {u}
      <4>1. PICK j \in Removed : x \in IF j < call.next THEN call.ops[j].updates
                                       ELSE call.ops[j].updates \ (call.updates \ {u})
        OBVIOUS
      <4>2. x = u \/ x \in IF j < call.next THEN call.ops[j].updates ELSE call.ops[j].updates \ call.updates
        BY <4>1
      <4> QED BY <4>2
    <3>5. done(call.updates) \subseteq done(call.updates \ {u})
      <4>1. \A j \in Removed : (IF j < call.next THEN call.ops[j].updates ELSE call.ops[j].updates \ call.updates)
               \subseteq IF j < call.next THEN call.ops[j].updates ELSE call.ops[j].updates \ (call.updates \ {u})
        OBVIOUS
      <4> QED BY <4>1
    <3>6. u \in done(call.updates \ {u})
      <4>1. u \in IF call.next < call.next THEN call.ops[call.next].updates
                  ELSE call.ops[call.next].updates \ (call.updates \ {u})
        BY <3>3
      <4> QED BY <2>5, <4>1
    <3> HIDE DEF done
    <3> QED BY <3>1, <3>4, <3>5, <3>6
  <2>7. ASSUME NEW f \in DOMAIN call.snapshots, RemovedByNumber(f)
        PROVE  SameLines(f) \/ (FollowsOf(f))'
    <3>1. (Gone(f))' = Gone(f) /\ call'.lineShifts[f] = call.lineShifts[f]
      BY <2>2, <2>4 DEF Gone
    <3>2. f \in File /\ f \in DOMAIN call.sourceContent
      BY <2>3 DEF LinesInv, KeepInv, CreatedByOps, Typed, CallTyped, IsTexts, SameCall
    <3>3. CASE w # f
      <4>1. (UpdatedLines(f))' = UpdatedLines(f)
        BY <2>6, <3>3 DEF UpdatedLines, w
      <4>2. call'.sourceContent[f] = call.sourceContent[f]
        BY <2>2, <3>2, <3>3 DEF With
      <4> QED BY <3>1, <4>1, <4>2 DEF SameLines
    <3>4. CASE w = f
      <4>1. (UpdatedLines(f))' = UpdatedLines(f) \cup {u.line}
        BY <2>6, <3>4 DEF UpdatedLines, w
      <4>2. call'.sourceContent[f] = text /\ call.sourceContent[f] = Content(f)
        BY <2>2, <3>2, <3>4 DEF With, Content
      <4>3. ReplacesOneLine(u) /\ u.line \in DOMAIN call.snapshots[f]
            /\ \A k \in DOMAIN call.ops : Removes(call.ops[k], f) => u.line \notin LinesOf(call.ops[k].remove[1])
        BY <2>1, <2>5, <2>7, <3>4 DEF RemovedByNumber, Op, w
      <4>4. u.line \notin Gone(f)
        <5>1. call.first \in DOMAIN call.ops /\ call.ops \in Seq(Operations)
          BY DEF LinesInv, KeepInv, Typed, CallTyped, Inv, Shape, CallShape
        <5>2. Removed \subseteq DOMAIN call.ops
          BY <5>1 DEF Removed
        <5> QED BY <4>3, <5>2 DEF Gone
      <4>5. FollowsOf(f)
        BY <2>3, <2>7 DEF LinesInv, LinesFollow, SameCall
      <4>6. PICK gone : gone = Gone(f) /\ ShiftsOf(call.lineShifts[f], gone) /\ gone \in SUBSET (Nat \ {0})
        BY <4>5, ShiftIsOfLines DEF FollowsOf
      <4>7. PICK original \in Seq(File \X (0 .. Lines)) : original = call.snapshots[f]
        BY DEF LinesInv, KeepInv, Typed, CallTyped, IsTexts, Texts
      <4>8. PICK before \in Seq(File \X (0 .. Lines)) : before = Content(f)
        BY <2>1, <3>2, <3>4, ContentTyped DEF Texts, LinesInv, KeepInv
      <4>9. PICK updated : updated = UpdatedLines(f)
        OBVIOUS
      <4>10. Follows(original, gone, updated, New(u.file), before)
        BY <3>4, <4>2, <4>5, <4>6, <4>7, <4>8, <4>9 DEF FollowsOf, w
      <4>11. u.line \in DOMAIN original \ gone /\ u.line \in Nat \ {0}
        BY <4>3, <4>4, <4>6, <4>7
      <4>12. New(u.file) \in File \X (0 .. Lines)
        <5>1. 0 \in 0 .. Lines
          BY FileAssumption
        <5> QED BY <3>2, <3>4, <5>1 DEF New, w
      <4>13. line = Place(gone, u.line)
        <5>1. PICK l \in Nat \ {0} : l = u.line /\ l \notin gone
          BY <4>11
        <5>2. PICK shifts : shifts = call.lineShifts[f] /\ ShiftsOf(shifts, gone)
          BY <4>6
        <5>3. adjustLineForShifts(l, shifts) = Place(gone, l)
          BY <5>1, <5>2, AdjustedIsPlace
        <5> QED BY <3>4, <5>1, <5>2, <5>3 DEF w
      <4>14. text \in UpdatedTexts(before, u, Place(gone, u.line))
        BY <1>2, <3>4, <4>8, <4>13 DEF w
      <4>15. Follows(original, gone, updated \cup {u.line}, New(u.file), text)
        BY <4>3, <4>6, <4>10, <4>11, <4>12, <4>14, UpdateFollows
      <4>16. Follows(call.snapshots[f], Gone(f), UpdatedLines(f) \cup {u.line}, New(f), call'.sourceContent[f])
        BY <3>4, <4>2, <4>6, <4>7, <4>9, <4>15 DEF w
      <4> QED BY <2>2, <3>1, <4>1, <4>5, <4>16 DEF FollowsOf
    <3> QED BY <3>3, <3>4
  <2> QED BY <2>3, <2>7, StepFollows
<1> QED BY <1>1, <1>2 DEF UpdateLines

LEMMA RewriteImportsFollows ==
    ASSUME LinesInv, call # NoCall, NEW rewritten \in SUBSET Consumers, RewriteImports(rewritten)
    PROVE  LinesFollow'
<1>1. call' = [call EXCEPT !.step = "respond", !.snapshots = WithConsumers(@, rewritten)]
  BY DEF RewriteImports, GoOn
<1>2. call'.step = "respond"
  BY <1>1, CallFieldsKept DEF CallFields, LinesInv, KeepInv
<1> QED BY <1>2 DEF LinesFollow

LEMMA SameCallFollows == ASSUME LinesInv, call' = call PROVE LinesFollow'
<1>1. Removed' = Removed
  BY DEF Removed
<1>2. UpdatesDone' = UpdatesDone
  BY <1>1 DEF UpdatesDone
<1>3. ASSUME NEW f PROVE (Gone(f))' = Gone(f) /\ (UpdatedLines(f))' = UpdatedLines(f)
  BY <1>1, <1>2 DEF Gone, UpdatedLines
<1>4. ASSUME NEW f PROVE ((RemovedByNumber(f))' <=> RemovedByNumber(f)) /\ ((FollowsOf(f))' <=> FollowsOf(f))
  BY <1>3 DEF RemovedByNumber, FollowsOf
<1>5. LinesFollow
  BY DEF LinesInv
<1> QED BY <1>4, <1>5 DEF LinesFollow

(***************************************************************************)
(* The theorems.                                                           *)
(***************************************************************************)
LEMMA NextKeepsInv == Inv /\ [Next]_vars => Inv'
<1> SUFFICES ASSUME Inv, [Next]_vars PROVE Inv'
  OBVIOUS
<1>1. CASE \E ops \in Scripts : \E first \in DOMAIN ops, incremental \in BOOLEAN : Execute(ops, first, incremental)
  BY <1>1, ExecuteKeepsInv
<1>2. CASE call # NoCall /\ Steps
  <2>1. CASE Done
    BY <1>2, <2>1, PauseKeepsInv DEF Done
  <2> QED BY <1>2, <2>1, BeginOperationKeepsInv, CreateKeepsInv, NoCreateKeepsInv, RemoveLinesKeepsInv,
             NoRemovalKeepsInv, UpdateLinesKeepsInv, EndOperationKeepsInv, RewriteImportsKeepsInv DEF Steps
<1>3. CASE Fail
  BY <1>3, FailKeepsInv
<1>4. CASE Rollback
  BY <1>4, RollbackKeepsInv
<1>5. CASE \E f \in File : \E text \in {None, <<New(f)>>} : ExternalChange(f, text)
  BY <1>5, ExternalChangeKeepsInv
<1>6. CASE UNCHANGED vars
  BY <1>6 DEF vars, Inv, Shape, CallShape, Op, RefusedIsLost, NotThere, ForeignIsKnown, Mentioned,
              RollbackRestores, ComesBack, AllData, RollbackData, WorkingCopyIsDisk
<1> QED BY <1>1, <1>2, <1>3, <1>4, <1>5, <1>6 DEF Next

\* For any files, operations, calls, pauses, failures and changes by others, at every moment the
\* data of the call and of the responses, rolled back the newest first, restores every file the
\* refactoring has changed, but for the files `lost` names (RollbackRestores).
THEOREM RollbackCorrect == Spec => []RollbackRestores
<1>1. Inv => RollbackRestores
  BY DEF Inv
<1> QED BY InitInv, NextKeepsInv, <1>1, PTL DEF Spec

\* For the same, an operation of a call works on what is on disk (WorkingCopyIsDisk).
THEOREM WorkingCopyRight == Spec => []WorkingCopyIsDisk
<1>1. Inv => WorkingCopyIsDisk
  BY DEF Inv
<1> QED BY InitInv, NextKeepsInv, <1>1, PTL DEF Spec

LEMMA NextKeepsCode == KeepInv /\ [Next]_vars => CreatedByOps' /\ CodeKept'
<1> SUFFICES ASSUME KeepInv, [Next]_vars PROVE CreatedByOps' /\ CodeKept'
  OBVIOUS
<1>1. CASE \E ops \in Scripts : \E first \in DOMAIN ops, incremental \in BOOLEAN : Execute(ops, first, incremental)
  BY <1>1, ExecuteKeeps
<1>2. CASE call # NoCall /\ Steps
  <2>1. CASE Done
    BY <2>1, EndedKeeps DEF Done, Pause, Respond
  <2> QED BY <1>2, <2>1, BeginOperationKeeps, CreateKeeps, NoCreateKeeps, RemoveLinesKeeps,
             NoRemovalKeeps, UpdateLinesKeeps, EndOperationKeeps, RewriteImportsKeeps DEF Steps
<1>3. CASE Fail
  BY <1>3, EndedKeeps DEF Fail
<1>4. CASE Rollback
  BY <1>4, EndedKeeps DEF Rollback
<1>5. CASE \E f \in File : \E text \in {None, <<New(f)>>} : ExternalChange(f, text)
  BY <1>5, ExternalChangeKeeps
<1>6. CASE UNCHANGED vars
  BY <1>6 DEF vars, KeepInv, CreatedByOps, CodeKept, OnlyExtracted, LinesKept, TargetsWritten, CopiedFirst,
              Targets, Extracted, Copied, Op, Source, Content
<1> QED BY <1>1, <1>2, <1>3, <1>4, <1>5, <1>6 DEF Next

LEMMA KeepInvInductive == (Init => KeepInv) /\ (KeepInv /\ [Next]_vars => KeepInv')
BY InitInv, InitTyped, InitKeep, NextKeepsInv, NextKeepsTyped, NextKeepsCode DEF KeepInv

\* For any files, operations, calls and changes by others every variable keeps its type: what is on
\* disk and in the rollback data is texts, and a call deletes only what it created.
THEOREM RefactorTypeCorrect == Spec => []TypeOK
<1>1. KeepInv => TypeOK
  BY TypedIsTypeOK DEF KeepInv
<1> QED BY <1>1, KeepInvInductive, PTL DEF Spec

\* For the same, no line of a source of extracts is lost at any moment of a call (ExtractKeepsCode).
THEOREM ExtractsKeep == Spec => []ExtractKeepsCode
<1>1. KeepInv => ExtractKeepsCode
  <2> SUFFICES ASSUME KeepInv, call # NoCall, NEW f \in DOMAIN call.snapshots \ foreign, OnlyExtracted(f)
               PROVE  ToSet(call.snapshots[f]) \ Dressing \subseteq
                        ToSet(disk[f]) \cup UNION {ToSet(disk[t]) : t \in call.created \ foreign}
    BY DEF ExtractKeepsCode
  <2>1. LinesKept(f)
    BY DEF KeepInv, CodeKept
  <2>2. Targets(f) \cap foreign = {}
    BY DEF OnlyExtracted, Targets
  <2> QED BY <2>1, <2>2 DEF LinesKept
<1> QED BY <1>1, KeepInvInductive, PTL DEF Spec

LEMMA NextFollows == LinesInv /\ [Next]_vars => LinesFollow'
<1> SUFFICES ASSUME LinesInv, [Next]_vars PROVE LinesFollow'
  OBVIOUS
<1>1. CASE \E ops \in Scripts : \E first \in DOMAIN ops, incremental \in BOOLEAN : Execute(ops, first, incremental)
  BY <1>1, ExecuteFollows
<1>2. CASE call # NoCall /\ Steps
  <2>1. CASE Done
    BY <2>1, EndedFollows DEF Done, Pause, Respond
  <2> QED BY <1>2, <2>1, BeginOperationFollows, CreateFollows, NoCreateFollows, RemoveLinesFollows,
             NoRemovalFollows, UpdateLinesFollows, EndOperationFollows, RewriteImportsFollows DEF Steps
<1>3. CASE Fail
  BY <1>3, EndedFollows DEF Fail
<1>4. CASE Rollback
  BY <1>4, EndedFollows DEF Rollback
<1>5. CASE \E f \in File : \E text \in {None, <<New(f)>>} : ExternalChange(f, text)
  BY <1>5, SameCallFollows DEF ExternalChange
<1>6. CASE UNCHANGED vars
  BY <1>6, SameCallFollows DEF vars
<1> QED BY <1>1, <1>2, <1>3, <1>4, <1>5, <1>6 DEF Next

\* For any files, operations and calls, in which lines are removed by number in any order, each
\* operation removes and replaces the lines its author named in the file as it was before the call
\* (LinesAsAuthored).
THEOREM LinesFollowAuthor == Spec => []LinesAsAuthored
<1>1. Init => LinesInv
  BY KeepInvInductive, InitFollows DEF LinesInv
<1>2. LinesInv /\ [Next]_vars => LinesInv'
  BY KeepInvInductive, NextFollows DEF LinesInv
<1>3. LinesInv => LinesAsAuthored
  <2> SUFFICES ASSUME LinesInv, call # NoCall, call.step # "respond",
                      NEW f \in DOMAIN call.snapshots, RemovedByNumber(f)
               PROVE  AsAuthored(f, Content(f))
    BY DEF LinesAsAuthored
  <2>1. FollowsOf(f)
    BY DEF LinesInv, LinesFollow
  <2>2. call.sourceContent[f] = Content(f)
    BY DEF LinesInv, KeepInv, CreatedByOps, Content
  <2> QED BY <2>1, <2>2 DEF FollowsOf, Follows, AsAuthored
<1> QED BY <1>1, <1>2, <1>3, PTL DEF Spec

=============================================================================
